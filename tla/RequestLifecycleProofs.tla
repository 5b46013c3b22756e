------------------------- MODULE RequestLifecycleProofs -------------------------
(***************************************************************************)
(* Requests keep what is proved of the transport, and in a process of one  *)
(* thread each of them sends one whole trace, next to those of its manual  *)
(* spans, and meets nothing that another one left behind.                  *)
(***************************************************************************)
EXTENDS RequestLifecycle, TransportProofs, FiniteSetTheorems

\* The number of a message yet to come.
Number == Len(msgs) + 1
-----------------------------------------------------------------------------
\* A step of a request is one of the transport, or none.
LEMMA NextIsStep == [Next]_vars => [Step]_tvars
<1> SUFFICES ASSUME [Next]_vars PROVE [Step]_tvars
  OBVIOUS
<1> USE DEF Step
<1>1. ASSUME NEW t \in Thread, Extension(t) PROVE [Step]_tvars
  <2>1. CASE Transmit(t)
    BY <2>1 DEF Transmit
  <2>2. CASE OpenRequest(t) \/ EndError(t) \/ EndDump(t) \/ LockRoot(t) \/ MakeRoot(t) \/ Finish(t)
    BY <2>2 DEF OpenRequest, EndError, EndDump, LockRoot, MakeRoot, Finish
  <2>3. CASE SendRoot(t) \/ LogResponse(t)
    BY <2>3 DEF SendRoot, LogResponse, Send
  <2>4. CASE CloseRequest(t)
    BY <2>4 DEF CloseRequest
  <2> QED BY <1>1, <2>1, <2>2, <2>3, <2>4 DEF Extension
<1>2. ASSUME NEW t \in Thread, StartRequest(t) PROVE [Step]_tvars
  BY <1>2 DEF StartRequest
<1>3. ASSUME NEW t \in Thread, SendError(t) \/ SendLog(t) \/ EndSpan(t) \/ SendChild(t)
      PROVE  [Step]_tvars
  BY <1>3 DEF SendError, SendLog, EndSpan, SendChild, Send
<1>4. ASSUME NEW t \in Thread, Dump(t) \/ DumpTooLarge(t) \/ EndScript(t) PROVE [Step]_tvars
  BY <1>4 DEF Dump, DumpTooLarge, EndScript
<1>5. ASSUME NEW t \in Thread, SetIni(t) \/ RootTooLarge(t) PROVE [Step]_tvars
  BY <1>5 DEF SetIni, RootTooLarge
<1>6. CASE Agent
  BY <1>6 DEF Agent
<1>7. CASE UNCHANGED vars
  BY <1>7 DEF vars
<1> QED BY <1>1, <1>2, <1>3, <1>4, <1>5, <1>6, <1>7 DEF Next

\* The inductive invariant of the transport holds of the requests.
LEMMA TransportKept == Spec => []Inv
<1>1. Init => Inv
  BY InvInit DEF Init
<1>2. Inv /\ [Next]_vars => Inv'
  BY InvStep, NextIsStep
<1> QED BY <1>1, <1>2, PTL DEF Spec

\* The requests of any number of threads keep what is proved of the transport:
\* types, and the release of messages (twice in one way only) and of sockets.
THEOREM RequestsReleaseAll == Spec => [](TransportTypeOK /\ FreedOnce /\ NoSocketLeak)
<1>1. Inv => TransportTypeOK /\ FreedOnce /\ NoSocketLeak
  BY DEF Inv, Holds, Twice, FreedOnce, Owned, NoSocketLeak, Sending, Wired
<1> QED BY <1>1, TransportKept, PTL

\* In a process of one thread, what a request sends arrives whole.
THEOREM RequestsArriveWhole ==
  ASSUME NEW x, Thread = {x}
  PROVE  Spec => []ArrivesWhole
<1>0. x \in Thread
  OBVIOUS
<1>1. Init => Alone(x)
  BY <1>0, AloneInit DEF Init
<1>2. Inv /\ Alone(x) /\ [Next]_vars => Alone(x)'
  BY <1>0, AloneStep, NextIsStep
<1>3. Inv /\ Alone(x) => ArrivesWhole
  BY <1>0, AloneWhole
<1> QED BY <1>1, <1>2, <1>3, TransportKept, PTL DEF Spec

\* In a process of one thread, what a request sends goes to the port it was for,
\* and to its host but for the two ways OwnAgent names.
THEOREM RequestsReachOwnAgent ==
  ASSUME NEW x, Thread = {x}
  PROVE  Spec => []OwnAgent
<1>0. x \in Thread
  OBVIOUS
<1>1. Init => Alone(x) /\ Routed(x)
  BY <1>0, AloneInit, RoutedInit DEF Init
<1>2. Inv /\ Alone(x) /\ Routed(x) /\ [Next]_vars => Alone(x)' /\ Routed(x)'
  BY <1>0, AloneStep, RoutedStep, NextIsStep
<1>3. Routed(x) => OwnAgent
  BY <1>0, RoutedAgent
<1> QED BY <1>1, <1>2, <1>3, TransportKept, PTL DEF Spec
-----------------------------------------------------------------------------
\* What sending adds.
LEMMA SendEffect ==
  ASSUME Inv, LifecycleTypeOK, NEW t \in Thread, NEW kind \in {"report", "span", "root", "child"},
         NEW trace \in Nat, Send(t, kind, trace)
  PROVE  /\ request' = request /\ requests' = requests /\ fault' = fault
         /\ msgs' \in Seq(Message) /\ Len(msgs') = submitted'
         /\ Number \notin DOMAIN msgs /\ DOMAIN msgs' = DOMAIN msgs \cup {Number}
         /\ \A i \in DOMAIN msgs : msgs'[i] = msgs[i]
         /\ msgs'[Number] = [kind |-> kind, req |-> request[t], trace |-> trace]
         /\ ids' \in Nat
<1> DEFINE e == [kind |-> kind, req |-> request[t], trace |-> trace]
<1>1. /\ msgs' = Append(msgs, e) /\ ids' = IF trace > ids THEN trace ELSE ids
      /\ request' = request /\ requests' = requests /\ fault' = fault /\ submitted' = submitted + 1
  BY DEF Send, Submit
<1>2. e \in Message
  BY DEF Message, Inv, TransportTypeOK
<1> HIDE DEF e
<1>3. msgs \in Seq(Message) /\ Len(msgs) = submitted /\ Len(msgs) \in Nat /\ ids \in Nat
  BY LenProperties DEF LifecycleTypeOK
<1>4. /\ msgs' \in Seq(Message) /\ Len(msgs') = Len(msgs) + 1
      /\ \A i \in 1..Len(msgs) : msgs'[i] = msgs[i]
      /\ msgs'[Len(msgs) + 1] = e
  BY <1>1, <1>2, <1>3
<1>5. DOMAIN msgs = 1..Len(msgs) /\ DOMAIN msgs' = 1..(Len(msgs) + 1)
  BY <1>3, <1>4, LenProperties
<1> QED BY <1>1, <1>3, <1>4, <1>5 DEF Number, e

LEMMA SendIds ==
  ASSUME LifecycleTypeOK, NEW t \in Thread, NEW kind, NEW trace \in Nat, Send(t, kind, trace)
  PROVE  ids' \in Nat /\ ids' >= ids /\ ids' >= trace
BY DEF Send, LifecycleTypeOK

LEMMA TypeInit == Init => LifecycleTypeOK
<1> SUFFICES ASSUME Init PROVE LifecycleTypeOK
  OBVIOUS
<1>1. NoRoot \in Root
  BY DEF NoRoot, Root
<1>2. msgs \in Seq(Message) /\ Len(msgs) = submitted
  BY DEF Init, TInit
<1>3. json \in [Thread -> Root] /\ erring \in [Thread -> Root] /\ root \in Root
  BY <1>1 DEF Init
<1>4. phase \in [Thread -> {"idle", "rinit", "script", "error", "dump", "closing", "making",
                           "made", "finish", "root", "children"}]
  BY DEF Init
<1> QED BY <1>2, <1>3, <1>4 DEF Init, LifecycleTypeOK

LEMMA TypeStep == Inv /\ LifecycleTypeOK /\ [Next]_vars => LifecycleTypeOK'
<1> SUFFICES ASSUME Inv, LifecycleTypeOK, [Next]_vars PROVE LifecycleTypeOK'
  OBVIOUS
<1> USE DEF LifecycleTypeOK
<1>0. NoRoot \in Root /\ root \in Root /\ root.trace \in Nat /\ TraceId \in Nat /\ ids + 1 \in Nat /\ Nobody \notin Thread
      /\ \A t \in Thread : request[t] \in Nat /\ json[t] \in Root /\ json[t].trace \in Nat
  BY NobodyAssumption DEF NoRoot, Root, TraceId, Inv, TransportTypeOK
<1>1. ASSUME NEW t \in Thread, Extension(t) PROVE LifecycleTypeOK'
  <2>1. CASE Transmit(t)
    <3>1. submitted' = submitted
      BY <2>1 DEF Transmit, Inside, PreLookup, Resolve, PreStore, Socket, Lookup, Store, Fallback,
                  Copy, NoAddress, Connect, Write, CloseFailed, Close, FreeMessage, Fault
    <3> QED BY <2>1, <3>1 DEF Transmit, lvars
  <2>2. CASE OpenRequest(t)
    <3>1. root' \in Root /\ ids' \in Nat /\ collector' \in Nat
      BY <1>0, <2>2 DEF OpenRequest, Root
    <3> QED BY <2>2, <3>1 DEF OpenRequest, Enter, tvars, rvars
  <2>3. CASE EndError(t)
    BY <1>0, <2>3 DEF EndError, Enter, tvars, rvars
  <2>4. CASE EndDump(t)
    BY <2>4 DEF EndDump, Enter, tvars, rvars
  <2>5. CASE MakeRoot(t)
    BY <1>0, <2>5 DEF MakeRoot, Enter, tvars, rvars
  <2>6. CASE Finish(t)
    BY <2>6 DEF Finish, Enter, tvars, rvars
  <2>7. CASE SendRoot(t)
    <3>1. CASE Send(t, "root", json[t].trace)
      <4>1. msgs' \in Seq(Message) /\ Len(msgs') = submitted' /\ ids' \in Nat
        BY <1>0, <3>1, SendEffect
      <4> QED BY <1>0, <2>7, <4>1 DEF SendRoot, Enter, rvars
    <3>2. CASE UNCHANGED <<tvars, msgs, ids>>
      BY <1>0, <2>7, <3>2 DEF SendRoot, Enter, tvars, rvars
    <3> QED BY <2>7, <3>1, <3>2 DEF SendRoot
  <2>8. CASE CloseRequest(t)
    BY <1>0, <2>8 DEF CloseRequest, Enter, EndRequest
  <2>9. CASE LockRoot(t)
    BY <2>9 DEF LockRoot, Enter, tvars, rvars
  <2>10. CASE LogResponse(t)
    <3>1. CASE Send(t, "report", TraceId)
      <4>1. msgs' \in Seq(Message) /\ Len(msgs') = submitted' /\ ids' \in Nat
        BY <1>0, <3>1, SendEffect
      <4> QED BY <2>10, <4>1 DEF LogResponse, Enter, rvars
    <3>2. CASE UNCHANGED <<tvars, msgs, ids>>
      BY <2>10, <3>2 DEF LogResponse, Enter, tvars, rvars
    <3> QED BY <2>10, <3>1, <3>2 DEF LogResponse
  <2> QED BY <1>1, <2>1, <2>2, <2>3, <2>4, <2>5, <2>6, <2>7, <2>8, <2>9, <2>10 DEF Extension
<1>2. ASSUME NEW t \in Thread, StartRequest(t) PROVE LifecycleTypeOK'
  BY <1>2 DEF StartRequest, Enter, BeginRequest
<1>3. ASSUME NEW t \in Thread, SendError(t) PROVE LifecycleTypeOK'
  <2>1. msgs' \in Seq(Message) /\ Len(msgs') = submitted' /\ ids' \in Nat
    BY <1>0, <1>3, SendEffect DEF SendError
  <2> QED BY <1>0, <1>3, <2>1 DEF SendError, Enter, rvars
<1>4. ASSUME NEW t \in Thread, SendLog(t) \/ EndSpan(t) \/ SendChild(t) PROVE LifecycleTypeOK'
  <2>1. msgs' \in Seq(Message) /\ Len(msgs') = submitted' /\ ids' \in Nat
    BY <1>0, <1>4, SendEffect DEF SendLog, EndSpan, SendChild
  <2> QED BY <1>4, <2>1 DEF SendLog, EndSpan, SendChild, rvars
<1>5. ASSUME NEW t \in Thread, Dump(t) PROVE LifecycleTypeOK'
  <2>1. root' \in Root /\ ids' \in Nat
    BY <1>0, <1>5 DEF Dump, Root
  <2> QED BY <1>5, <2>1 DEF Dump, Enter, tvars, rvars
<1>6. ASSUME NEW t \in Thread, DumpTooLarge(t) \/ EndScript(t) PROVE LifecycleTypeOK'
  BY <1>6 DEF DumpTooLarge, EndScript, Enter, tvars, rvars
<1>7. ASSUME NEW t \in Thread, SetIni(t) PROVE LifecycleTypeOK'
  BY <1>7 DEF SetIni, Configure, lvars
<1>8. ASSUME NEW t \in Thread, RootTooLarge(t) PROVE LifecycleTypeOK'
  BY <1>8 DEF RootTooLarge, EndRequest, Enter, rvars
<1>9. CASE Agent
  BY <1>9 DEF Agent, AgentTurns, lvars
<1>10. CASE UNCHANGED vars
  BY <1>10 DEF vars, lvars, tvars
<1> QED BY <1>1, <1>2, <1>3, <1>4, <1>5, <1>6, <1>7, <1>8, <1>9, <1>10 DEF Next

\* For any number of threads and requests the globals have their types, and
\* every message submitted is one that RSHUTDOWN or the program made.
THEOREM LifecycleTyped == Spec => []LifecycleTypeOK
<1> QED BY TypeInit, TypeStep, TransportKept, PTL DEF Spec
-----------------------------------------------------------------------------
\* What holds of a process of one thread, x.  Where its request is, and what
\* running out of memory leaves behind: the mutex, so that no request opens.
Busy == {"script", "error", "dump", "closing", "making", "made", "finish", "root", "children"}

Phased(x) ==
  /\ phase[x] = "idle" <=> request[x] = 0
  /\ request[x] # 0 => request[x] = requests
  /\ phase[x] \in {"dump", "making", "made"} => rootMutex = x
  /\ exhausted => rootMutex = x /\ phase[x] \in {"closing", "idle", "rinit"}

\* What the extension keeps is of the request that runs.
Kept(x) ==
  /\ ~exhausted /\ phase[x] \in {"idle", "rinit"} => root = NoRoot /\ collector = 0
  /\ phase[x] \in Busy => root.req = request[x] /\ collector = request[x]
  /\ phase[x] = "error" => erring[x] = root
  /\ phase[x] \in {"finish", "root"} => json[x] = root

\* Trace ids tell the trace of each request and every manual span apart, and
\* the next one is new.
Traced(x) ==
  /\ root.trace <= ids
  /\ \A i \in DOMAIN msgs : msgs[i].trace <= ids /\ msgs[i].req \in 1..requests
  /\ phase[x] = "rinit" => \A i \in DOMAIN msgs : msgs[i].req # request[x]
  /\ phase[x] \in Busy =>
       \A i \in DOMAIN msgs :
         msgs[i].trace = root.trace <=> msgs[i].req = request[x] /\ msgs[i].kind # "span"
  /\ \A i, j \in DOMAIN msgs :
       msgs[i].trace = msgs[j].trace
         <=> \/ i = j
             \/ msgs[i].req = msgs[j].req /\ msgs[i].kind # "span" /\ msgs[j].kind # "span"

\* The root span of a request is sent once, when its children are next.
Rooted(x) ==
  ~exhausted =>
    /\ \A r \in 1..requests :
         r # request[x] \/ phase[x] = "children" => \E i \in DOMAIN msgs : Sent(r, "root") = {i}
    /\ phase[x] \in Busy \ {"children"} => Sent(request[x], "root") = {}

Life(x) == Phased(x) /\ Kept(x) /\ Traced(x) /\ Rooted(x)

LEMMA MessageTyped ==
  ASSUME LifecycleTypeOK
  PROVE  \A i \in DOMAIN msgs : msgs[i].trace \in Nat /\ msgs[i].req \in Nat
<1>1. \A i \in DOMAIN msgs : msgs[i] \in Message
  BY DEF LifecycleTypeOK
<1> QED BY <1>1 DEF Message

LEMMA LifeInit == ASSUME NEW x \in Thread PROVE Init => Life(x)
<1> SUFFICES ASSUME Init PROVE Life(x)
  OBVIOUS
<1>1. phase[x] = "idle" /\ request[x] = 0 /\ requests = 0 /\ ~exhausted /\ root = NoRoot
      /\ collector = 0 /\ ids = 0 /\ DOMAIN msgs = {}
  BY DEF Init, TInit
<1>2. Phased(x) /\ Kept(x)
  BY <1>1 DEF Phased, Kept, Busy
<1>3. Traced(x)
  BY <1>1 DEF Traced, Busy, NoRoot
<1>4. Rooted(x)
  BY <1>1 DEF Rooted, Busy
<1> QED BY <1>2, <1>3, <1>4 DEF Life

\* Nothing the invariant is about changes.
LEMMA LifeUntouched ==
  ASSUME NEW x \in Thread, Life(x),
         UNCHANGED <<request, requests, phase, rootMutex, root, json, erring, collector, ids, msgs,
                     exhausted>>
  PROVE  Life(x)'
<1>1. /\ request' = request /\ requests' = requests /\ phase' = phase /\ rootMutex' = rootMutex
      /\ root' = root /\ json' = json /\ erring' = erring /\ collector' = collector
      /\ ids' = ids /\ msgs' = msgs /\ exhausted' = exhausted
  OBVIOUS
<1>2. Phased(x)' /\ Kept(x)'
  BY <1>1 DEF Life, Phased, Kept
<1>3. Traced(x)'
  BY <1>1 DEF Life, Traced
<1>4. Rooted(x)'
  BY <1>1 DEF Life, Rooted, Sent
<1> QED BY <1>2, <1>3, <1>4 DEF Life

\* The step from one phase to a next one of the same request, with no message.
LEMMA LifeMoves ==
  ASSUME NEW x \in Thread, LifecycleTypeOK, Life(x), NEW p \in Busy \ {"children"},
         phase[x] \in Busy \ {"children"}, Enter(x, p),
         UNCHANGED <<request, requests, root, collector, ids, msgs>>,
         Phased(x)', Kept(x)', exhausted => exhausted'
  PROVE  Life(x)'
<1>1. phase'[x] = p
  BY DEF LifecycleTypeOK, Enter
<1>2. p # "rinit"
  BY DEF Busy
<1>3. Traced(x)'
  BY <1>1, <1>2 DEF Life, Traced
<1>4. Rooted(x)'
  BY <1>1 DEF Life, Rooted, Sent
<1> QED BY <1>3, <1>4 DEF Life

\* Of the messages of the request that runs, a manual span has a trace id of its
\* own, anything else that of the root span.
TraceOf(kind) == IF kind = "span" THEN ids + 1 ELSE root.trace

LEMMA TracedSend ==
  ASSUME NEW x \in Thread, Inv, LifecycleTypeOK, Life(x), phase[x] \in Busy,
         NEW kind \in {"report", "span", "root", "child"}, NEW trace \in Nat, Send(x, kind, trace),
         trace = TraceOf(kind),
         root' = root, phase'[x] \in Busy
  PROVE  Traced(x)'
<1>1. root.trace \in Nat /\ ids \in Nat /\ root.trace <= ids
  BY DEF LifecycleTypeOK, Root, Life, Traced
<1>2. /\ request' = request /\ requests' = requests
      /\ Number \notin DOMAIN msgs /\ DOMAIN msgs' = DOMAIN msgs \cup {Number}
      /\ \A i \in DOMAIN msgs : msgs'[i] = msgs[i]
      /\ msgs'[Number] = [kind |-> kind, req |-> request[x], trace |-> trace]
      /\ ids' \in Nat /\ ids' >= ids /\ ids' >= trace
  <2>1. ids' \in Nat /\ ids' >= ids /\ ids' >= trace
    BY SendIds
  <2>2. /\ request' = request /\ requests' = requests
        /\ Number \notin DOMAIN msgs /\ DOMAIN msgs' = DOMAIN msgs \cup {Number}
        /\ \A i \in DOMAIN msgs : msgs'[i] = msgs[i]
        /\ msgs'[Number] = [kind |-> kind, req |-> request[x], trace |-> trace]
    BY SendEffect
  <2> QED BY <2>1, <2>2
<1>3. msgs'[Number].req = request[x] /\ msgs'[Number].trace = trace /\ msgs'[Number].kind = kind
  BY <1>2
<1>4. request[x] \in 1..requests
  <2>1. request[x] # 0 /\ request[x] = requests
    BY DEF Life, Phased, Busy
  <2>2. requests \in Nat
    BY DEF Inv, TransportTypeOK
  <2> QED BY <2>1, <2>2
<1>5. \A i \in DOMAIN msgs : msgs[i].trace \in Nat /\ msgs[i].req \in Nat /\ msgs[i].trace <= ids
  BY MessageTyped DEF Life, Traced
<1>6. root'.trace <= ids'
  BY <1>1, <1>2
<1>7. \A i \in DOMAIN msgs' : msgs'[i].trace <= ids' /\ msgs'[i].req \in 1..requests'
  BY <1>1, <1>2, <1>3, <1>4, <1>5 DEF Life, Traced
<1>8. \A i \in DOMAIN msgs :
        msgs[i].trace = root.trace <=> msgs[i].req = request[x] /\ msgs[i].kind # "span"
  BY DEF Life, Traced
<1>9. trace = root.trace <=> kind # "span"
  BY <1>1 DEF TraceOf
<1>10. \A i \in DOMAIN msgs' :
         msgs'[i].trace = root'.trace <=> msgs'[i].req = request'[x] /\ msgs'[i].kind # "span"
  BY <1>2, <1>3, <1>8, <1>9
<1>11. \A i \in DOMAIN msgs :
         msgs[i].trace = trace <=> kind # "span" /\ msgs[i].req = request[x] /\ msgs[i].kind # "span"
  BY <1>1, <1>5, <1>8 DEF TraceOf
<1>12. \A i, j \in DOMAIN msgs' :
         msgs'[i].trace = msgs'[j].trace
           <=> \/ i = j
               \/ msgs'[i].req = msgs'[j].req /\ msgs'[i].kind # "span" /\ msgs'[j].kind # "span"
  <2> SUFFICES ASSUME NEW i \in DOMAIN msgs', NEW j \in DOMAIN msgs'
               PROVE  msgs'[i].trace = msgs'[j].trace
                        <=> \/ i = j
                            \/ /\ msgs'[i].req = msgs'[j].req
                               /\ msgs'[i].kind # "span" /\ msgs'[j].kind # "span"
    OBVIOUS
  <2>1. CASE i \in DOMAIN msgs /\ j \in DOMAIN msgs
    BY <1>2, <2>1 DEF Life, Traced
  <2>2. CASE i = Number /\ j \in DOMAIN msgs
    BY <1>2, <1>3, <1>11, <2>2
  <2>3. CASE i \in DOMAIN msgs /\ j = Number
    BY <1>2, <1>3, <1>11, <2>3
  <2>4. CASE i = Number /\ j = Number
    BY <2>4
  <2> QED BY <1>2, <2>1, <2>2, <2>3, <2>4
<1>13. phase'[x] # "rinit"
  BY DEF Busy
<1> QED BY <1>6, <1>7, <1>10, <1>12, <1>13 DEF Traced

\* What has been sent of each request and kind.
LEMMA SentSend ==
  ASSUME NEW x \in Thread, Inv, LifecycleTypeOK,
         NEW kind \in {"report", "span", "root", "child"}, NEW trace \in Nat, Send(x, kind, trace)
  PROVE  /\ \A r \in Nat : kind # "root" \/ r # request[x] => Sent(r, "root")' = Sent(r, "root")
         /\ kind = "root" => Sent(request[x], "root")' = Sent(request[x], "root") \cup {Number}
<1>1. /\ request' = request /\ DOMAIN msgs' = DOMAIN msgs \cup {Number}
      /\ \A i \in DOMAIN msgs : msgs'[i] = msgs[i]
      /\ msgs'[Number] = [kind |-> kind, req |-> request[x], trace |-> trace]
  BY SendEffect
<1>2. msgs'[Number].kind = kind /\ msgs'[Number].req = request[x]
  BY <1>1
<1>3. ASSUME NEW r \in Nat, kind # "root" \/ r # request[x]
      PROVE  Sent(r, "root")' = Sent(r, "root")
  BY <1>1, <1>2, <1>3 DEF Sent
<1>4. ASSUME kind = "root" PROVE Sent(request[x], "root")' = Sent(request[x], "root") \cup {Number}
  BY <1>1, <1>2, <1>4 DEF Sent
<1> QED BY <1>3, <1>4

LEMMA LifeOpens ==
  ASSUME NEW x \in Thread, Inv, LifecycleTypeOK, Life(x), OpenRequest(x)
  PROVE  Life(x)'
<1>1. /\ phase[x] = "rinit" /\ rootMutex = Nobody /\ phase'[x] = "script"
      /\ request' = request /\ requests' = requests /\ rootMutex' = rootMutex
      /\ root' = [req |-> request[x], trace |-> ids + 1] /\ ids' = ids + 1
      /\ collector' = IF collector = 0 THEN request[x] ELSE collector
      /\ msgs' = msgs /\ exhausted' = exhausted
  BY DEF OpenRequest, In, Enter, tvars, LifecycleTypeOK
<1>2. ~exhausted
  BY <1>1, NobodyAssumption DEF Life, Phased
<1>3. root'.req = request[x] /\ root'.trace = ids + 1 /\ ids \in Nat
  BY <1>1 DEF LifecycleTypeOK
<1>4. Phased(x)'
  BY <1>1, <1>2 DEF Life, Phased
<1>5. Kept(x)'
  BY <1>1, <1>2, <1>3 DEF Life, Kept, Busy
<1>6. Traced(x)'
  <2>1. \A i \in DOMAIN msgs : msgs[i].trace \in Nat /\ msgs[i].trace <= ids /\ msgs[i].req # request[x]
    BY <1>1, MessageTyped DEF Life, Traced
  <2>2. root'.trace <= ids' /\ \A i \in DOMAIN msgs' : msgs'[i].trace <= ids' /\ msgs'[i].req \in 1..requests'
    BY <1>1, <1>3, <2>1 DEF Life, Traced
  <2>3. \A i \in DOMAIN msgs' :
          msgs'[i].trace = root'.trace <=> msgs'[i].req = request'[x] /\ msgs'[i].kind # "span"
    BY <1>1, <1>3, <2>1
  <2> QED BY <1>1, <2>2, <2>3 DEF Life, Traced
<1>7. Rooted(x)'
  <2>1. Sent(request[x], "root") = {}
    BY <1>1 DEF Life, Traced, Sent
  <2> QED BY <1>1, <1>2, <2>1 DEF Life, Rooted, Sent
<1> QED BY <1>4, <1>5, <1>6, <1>7 DEF Life

LEMMA LifeSendsRoot ==
  ASSUME NEW x \in Thread, Inv, LifecycleTypeOK, Life(x), SendRoot(x)
  PROVE  Life(x)'
<1>0. /\ phase[x] = "root" /\ phase'[x] = "children" /\ rootMutex' = rootMutex /\ root' = root
      /\ collector' = collector /\ exhausted' = exhausted
  BY DEF SendRoot, In, Enter, LifecycleTypeOK
<1>1. request[x] # 0 /\ request[x] = requests /\ json[x] = root /\ root # NoRoot /\ root.trace \in Nat
      /\ request[x] \in Nat /\ ~exhausted
  BY <1>0 DEF Life, Phased, Kept, Busy, NoRoot, LifecycleTypeOK, Root, Inv, TransportTypeOK
<1>2. Send(x, "root", root.trace)
  BY <1>1 DEF SendRoot
<1>3. request' = request /\ requests' = requests /\ Number \notin DOMAIN msgs
      /\ DOMAIN msgs' = DOMAIN msgs \cup {Number}
  BY <1>1, <1>2, SendEffect
<1>4. Phased(x)' /\ Kept(x)'
  BY <1>0, <1>1, <1>3 DEF Life, Phased, Kept, Busy
<1>5. Traced(x)'
  BY <1>0, <1>1, <1>2, TracedSend DEF Busy, TraceOf
<1>6. Rooted(x)'
  <2>1. Sent(request[x], "root") = {}
    BY <1>0, <1>1 DEF Life, Rooted, Busy
  <2>2. Sent(request[x], "root")' = {Number}
    BY <1>1, <1>2, <2>1, SentSend
  <2>3. ASSUME NEW r \in 1..requests PROVE \E i \in DOMAIN msgs' : Sent(r, "root")' = {i}
    <3>1. CASE r = request[x]
      BY <1>3, <2>2, <3>1
    <3>2. CASE r # request[x]
      <4>1. PICK i \in DOMAIN msgs : Sent(r, "root") = {i}
        BY <1>1, <3>2 DEF Life, Rooted
      <4>2. Sent(r, "root")' = Sent(r, "root")
        BY <1>1, <1>2, <3>2, SentSend
      <4> QED BY <1>3, <4>1, <4>2
    <3> QED BY <3>1, <3>2
  <2> QED BY <1>0, <1>3, <2>3 DEF Rooted
<1> QED BY <1>4, <1>5, <1>6 DEF Life

\* A message that is not the root span, from a phase to one with the same duties.
LEMMA LifeSends ==
  ASSUME NEW x \in Thread, Inv, LifecycleTypeOK, Life(x), NEW kind \in {"report", "span", "child"},
         NEW trace \in Nat, Send(x, kind, trace),
         trace = TraceOf(kind), phase[x] \in Busy, phase'[x] \in Busy,
         phase'[x] = "children" <=> phase[x] = "children",
         UNCHANGED <<root, exhausted>>, Phased(x)', Kept(x)'
  PROVE  Life(x)'
<1>2. request' = request /\ requests' = requests /\ DOMAIN msgs' = DOMAIN msgs \cup {Number}
  BY SendEffect
<1>3. Traced(x)'
  BY TracedSend
<1>4. request[x] \in Nat /\ requests \in Nat
  BY DEF Inv, TransportTypeOK
<1>5. \A r \in Nat : Sent(r, "root")' = Sent(r, "root")
  BY SentSend
<1>6. ASSUME ~exhausted, NEW r \in 1..requests, r # request[x] \/ phase[x] = "children"
      PROVE  \E i \in DOMAIN msgs' : Sent(r, "root")' = {i}
  <2>1. PICK i \in DOMAIN msgs : Sent(r, "root") = {i}
    BY <1>6 DEF Life, Rooted
  <2>2. r \in Nat
    BY <1>4
  <2> QED BY <1>2, <1>5, <2>1, <2>2
<1>7. ASSUME ~exhausted, phase[x] \in Busy \ {"children"} PROVE Sent(request[x], "root")' = {}
  <2>1. Sent(request[x], "root") = {}
    BY <1>7 DEF Life, Rooted
  <2> QED BY <1>2, <1>4, <1>5, <2>1
<1>8. Rooted(x)'
  BY <1>2, <1>6, <1>7 DEF Rooted
<1> QED BY <1>3, <1>8 DEF Life

\* RSHUTDOWN ends, with the messages it should have sent, or in the middle.
LEMMA LifeEnds ==
  ASSUME NEW x \in Thread, Inv, LifecycleTypeOK, Life(x), CloseRequest(x) \/ RootTooLarge(x)
  PROVE  Life(x)'
<1>0. /\ phase'[x] = "idle" /\ request'[x] = 0 /\ requests' = requests /\ msgs' = msgs /\ ids' = ids
      /\ phase[x] \in {"children", "making", "made"}
  BY DEF CloseRequest, RootTooLarge, EndRequest, In, Enter, LifecycleTypeOK, Inv, TransportTypeOK
<1>1. requests \in Nat /\ ids \in Nat
  BY DEF Inv, TransportTypeOK, LifecycleTypeOK
<1>2. CASE CloseRequest(x)
  <2>1. root' = NoRoot /\ collector' = 0 /\ exhausted' = exhausted /\ rootMutex' = rootMutex
        /\ rootMutex = Nobody /\ phase[x] = "children"
    BY <1>2 DEF CloseRequest, In
  <2>2. Phased(x)' /\ Kept(x)'
    BY <1>0, <2>1, NobodyAssumption DEF Life, Phased, Kept, Busy
  <2>3. Traced(x)'
    BY <1>0, <1>1, <2>1 DEF Life, Traced, NoRoot, Busy
  <2>4. Rooted(x)'
    BY <1>0, <2>1 DEF Life, Rooted, Sent, Busy
  <2> QED BY <2>2, <2>3, <2>4 DEF Life
<1>3. CASE RootTooLarge(x)
  <2>1. root' = root /\ exhausted' = TRUE /\ rootMutex' = x
    BY <1>3 DEF RootTooLarge, In, Life, Phased
  <2>2. Phased(x)' /\ Kept(x)'
    BY <1>0, <2>1 DEF Phased, Kept, Busy
  <2>3. Traced(x)'
    BY <1>0, <2>1 DEF Life, Traced, Busy
  <2>4. Rooted(x)'
    BY <2>1 DEF Rooted
  <2> QED BY <2>2, <2>3, <2>4 DEF Life
<1> QED BY <1>2, <1>3

LEMMA LifeStep ==
  ASSUME NEW x, Thread = {x}, Inv, LifecycleTypeOK, Life(x), [Next]_vars
  PROVE  Life(x)'
<1>0. x \in Thread /\ \A t \in Thread : t = x
  OBVIOUS
<1> USE DEF LifecycleTypeOK
<1>1. CASE Extension(x)
  <2>1. CASE Transmit(x)
    <3>1. request' = request /\ requests' = requests
      BY <2>1 DEF Transmit, Inside, PreLookup, Resolve, PreStore, Socket, Lookup, Store, Fallback,
                  Copy, NoAddress, Connect, Write, CloseFailed, Close, FreeMessage, Fault
    <3> QED BY <1>0, <2>1, <3>1, LifeUntouched DEF Transmit, lvars
  <2>2. CASE OpenRequest(x)
    BY <1>0, <2>2, LifeOpens
  <2>3. CASE EndError(x) \/ EndDump(x)
    <3>1. /\ phase[x] \in {"error", "dump"} /\ Enter(x, "script")
          /\ UNCHANGED <<request, requests, root, collector, ids, msgs, exhausted>>
      BY <2>3 DEF EndError, EndDump, In, tvars
    <3>2. phase'[x] = "script"
      BY <1>0, <3>1 DEF Enter
    <3>3. Phased(x)' /\ Kept(x)'
      BY <3>1, <3>2 DEF Life, Phased, Kept, Busy
    <3> QED BY <1>0, <3>1, <3>3, LifeMoves DEF Busy
  <2>4. CASE MakeRoot(x)
    <3>1. /\ phase[x] = "made" /\ Enter(x, "finish") /\ json'[x] = root
          /\ UNCHANGED <<request, requests, root, collector, ids, msgs, exhausted>>
      BY <1>0, <2>4 DEF MakeRoot, In, tvars
    <3>2. phase'[x] = "finish"
      BY <1>0, <3>1 DEF Enter
    <3>3. Phased(x)' /\ Kept(x)'
      BY <1>0, <3>1, <3>2, NobodyAssumption DEF Life, Phased, Kept, Busy
    <3> QED BY <1>0, <3>1, <3>3, LifeMoves DEF Busy
  <2>5. CASE Finish(x)
    <3>1. /\ phase[x] = "finish" /\ Enter(x, "root") /\ json' = json /\ rootMutex' = rootMutex
          /\ UNCHANGED <<request, requests, root, collector, ids, msgs, exhausted>>
      BY <2>5 DEF Finish, In, tvars
    <3>2. phase'[x] = "root"
      BY <1>0, <3>1 DEF Enter
    <3>3. Phased(x)' /\ Kept(x)'
      BY <3>1, <3>2 DEF Life, Phased, Kept, Busy
    <3> QED BY <1>0, <3>1, <3>3, LifeMoves DEF Busy
  <2>6. CASE SendRoot(x)
    BY <1>0, <2>6, LifeSendsRoot
  <2>7. CASE CloseRequest(x)
    BY <1>0, <2>7, LifeEnds
  <2>8. CASE LockRoot(x)
    <3>1. /\ phase[x] = "closing" /\ Enter(x, "making") /\ rootMutex = Nobody /\ rootMutex' = x
          /\ UNCHANGED <<request, requests, root, collector, ids, msgs, exhausted>>
      BY <2>8 DEF LockRoot, In, tvars
    <3>2. phase'[x] = "making"
      BY <1>0, <3>1 DEF Enter
    <3>3. Phased(x)' /\ Kept(x)'
      BY <1>0, <3>1, <3>2, NobodyAssumption DEF Life, Phased, Kept, Busy
    <3> QED BY <1>0, <3>1, <3>3, LifeMoves DEF Busy
  <2>9. CASE LogResponse(x)
    <3>1. /\ phase[x] = "making" /\ Enter(x, "made")
          /\ UNCHANGED <<rootMutex, root, collector, exhausted>>
      BY <2>9 DEF LogResponse, In
    <3>2. phase'[x] = "made"
      BY <1>0, <3>1 DEF Enter
    <3>3. root # NoRoot /\ TraceId = root.trace /\ root.trace \in Nat
      BY <3>1 DEF Life, Phased, Kept, Busy, NoRoot, TraceId, Root
    <3>4. CASE Send(x, "report", TraceId)
      <4>1. request' = request /\ requests' = requests
        BY <3>4 DEF Send, Submit
      <4>2. Phased(x)' /\ Kept(x)'
        BY <3>1, <3>2, <4>1 DEF Life, Phased, Kept, Busy
      <4> QED BY <1>0, <3>1, <3>2, <3>3, <3>4, <4>2, LifeSends DEF Busy, TraceOf
    <3>5. CASE UNCHANGED <<tvars, msgs, ids>>
      <4>1. Phased(x)' /\ Kept(x)'
        BY <3>1, <3>2, <3>5 DEF Life, Phased, Kept, Busy, tvars
      <4> QED BY <1>0, <3>1, <3>5, <4>1, LifeMoves DEF Busy, tvars
    <3> QED BY <2>9, <3>4, <3>5 DEF LogResponse
  <2> QED BY <1>1, <2>1, <2>2, <2>3, <2>4, <2>5, <2>6, <2>7, <2>8, <2>9 DEF Extension
<1>2. CASE StartRequest(x)
  <2>1. /\ phase[x] = "idle" /\ phase'[x] = "rinit" /\ requests' = requests + 1
        /\ request'[x] = requests + 1 /\ requests \in Nat
        /\ UNCHANGED <<rootMutex, root, json, erring, collector, ids, msgs, exhausted>>
    BY <1>0, <1>2 DEF StartRequest, BeginRequest, Enter, Inv, TransportTypeOK
  <2>2. Phased(x)' /\ Kept(x)'
    BY <2>1 DEF Life, Phased, Kept, Busy
  <2>3. Traced(x)'
    <3>1. \A i \in DOMAIN msgs : msgs[i].req \in 1..(requests + 1) /\ msgs[i].req # requests + 1
      BY <2>1, MessageTyped DEF Life, Traced
    <3> QED BY <2>1, <3>1 DEF Life, Traced, Busy
  <2>4. Rooted(x)'
    <3>1. request[x] = 0
      BY <2>1 DEF Life, Phased
    <3>2. \A r \in 1..(requests + 1) : r # requests + 1 => r \in 1..requests /\ r # 0
      BY <2>1
    <3> QED BY SMTT(30), <2>1, <3>1, <3>2 DEF Life, Rooted, Sent, Busy
  <2> QED BY <2>2, <2>3, <2>4 DEF Life
<1>3. CASE SendError(x) \/ SendLog(x) \/ EndSpan(x) \/ SendChild(x)
  <2>1. root # NoRoot /\ TraceId = root.trace /\ phase[x] \in {"script", "children"}
    <3>1. phase[x] \in {"script", "children"}
      BY <1>3 DEF SendError, SendLog, EndSpan, SendChild, In
    <3>2. root # NoRoot
      BY <3>1 DEF Life, Phased, Kept, Busy, NoRoot
    <3> QED BY <3>1, <3>2 DEF TraceId
  <2>2. PICK kind \in {"report", "span", "child"}, trace \in Nat :
          Send(x, kind, trace) /\ trace = TraceOf(kind)
    <3>1. root.trace \in Nat /\ ids + 1 \in Nat
      BY DEF Root
    <3>2. CASE EndSpan(x)
      BY <3>1, <3>2 DEF EndSpan, TraceOf
    <3>3. CASE SendError(x) \/ SendLog(x) \/ SendChild(x)
      <4>1. PICK k \in {"report", "child"} : Send(x, k, root.trace)
        BY <2>1, <3>3 DEF SendError, SendLog, SendChild
      <4> QED BY <3>1, <4>1 DEF TraceOf
    <3> QED BY <1>3, <3>2, <3>3
  <2>3. /\ rootMutex' = rootMutex /\ root' = root /\ json' = json /\ collector' = collector
        /\ exhausted' = exhausted
        /\ \/ phase' = phase /\ erring' = erring
           \/ phase[x] = "script" /\ phase'[x] = "error" /\ erring'[x] = root
    <3>1. CASE SendError(x)
      BY <1>0, <3>1 DEF SendError, In, Enter
    <3>2. CASE SendLog(x) \/ EndSpan(x) \/ SendChild(x)
      BY <3>2 DEF SendLog, EndSpan, SendChild
    <3> QED BY <1>3, <3>1, <3>2
  <2>4. request' = request /\ requests' = requests
    BY <2>2 DEF Send, Submit
  <2>5. Phased(x)' /\ Kept(x)'
    BY <2>1, <2>3, <2>4 DEF Life, Phased, Kept, Busy
  <2>6. phase[x] \in Busy /\ phase'[x] \in Busy /\ (phase'[x] = "children" <=> phase[x] = "children")
    BY <2>1, <2>3 DEF Busy
  <2> QED BY <1>0, <2>2, <2>3, <2>5, <2>6, LifeSends
<1>4. CASE Dump(x) \/ DumpTooLarge(x) \/ EndScript(x)
  <2>1. PICK p \in {"dump", "closing"} :
          /\ Enter(x, p) /\ phase[x] \in {"script", "dump"}
          /\ UNCHANGED <<request, requests, json, erring, collector, msgs>>
    BY <1>4 DEF Dump, DumpTooLarge, EndScript, In, tvars
  <2>2. root # NoRoot
    BY <2>1 DEF Life, Phased, Kept, Busy, NoRoot
  <2>3. phase'[x] = p /\ root' = root /\ ids' = ids /\ (exhausted => exhausted')
    <3>1. phase'[x] = p
      BY <1>0, <2>1 DEF Enter
    <3>2. root' = root /\ ids' = ids /\ (exhausted => exhausted')
      BY <1>4, <2>2 DEF Dump, DumpTooLarge, EndScript
    <3> QED BY <3>1, <3>2
  <2>4. Phased(x)'
    <3>1. CASE Dump(x)
      <4>1. phase[x] = "script" /\ rootMutex' = x /\ exhausted' = exhausted
        BY <3>1 DEF Dump, In
      <4> QED BY <2>1, <2>3, <4>1 DEF Life, Phased
    <3>2. CASE DumpTooLarge(x)
      <4>1. phase[x] = "dump" /\ rootMutex' = rootMutex /\ phase'[x] = "closing"
        BY <1>0, <3>2 DEF DumpTooLarge, In, Enter
      <4> QED BY <2>1, <4>1 DEF Life, Phased
    <3>3. CASE EndScript(x)
      <4>1. phase[x] = "script" /\ rootMutex' = rootMutex /\ phase'[x] = "closing" /\ exhausted' = exhausted
        BY <1>0, <3>3 DEF EndScript, In, Enter
      <4> QED BY <2>1, <4>1 DEF Life, Phased
    <3> QED BY <1>4, <3>1, <3>2, <3>3
  <2>5. Kept(x)'
    BY <2>1, <2>3 DEF Life, Kept, Busy
  <2> QED BY <1>0, <2>1, <2>3, <2>4, <2>5, LifeMoves DEF Busy
<1>5. CASE SetIni(x)
  BY <1>0, <1>5, LifeUntouched DEF SetIni, Configure
<1>6. CASE RootTooLarge(x)
  BY <1>0, <1>6, LifeEnds
<1>7. CASE Agent
  BY <1>0, <1>7, LifeUntouched DEF Agent, AgentTurns, lvars
<1>8. CASE UNCHANGED vars
  BY <1>0, <1>8, LifeUntouched DEF vars, tvars, lvars
<1> QED BY <1>0, <1>1, <1>2, <1>3, <1>4, <1>5, <1>6, <1>7, <1>8 DEF Next

LEMMA LifeHolds ==
  ASSUME NEW x, Thread = {x}
  PROVE  Spec => [](Inv /\ LifecycleTypeOK /\ Life(x))
<1>1. Init => Life(x)
  BY LifeInit
<1>2. Inv /\ LifecycleTypeOK /\ Life(x) /\ [Next]_vars => Life(x)'
  BY LifeStep
<1> QED BY <1>1, <1>2, TransportKept, LifecycleTyped, PTL DEF Spec
-----------------------------------------------------------------------------
\* In a process of one thread the root span, the child spans, the errors and the
\* logs of a request carry one trace id, that no other request's carry and no
\* manual span's; and a request that is over has sent its root span once, unless
\* memory ran out under the mutex.
THEOREM RequestsMakeOneTrace ==
  ASSUME NEW x, Thread = {x}
  PROVE  Spec => []OneTrace
<1>1. Inv /\ LifecycleTypeOK /\ Life(x) => OneTrace
  <2> SUFFICES ASSUME Inv, LifecycleTypeOK, Life(x) PROVE OneTrace
    OBVIOUS
  <2>1. \A i, j \in DOMAIN msgs :
          msgs[i].trace = msgs[j].trace
            <=> \/ i = j
                \/ msgs[i].req = msgs[j].req /\ msgs[i].kind # "span" /\ msgs[j].kind # "span"
    BY DEF Life, Traced
  <2>2. ASSUME ~exhausted, NEW r \in 1..requests, Over(r) PROVE Cardinality(Sent(r, "root")) = 1
    <3>1. r # request[x]
      <4>1. requests \in Nat /\ r # 0
        BY DEF Inv, TransportTypeOK
      <4> QED BY <2>2, <4>1 DEF Over, Alive
    <3>2. PICK i \in DOMAIN msgs : Sent(r, "root") = {i}
      BY <2>2, <3>1 DEF Life, Rooted
    <3> QED BY <3>2, FS_Singleton
  <2> QED BY <2>1, <2>2 DEF OneTrace
<1> QED BY <1>1, LifeHolds, PTL

\* In a process of one thread, no request runs with the collector or the root
\* span of another one, whatever a bailout of an earlier one left behind.
THEOREM RequestsLeaveNothing ==
  ASSUME NEW x, Thread = {x}
  PROVE  Spec => []OwnState
<1>1. Inv /\ LifecycleTypeOK /\ Life(x) => OwnState
  <2> SUFFICES ASSUME Inv, LifecycleTypeOK, Life(x), NEW t \in Thread, phase[t] \notin {"idle", "rinit"}
               PROVE  collector = request[t] /\ root.req = request[t]
    BY DEF OwnState
  <2>1. t = x /\ phase[x] \in Busy
    BY DEF LifecycleTypeOK, Busy
  <2> QED BY <2>1 DEF Life, Kept
<1> QED BY <1>1, LifeHolds, PTL
=============================================================================
