--------------------------- MODULE RequestLifecycle ---------------------------
(***************************************************************************)
(* A request from RINIT to RSHUTDOWN and what it sends: errors, logs and   *)
(* manual spans while the script runs, then the root span and the child    *)
(* spans, all through Transport.  Dumps write to the root span under its   *)
(* mutex; a script, a dump or the message of the root span may be cut      *)
(* short by a bailout (exit, a fatal error, memory_limit), which unlocks   *)
(* nothing.  Under PHP-FPM the response is given to the client before the  *)
(* spans are sent, and what log it took to make the root span is sent      *)
(* before the response.                                                    *)
(*                                                                         *)
(* The root span, its mutex and the collector belong to the process.  The  *)
(* collector is memory of the request that allocated it.                   *)
(***************************************************************************)
EXTENDS Transport, FiniteSets

CONSTANT Nobody  \* the holder of a free mutex

ASSUME NobodyAssumption == Nobody \notin Thread

NoRoot == [req |-> 0, trace |-> 0]

VARIABLES
  fpm,       \* whether the process is one of PHP-FPM, with fastcgi_finish_request
  logs,      \* opa.track_logs
  phase,     \* of each thread: where its request is
  rootMutex, \* root_span_data_mutex
  root,      \* the root span of the process: the request it was made for, its trace id
  json,      \* of each thread: the root span its RSHUTDOWN is going to send
  erring,    \* of each thread: the root span whose ids send_error_to_agent uses
  collector, \* global_collector: the request whose memory it is, or 0
  ids,       \* trace ids generated so far
  msgs,      \* of each message submitted: kind, request and trace id
  delivered, \* of each thread: whether the client of its request has the response
  exhausted  \* whether memory ran out with root_span_data_mutex held

lvars == <<fpm, logs, phase, rootMutex, root, json, erring, collector, ids, msgs, delivered,
           exhausted>>
vars  == <<tvars, lvars>>
----------------------------------------------------------------------------
In(t, p)      == phase[t] = p /\ At(t, "out")
Enter(t, p)   == phase' = [phase EXCEPT ![t] = p]

\* What decides about the response, and whether it is there.
rvars == <<fpm, logs, delivered>>

\* Mutant: errors and logs get trace ids of their own.
TraceOfNone == ids + 1

\* The trace id of an error or a log: that of the root span, if there is one.
TraceId == IF root = NoRoot THEN ids + 1 ELSE root.trace

\* A message is built, and send_message_direct called.
Send(t, kind, trace) ==
  /\ \E size \in {Small, Large} : Submit(t, size)
  /\ msgs' = Append(msgs, [kind |-> kind, req |-> request[t], trace |-> trace])
  /\ ids' = IF trace > ids THEN trace ELSE ids

\* RINIT up to the mutex of the root span.
StartRequest(t) ==
  /\ phase[t] = "idle"
  /\ \E s \in Settings, profiled \in BOOLEAN : BeginRequest(t, s, profiled)
  /\ logs' \in BOOLEAN
  /\ Enter(t, "rinit")
  /\ UNCHANGED <<fpm, delivered, rootMutex, root, json, erring, collector, ids, msgs, exhausted>>

\* The rest of RINIT: a new root span, whatever was there, and a collector
\* unless there is one.
OpenRequest(t) ==
  /\ In(t, "rinit")
  /\ rootMutex = Nobody
  /\ root' = [req |-> request[t], trace |-> ids + 1]
  /\ ids' = ids + 1
  /\ collector' = IF collector = 0 THEN request[t] ELSE collector
  /\ Enter(t, "script")
  /\ UNCHANGED <<tvars, rvars, rootMutex, json, erring, msgs, exhausted>>
----------------------------------------------------------------------------
\* send_error_to_agent up to the return of send_message_direct ...
SendError(t) ==
  /\ In(t, "script")
  /\ settings.enabled
  /\ submitted < MaxMessages
  /\ Send(t, "report", TraceId)
  /\ erring' = [erring EXCEPT ![t] = root]
  /\ Enter(t, "error")
  /\ UNCHANGED <<rvars, rootMutex, root, json, collector, exhausted>>

\* ... and from there: ids that are not the root's are freed.
EndError(t) ==
  /\ In(t, "error")
  /\ erring' = [erring EXCEPT ![t] = NoRoot]
  /\ Enter(t, "script")
  /\ UNCHANGED <<tvars, rvars, rootMutex, root, json, collector, ids, msgs, exhausted>>

\* send_log_to_agent copies the ids it finds.  The filter for levels is off.
SendLog(t) ==
  /\ In(t, "script")
  /\ settings.enabled /\ logs
  /\ submitted < MaxMessages
  /\ Send(t, "report", TraceId)
  /\ UNCHANGED <<rvars, phase, rootMutex, root, json, erring, collector, exhausted>>

\* opa_end_span: a manual span has a trace id of its own; ManualSpans has the rest.
EndSpan(t) ==
  /\ In(t, "script")
  /\ submitted < MaxMessages
  /\ Send(t, "span", ids + 1)
  /\ UNCHANGED <<rvars, phase, rootMutex, root, json, erring, collector, exhausted>>

\* dump outside manual spans, up to its loop over the arguments.
Dump(t) ==
  /\ In(t, "script")
  /\ rootMutex = Nobody
  /\ rootMutex' = t
  /\ IF root = NoRoot
     THEN root' = [req |-> request[t], trace |-> ids + 1] /\ ids' = ids + 1
     ELSE UNCHANGED <<root, ids>>
  /\ Enter(t, "dump")
  /\ UNCHANGED <<tvars, rvars, json, erring, collector, msgs, exhausted>>

\* Mutant: no unlock.
EndDumpLocked(t) ==
  /\ In(t, "dump")
  /\ Enter(t, "script")
  /\ UNCHANGED <<tvars, rvars, rootMutex, root, json, erring, collector, ids, msgs, exhausted>>

EndDump(t) ==
  /\ In(t, "dump")
  /\ rootMutex' = Nobody
  /\ Enter(t, "script")
  /\ UNCHANGED <<tvars, rvars, root, json, erring, collector, ids, msgs, exhausted>>

\* The arguments do not fit into the memory that is left: the script ends.
DumpTooLarge(t) ==
  /\ In(t, "dump")
  /\ exhausted' = TRUE
  /\ Enter(t, "closing")
  /\ UNCHANGED <<tvars, rvars, rootMutex, root, json, erring, collector, ids, msgs>>

\* ini_set.
SetIni(t) ==
  /\ In(t, "script")
  /\ \E s \in Settings : Configure(t, s)
  /\ logs' \in BOOLEAN
  /\ UNCHANGED <<fpm, delivered, phase, rootMutex, root, json, erring, collector, ids, msgs, exhausted>>

\* The script ends, in whatever way.
EndScript(t) ==
  /\ In(t, "script")
  /\ Enter(t, "closing")
  /\ UNCHANGED <<tvars, rvars, rootMutex, root, json, erring, collector, ids, msgs, exhausted>>
----------------------------------------------------------------------------
\* RSHUTDOWN takes the mutex of the root span ...
LockRoot(t) ==
  /\ In(t, "closing")
  /\ rootMutex = Nobody
  /\ rootMutex' = t
  /\ Enter(t, "making")
  /\ UNCHANGED <<tvars, rvars, root, json, erring, collector, ids, msgs, exhausted>>

\* ... reads what the response was, which under PHP-FPM is logged, and the log
\* sent to the agent ...
LogResponse(t) ==
  /\ In(t, "making")
  /\ IF fpm /\ logs /\ settings.enabled /\ root # NoRoot
     THEN Send(t, "report", TraceId)
     ELSE UNCHANGED <<tvars, msgs, ids>>
  /\ Enter(t, "made")
  /\ UNCHANGED <<rvars, rootMutex, root, json, erring, collector, exhausted>>

\* Mutant: the message is sent at once, before the response.
MakeRootSending(t) ==
  /\ In(t, "made")
  /\ rootMutex' = Nobody
  /\ Send(t, "root", root.trace)
  /\ Enter(t, "finish")
  /\ UNCHANGED <<rvars, root, json, erring, collector, exhausted>>

\* ... and makes the message of the root span ...
MakeRoot(t) ==
  /\ In(t, "made")
  /\ rootMutex' = Nobody
  /\ json' = [json EXCEPT ![t] = root]
  /\ Enter(t, "finish")
  /\ UNCHANGED <<tvars, rvars, root, erring, collector, ids, msgs, exhausted>>

\* ... or runs out of memory, which ends RSHUTDOWN and the request.
RootTooLarge(t) ==
  /\ In(t, "making") \/ In(t, "made")
  /\ exhausted' = TRUE
  /\ EndRequest(t)
  /\ Enter(t, "idle")
  /\ UNCHANGED <<rvars, rootMutex, root, json, erring, collector, ids, msgs>>

\* opa_finish_request: the client has its response, if there is a
\* fastcgi_finish_request; else it waits for the end of the request.
Finish(t) ==
  /\ In(t, "finish")
  /\ delivered' = [delivered EXCEPT ![t] = fpm]
  /\ Enter(t, "root")
  /\ UNCHANGED <<tvars, fpm, logs, rootMutex, root, json, erring, collector, ids, msgs, exhausted>>

SendRoot(t) ==
  /\ In(t, "root")
  /\ IF json[t] # NoRoot THEN Send(t, "root", json[t].trace) ELSE UNCHANGED <<tvars, msgs, ids>>
  /\ json' = [json EXCEPT ![t] = NoRoot]
  /\ Enter(t, "children")
  /\ UNCHANGED <<rvars, rootMutex, root, erring, collector, exhausted>>

\* Mutant: a child is made and not sent.
SendChildUnsent(t) ==
  /\ In(t, "children")
  /\ root # NoRoot
  /\ collector # 0
  /\ submitted < MaxMessages
  /\ msgs' = Append(msgs, [kind |-> "child", req |-> request[t], trace |-> root.trace])
  /\ UNCHANGED <<tvars, rvars, ids, phase, rootMutex, root, json, erring, collector, exhausted>>

\* One of the significant calls of the collector; SpanExpansion says which.
SendChild(t) ==
  /\ In(t, "children")
  /\ root # NoRoot
  /\ collector # 0
  /\ submitted < MaxMessages
  /\ Send(t, "child", root.trace)
  /\ UNCHANGED <<rvars, phase, rootMutex, root, json, erring, collector, exhausted>>

\* Mutant: the collector is kept for the next request.
CloseRequestKeeping(t) ==
  /\ In(t, "children")
  /\ rootMutex = Nobody
  /\ root' = NoRoot
  /\ EndRequest(t)
  /\ Enter(t, "idle")
  /\ delivered' = [delivered EXCEPT ![t] = FALSE]
  /\ UNCHANGED <<fpm, logs, rootMutex, json, erring, collector, ids, msgs, exhausted>>

\* The rest of RSHUTDOWN, and the release of the request's memory.
CloseRequest(t) ==
  /\ In(t, "children")
  /\ rootMutex = Nobody
  /\ root' = NoRoot
  /\ collector' = 0
  /\ EndRequest(t)
  /\ Enter(t, "idle")
  /\ delivered' = [delivered EXCEPT ![t] = FALSE]
  /\ UNCHANGED <<fpm, logs, rootMutex, json, erring, ids, msgs, exhausted>>

\* A step inside the functions of Transport.
Transmit(t) == Inside(t) /\ UNCHANGED lvars
Agent       == AgentTurns /\ UNCHANGED lvars
----------------------------------------------------------------------------
Init ==
  /\ TInit
  /\ fpm \in BOOLEAN
  /\ logs \in BOOLEAN
  /\ delivered = [t \in Thread |-> FALSE]
  /\ phase = [t \in Thread |-> "idle"]
  /\ rootMutex = Nobody
  /\ root = NoRoot
  /\ json = [t \in Thread |-> NoRoot]
  /\ erring = [t \in Thread |-> NoRoot]
  /\ collector = 0
  /\ ids = 0
  /\ msgs = <<>>
  /\ exhausted = FALSE

\* What goes on without the program: RINIT, the end of what it called, RSHUTDOWN.
Extension(t) ==
  \/ Transmit(t)
  \/ OpenRequest(t)
  \/ EndError(t) \/ EndDump(t)
  \/ LockRoot(t) \/ LogResponse(t) \/ MakeRoot(t) \/ Finish(t) \/ SendRoot(t) \/ CloseRequest(t)

Next ==
  \/ \E t \in Thread :
       \/ Extension(t)
       \/ StartRequest(t)
       \/ SendError(t) \/ SendLog(t) \/ EndSpan(t)
       \/ Dump(t) \/ DumpTooLarge(t) \/ SetIni(t) \/ EndScript(t)
       \/ RootTooLarge(t)
       \/ SendChild(t)
  \/ Agent

Spec == Init /\ [][Next]_vars /\ \A t \in Thread : WF_vars(Extension(t))
----------------------------------------------------------------------------
Root    == [req : Nat, trace : Nat]
Message == [kind : {"report", "span", "root", "child"}, req : Nat, trace : Nat]

\* The globals have their types, and every message submitted is accounted for.
LifecycleTypeOK ==
  /\ fpm \in BOOLEAN
  /\ logs \in BOOLEAN
  /\ delivered \in [Thread -> BOOLEAN]
  /\ phase \in [Thread -> {"idle", "rinit", "script", "error", "dump", "closing", "making",
                           "made", "finish", "root", "children"}]
  /\ rootMutex \in Thread \cup {Nobody}
  /\ root \in Root
  /\ json \in [Thread -> Root]
  /\ erring \in [Thread -> Root]
  /\ collector \in Nat
  /\ ids \in Nat
  /\ msgs \in Seq(Message) /\ Len(msgs) = submitted
  /\ exhausted \in BOOLEAN

Sent(r, kind) == {i \in DOMAIN msgs : msgs[i].req = r /\ msgs[i].kind = kind}
Over(r)       == r \in 1..requests /\ ~Alive(r)

\* With one thread, the root span, the child spans, the errors and the logs of a
\* request make one trace, shared with no other request and no manual span; each
\* manual span is a trace of its own.  A request that is over has sent its root
\* span once, unless memory ran out under its mutex.
OneTrace ==
  /\ \A i, j \in DOMAIN msgs :
       msgs[i].trace = msgs[j].trace
         <=> \/ i = j
             \/ msgs[i].req = msgs[j].req /\ msgs[i].kind # "span" /\ msgs[j].kind # "span"
  /\ ~exhausted => \A r \in 1..requests : Over(r) => Cardinality(Sent(r, "root")) = 1

\* With one thread, the collector and the root span in use are those of the
\* request that runs.  A bailout leaves those of a dead request behind; no later
\* request meets them, as the mutex left locked stops it in RINIT.
OwnState ==
  \A t \in Thread :
    phase[t] \notin {"idle", "rinit"} => collector = request[t] /\ root.req = request[t]

\* Under PHP-FPM, once a script is over, its client gets the response without
\* waiting for the agent, unless the response is logged; and unless memory ran
\* out in a dump or in RSHUTDOWN or the process broke down.
ResponseNotHeld ==
  \A t \in Thread :
    fpm /\ phase[t] = "closing"
      ~> delivered[t] \/ exhausted \/ fault # "none" \/ (logs /\ ~answering)

\* RINIT, RSHUTDOWN and the functions a program calls come to an end, unless
\* the agent hangs, memory ran out, or the process broke down.
RequestsProceed ==
  \A t \in Thread :
    phase[t] \notin {"idle", "script"}
      ~> phase[t] \in {"idle", "script"} \/ ~answering \/ exhausted \/ fault # "none"
=============================================================================
