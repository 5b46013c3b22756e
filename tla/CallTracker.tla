---------------------------- MODULE CallTracker ----------------------------
(***************************************************************************)
(* The call tracker of one PHP thread: the collector (list of call nodes   *)
(* and call stack), the observer callbacks the engine runs around every    *)
(* function call, the recorders of SQL/HTTP/cache/Redis operations, the    *)
(* function hooks, opa_enable/opa_disable and the start and end of a       *)
(* request.                                                                *)
(*                                                                         *)
(* The PHP engine is the environment: it pushes and pops frames, reuses    *)
(* the address of a popped frame, caches per function and request which    *)
(* observers it installed, and may switch between fibers.  A step of the   *)
(* engine runs the extension's callbacks to completion, except that the    *)
(* begin callback of a Redis method calls back into PHP code (getHost).    *)
(***************************************************************************)
EXTENDS Naturals, Sequences

CONSTANTS
  Function,       \* the functions the PHP program calls
  KindOf,         \* what each of them is to the extension
  Fiber, Main,    \* coroutines of the program, the one that runs first
  Address,        \* addresses of VM frames (execute_data pointers)
  Enabled,        \* opa.enabled
  CollectInternal,\* opa.collect_internal_functions
  DistinctTicks,  \* no two calls of generate_id fall in one microsecond
  MaxCalls,       \* bound: calls the program makes
  MaxRequests     \* bound: requests the thread serves

\* What a call is, by what the extension does with it: "redis" is a method of a
\* Redis client in PHP (the methods of phpredis are "internal").  A call whose hook
\* or observer gives up before it records is of the kind that is treated so:
\* mysqli_query with arguments that do not parse and a PDO call without a query
\* text are "internal", curl_exec without a valid handle is "curl_other".
Userland == {"user", "redis"}
Internal == {"internal", "apcu", "curl_exec", "curl_other", "curl_info",
             "pdo", "mysqli", "opa_enable", "opa_disable"}
Curl     == {"curl_exec", "curl_other", "curl_info"}
Hooked   == {"curl_exec", "mysqli"}
Toggle   == {"opa_enable", "opa_disable"}

Stack    == {"sql", "http"}   \* operations that create a node if none is open

ASSUME ConstantsAssumption ==
  /\ KindOf \in [Function -> Userland \cup Internal]
  /\ Main \in Fiber
  /\ Enabled \in BOOLEAN
  /\ CollectInternal \in BOOLEAN
  /\ DistinctTicks \in BOOLEAN
  /\ MaxCalls \in Nat
  /\ MaxRequests \in Nat

NoId    == 0
NoCall  == 0
NoEntry == [id |-> NoId, call |-> NoCall, kind |-> "none"]
Unknown == {"unknown"}

VARIABLES
  phase,      \* "idle" between requests, "running" in one
  requests,   \* requests served so far
  profiling,  \* profiling_active
  guard,      \* in_opa_observer
  clock,      \* microseconds of gettimeofday, the source of the ids
  collector,  \* global_collector
  table,      \* observer_data_table: frame address to per-call data
  handlers,   \* the observers the engine installed for each function
  frames,     \* the VM frames of each fiber, innermost last
  running,    \* the fiber that runs
  made        \* calls made so far; names each call

vars == <<phase, requests, profiling, guard, clock, collector, table, handlers,
          frames, running, made>>
----------------------------------------------------------------------------
(* The collector.  calls holds the nodes oldest first (the code's list is  *)
(* newest first), stack the positions of the open nodes, top last.         *)

NodeAt(c, i) == c.calls[i]
TopOf(c)     == c.stack[Len(c.stack)]

\* opa_collector_start: the calls of an earlier start are dropped.
Started == [active |-> TRUE, calls |-> <<>>, stack |-> <<>>, sql |-> <<>>]
Stopped(c) == [c EXCEPT !.active = FALSE]

\* generate_id: microseconds xor the thread, so equal within a microsecond.
NextIds == IF DistinctTicks THEN {clock + 1} ELSE {clock, clock + 1}

\* Mutant: the node goes on the stack but not into the list.
EnterUnlisted(c, id, k) == [c EXCEPT !.stack = Append(@, Len(c.calls) + 1)]

\* opa_enter_function on an active collector, for call k of the program.
\* The node made for operations outside any call has call NoCall.
EnterFunction(c, id, k) ==
  LET parent == IF c.stack = <<>> THEN NoId ELSE NodeAt(c, TopOf(c)).id
      node   == [id |-> id, parent |-> parent, call |-> k, ended |-> FALSE,
                 ops |-> <<>>]
  IN [c EXCEPT !.calls = Append(@, node), !.stack = Append(@, Len(c.calls) + 1)]

\* The node opa_exit_function finds: the newest one with this id.
IsFound(c, id, i) ==
  /\ i \in DOMAIN c.calls
  /\ NodeAt(c, i).id = id
  /\ \A j \in DOMAIN c.calls : NodeAt(c, j).id = id => j <= i

\* Mutants: the node is not popped; the top ends, whatever the id; only the top
\* can end.
ExitUnpopped(c, id) ==
  [c EXCEPT !.calls = [i \in DOMAIN @ |-> [@[i] EXCEPT !.ended = @ \/ IsFound(c, id, i)]]]
ExitTop(c, id) ==
  IF c.stack = <<>> THEN c
  ELSE [c EXCEPT !.calls[TopOf(c)].ended = TRUE, !.stack = SubSeq(@, 1, Len(@) - 1)]
ExitIfTop(c, id) ==
  IF c.stack # <<>> /\ IsFound(c, id, TopOf(c)) THEN ExitTop(c, id) ELSE c

\* opa_exit_function on an active collector: the node ends wherever it is,
\* but only the top of the stack is popped.
ExitFunction(c, id) ==
  LET pops == c.stack # <<>> /\ NodeAt(c, TopOf(c)).id = id
  IN IF \E i \in DOMAIN c.calls : NodeAt(c, i).id = id
     THEN [c EXCEPT
             !.calls = [i \in DOMAIN @ |-> IF IsFound(c, id, i)
                                           THEN [@[i] EXCEPT !.ended = TRUE]
                                           ELSE @[i]],
             !.stack = IF pops THEN SubSeq(@, 1, Len(@) - 1) ELSE @]
     ELSE c

\* record_sql_query, record_http_request, record_cache_operation and
\* record_redis_operation: the operation goes to the top of the stack; SQL and
\* HTTP open a node for it when the stack is empty, and it stays open.
Recording(c) == Enabled /\ profiling /\ c.active

Record(c, kind, k, id) ==
  LET d  == IF c.stack = <<>> /\ kind \in Stack
            THEN EnterFunction(c, id, NoCall) ELSE c
      op == [kind |-> kind, call |-> k]
  IN IF ~Recording(c) THEN c
     ELSE IF d.stack = <<>> THEN d
     ELSE [d EXCEPT !.calls[TopOf(d)].ops = Append(@, op),
                    !.sql = IF kind = "sql" THEN Append(@, op) ELSE @]
----------------------------------------------------------------------------
(* Frames of the engine.  stage is "probe" while the begin callback runs   *)
(* getHost/getPort, "body" while the function runs, "exit" when an         *)
(* opa_enable or opa_disable has taken effect.  hooked: the function's     *)
(* handler was replaced and saw profiling on.  own (history): the call was *)
(* made by the extension itself.                                           *)

Depth(f)    == Len(frames[f])
Top         == frames[running][Depth(running)]
LiveAt(f)   == {frames[f][k].addr : k \in 1..Depth(f)}
SetTop(fr)  == [frames EXCEPT ![running][Depth(running)] = fr]

\* Mutant: the extension's own calls are observed.
ObservingAll == profiling /\ collector.active

\* What opa_observer_fcall_begin and opa_observer_fcall_end check first.
Observing == ~guard /\ profiling /\ collector.active

\* opa_observer_fcall_init and opa_observer_pdo_init, which the engine asks at
\* the first call of a function in a request and never again.
InstalledFor(fn) ==
  IF handlers[fn] # Unknown THEN handlers[fn]
  ELSE {o \in {"general", "pdo"} :
          /\ profiling
          /\ \/ /\ o = "general"
                /\ collector.active
                /\ KindOf[fn] \in Userland \cup {"apcu"} \/ CollectInternal
             \/ o = "pdo" /\ KindOf[fn] = "pdo"}

\* Mutant: the id is not stored.
EntryWithoutId(id, k, fn) == [id |-> NoId, call |-> k, kind |-> KindOf[fn]]

\* The data opa_observer_fcall_begin keeps for the end of the call.
Entry(id, k, fn) == [id |-> id, call |-> k, kind |-> KindOf[fn]]

\* The engine calls fn: it installs the observers, pushes the frame and runs
\* opa_observer_fcall_begin.  The begin callback of a Redis method stops at its
\* call of getHost with the guard set and nothing stored yet.
Call(fn) ==
  LET installed == InstalledFor(fn)
      observed  == "general" \in installed /\ Observing
      probes    == observed /\ KindOf[fn] = "redis"
      tracked   == observed /\ KindOf[fn] # "curl_info"
      k         == made + 1
  IN
  /\ phase = "running"
  /\ made < MaxCalls
  /\ frames[running] # <<>> => KindOf[Top.fn] \notin Toggle
  /\ \E addr \in Address \ UNION {LiveAt(f) : f \in Fiber}, id \in NextIds :
       LET node == IF tracked THEN id ELSE NoId
       IN
       /\ frames' = [frames EXCEPT ![running] = Append(@,
            [fn |-> fn, addr |-> addr, call |-> k, id |-> node, own |-> guard,
             hooked |-> profiling /\ KindOf[fn] \in Hooked,
             stage |-> IF probes THEN "probe" ELSE "body"])]
       /\ collector' = IF tracked THEN EnterFunction(collector, id, k) ELSE collector
       /\ clock' = IF tracked THEN id ELSE clock
       /\ table' = IF observed /\ ~probes
                   THEN [table EXCEPT ![addr] = Entry(node, k, fn)] ELSE table
  /\ guard' = (guard \/ probes)
  /\ handlers' = [handlers EXCEPT ![fn] = installed]
  /\ made' = k
  /\ UNCHANGED <<phase, requests, profiling, running>>

\* getHost and getPort have returned: the begin callback stores the per-call
\* data and releases the guard.
FinishProbe ==
  /\ phase = "running"
  /\ frames[running] # <<>>
  /\ Top.stage = "probe"
  /\ table' = [table EXCEPT ![Top.addr] = Entry(Top.id, Top.call, Top.fn)]
  /\ guard' = FALSE
  /\ frames' = SetTop([Top EXCEPT !.stage = "body"])
  /\ UNCHANGED <<phase, requests, profiling, clock, collector, handlers, running, made>>

\* The body of opa_enable: profiling on, and the collector starts afresh.
OpaEnable ==
  /\ phase = "running"
  /\ frames[running] # <<>>
  /\ Top.stage = "body" /\ KindOf[Top.fn] = "opa_enable"
  /\ profiling' = TRUE
  /\ collector' = Started
  /\ frames' = SetTop([Top EXCEPT !.stage = "exit"])
  /\ UNCHANGED <<phase, requests, guard, clock, table, handlers, running, made>>

\* The body of opa_disable: profiling off, the collector stops and is kept.
OpaDisable ==
  /\ phase = "running"
  /\ frames[running] # <<>>
  /\ Top.stage = "body" /\ KindOf[Top.fn] = "opa_disable"
  /\ profiling' = FALSE
  /\ collector' = Stopped(collector)
  /\ frames' = SetTop([Top EXCEPT !.stage = "exit"])
  /\ UNCHANGED <<phase, requests, guard, clock, table, handlers, running, made>>

\* The hook opaphp_mysqli_query, after the real handler of a call with valid arguments.
MysqliRecords(c, fr, id) == Record(c, "sql", fr.call, id)

\* It and the hook zif_opa_curl_exec, after the real handler of a call with a handle.
\* The curl hook asks curl_getinfo and curl_error first: internal functions
\* whose own observers take them for requests.
HookRecords(c, fr, id) ==
  LET asked == IF CollectInternal /\ Observing
               THEN Record(Record(c, "http", fr.call, id), "http", fr.call, id) ELSE c
  IN IF KindOf[fr.fn] = "mysqli" THEN MysqliRecords(c, fr, id)
     ELSE Record(asked, "http", fr.call, id)

\* Mutant: every call is also taken for one of APCu.
EndRecordsCache(c, e, fr, id) ==
  Record(IF e.kind = "redis" THEN Record(c, "redis", e.call, id) ELSE c, "cache", e.call, id)

\* The records opa_observer_fcall_end makes from the data e of the frame.
EndRecords(c, e, fr, id) ==
  LET d == IF e.kind \in Curl \/ KindOf[fr.fn] = "curl_exec"
           THEN Record(c, "http", e.call, id) ELSE c
  IN CASE e.kind = "apcu"  -> Record(d, "cache", e.call, id)
       [] e.kind = "redis" -> Record(d, "redis", e.call, id)
       [] OTHER            -> d

\* opa_observer_fcall_end: the node is closed first, so what it records goes
\* to the caller.
FcallEnd(c, e, fr, id) ==
  EndRecords(IF e.id = NoId THEN c ELSE ExitFunction(c, e.id), e, fr, id)

\* opa_observer_pdo_fcall_end for a call with a query text: restarts a stopped
\* collector, then records.
PdoEnd(c, fr, id) ==
  Record(IF c.active THEN c ELSE Started, "sql", fr.call, id)

\* Whether opa_observer_fcall_end gets past its early returns for a frame.
Ends(fr) ==
  "general" \in handlers[fr.fn] /\ Observing /\ table[fr.addr] # NoEntry

\* The collector after the hook of the innermost function's handler and then
\* its end callbacks, last registered first.
AfterReturn(id) ==
  LET hooked == IF Top.hooked THEN HookRecords(collector, Top, id) ELSE collector
      ended  == IF Ends(Top) THEN FcallEnd(hooked, table[Top.addr], Top, id) ELSE hooked
  IN IF "pdo" \in handlers[Top.fn] /\ profiling THEN PdoEnd(ended, Top, id) ELSE ended

\* The innermost function returns, and its frame is popped.
Return ==
  /\ phase = "running"
  /\ frames[running] # <<>>
  /\ Top.stage = IF KindOf[Top.fn] \in Toggle THEN "exit" ELSE "body"
  /\ \E id \in NextIds :
       /\ collector' = AfterReturn(id)
       /\ clock' = IF Len(collector'.calls) > Len(collector.calls) THEN id ELSE clock
  /\ table' = IF Ends(Top) THEN [table EXCEPT ![Top.addr] = NoEntry] ELSE table
  /\ frames' = [frames EXCEPT ![running] = SubSeq(@, 1, Len(@) - 1)]
  /\ UNCHANGED <<phase, requests, profiling, guard, handlers, running, made>>

\* The program suspends or resumes a fiber.  getHost and getPort do not.
Switch(f) ==
  /\ phase = "running"
  /\ f # running
  /\ ~guard
  /\ running' = f
  /\ UNCHANGED <<phase, requests, profiling, guard, clock, collector, table,
                 handlers, frames, made>>

\* RINIT: profiling as OPA_ENABLE or opa.enabled says; the collector starts in
\* any case.  The guard is left as it was.
StartRequest ==
  /\ phase = "idle"
  /\ requests < MaxRequests
  /\ phase' = "running"
  /\ requests' = requests + 1
  /\ profiling' \in BOOLEAN
  /\ collector' = Started
  /\ handlers' = [fn \in Function |-> Unknown]
  /\ running' = Main
  /\ UNCHANGED <<guard, clock, table, frames, made>>

\* RSHUTDOWN, when every frame is gone: profiling off, the table and the
\* collector are freed.
EndRequest ==
  /\ phase = "running"
  /\ \A f \in Fiber : frames[f] = <<>>
  /\ phase' = "idle"
  /\ profiling' = FALSE
  /\ table' = [a \in Address |-> NoEntry]
  /\ collector' = Stopped(Started)
  /\ UNCHANGED <<requests, guard, clock, handlers, frames, running, made>>

Finished == phase = "idle" /\ requests = MaxRequests /\ UNCHANGED vars

Init ==
  /\ phase = "idle"
  /\ requests = 0
  /\ profiling = FALSE
  /\ guard = FALSE
  /\ clock = 1
  /\ collector = Stopped(Started)
  /\ table = [a \in Address |-> NoEntry]
  /\ handlers = [fn \in Function |-> Unknown]
  /\ frames = [f \in Fiber |-> <<>>]
  /\ running = Main
  /\ made = 0

Next ==
  \/ \E fn \in Function : Call(fn)
  \/ FinishProbe
  \/ OpaEnable
  \/ OpaDisable
  \/ Return
  \/ \E f \in Fiber : Switch(f)
  \/ StartRequest
  \/ EndRequest
  \/ Finished

Spec == Init /\ [][Next]_vars
----------------------------------------------------------------------------
Op    == [kind : {"sql", "http", "cache", "redis"}, call : Nat]
Node  == [id : Nat \ {NoId}, parent : Nat, call : Nat, ended : BOOLEAN, ops : Seq(Op)]
Frame == [fn : Function, addr : Address, call : Nat \ {NoCall}, id : Nat,
          own : BOOLEAN, hooked : BOOLEAN, stage : {"probe", "body", "exit"}]

\* The state has the shape of the C structures; a position on the stack is that
\* of a node of the list (no dangling stack_next).
TypeOK ==
  /\ phase \in {"idle", "running"}
  /\ requests \in Nat
  /\ profiling \in BOOLEAN
  /\ guard \in BOOLEAN
  /\ clock \in Nat \ {0}
  /\ collector \in [active : BOOLEAN, calls : Seq(Node), stack : Seq(Nat), sql : Seq(Op)]
  /\ \A p \in DOMAIN collector.stack : collector.stack[p] \in DOMAIN collector.calls
  /\ table \in [Address -> [id : Nat, call : Nat, kind : Userland \cup Internal \cup {"none"}]]
  /\ handlers \in [Function -> SUBSET {"general", "pdo", "unknown"}]
  /\ frames \in [Fiber -> Seq(Frame)]
  /\ running \in Fiber
  /\ made \in Nat

Nodes == {collector.calls[i] : i \in DOMAIN collector.calls}
Live  == UNION {{frames[f][d] : d \in DOMAIN frames[f]} : f \in Fiber}

\* A node of the running profile is ended by the return of the very call it
\* stands for, never by the return of another one: whatever ids and reused
\* frame addresses lead opa_observer_fcall_end to (opa_exit_function).
EndsOwnNode ==
  [][\A i \in DOMAIN collector.calls \cap DOMAIN collector'.calls :
       ~collector.calls[i].ended /\ collector'.calls[i].ended
         => /\ frames[running] # <<>>
            /\ collector.calls[i].call = Top.call]_vars

\* A call with a node in the running profile ends it when it returns while
\* profiling: the per-call data of its frame is there and its id leads to it.
ReturnEndsNode ==
  [][\A i \in DOMAIN collector.calls :
            /\ profiling /\ ~guard
            /\ Depth(running) > 0
            /\ Len(frames'[running]) = Depth(running) - 1
            /\ collector.calls[i].call = Top.call
       => collector'.calls[i].ended]_vars

\* The calls the extension makes itself (getHost and getPort from the begin
\* callback of a Redis method, and all they call) never show up in the profile.
ProbesInvisible ==
  \A fr \in Live : fr.own => \A n \in Nodes : n.call # fr.call

\* The frames of the running fiber that have a node in the running profile.
Tracked == {d \in DOMAIN frames[running] :
              \E n \in Nodes : n.call = frames[running][d].call}

\* 1 if the bottom of the call stack was opened for operations outside any call.
HeldBelow ==
  IF collector.stack # <<>> /\ NodeAt(collector, collector.stack[1]).call = NoCall
  THEN 1 ELSE 0

\* While profiling, the call stack of the collector is the stack of the tracked
\* calls that are still running, in their order, on top of at most one node
\* that was opened for an operation outside any call: at leads from positions
\* on one to positions on the other.
StackMatchesFrames ==
  profiling =>
    LET own == (HeldBelow + 1)..Len(collector.stack)
    IN \E at \in [own -> Tracked] :
         /\ \A d \in Tracked : \E p \in own : at[p] = d
         /\ \A p, q \in own : p < q => at[p] < at[q]
         /\ \A p \in own :
              NodeAt(collector, collector.stack[p]).call = frames[running][at[p]].call

\* An operation is never charged to a call that is not running: it goes to a
\* call of the fiber that performs it, or to the node for operations outside
\* any call (record_* and call_stack_top).
ChargedToRunningCall ==
  [][\A i \in DOMAIN collector.calls \cap DOMAIN collector'.calls :
       Len(collector'.calls[i].ops) > Len(collector.calls[i].ops)
         => collector.calls[i].call \in
              {NoCall} \cup {frames[running][d].call : d \in DOMAIN frames[running]}]_vars

AllOps == UNION {{<<i, p>> : p \in DOMAIN collector.calls[i].ops} : i \in DOMAIN collector.calls}
OpAt(q) == collector.calls[q[1]].ops[q[2]]

\* The hooks, the PDO observer and the general observer overlap, yet no call of
\* the program is charged with two operations.
ChargedOnce == \A p, q \in AllOps : OpAt(p).call = OpAt(q).call => p = q

\* No query or request is lost: when a call that makes one returns in a profile
\* that was on from its start, the profile has an operation of that call, even
\* if no function was open to hold it.
RecordsOwnOperation ==
  [][Recording(collector) /\ Depth(running) > 0 /\ Len(frames'[running]) = Depth(running) - 1
       => (KindOf[Top.fn] \in {"pdo"} \cup Hooked
             => \E n \in Nodes' : \E p \in DOMAIN n.ops : n.ops[p].call = Top.call)]_vars
----------------------------------------------------------------------------
(* Why these hold: the inductive invariants behind them.                   *)

\* Ids and call numbers are never ahead of their source.
Bounded ==
  /\ \A i \in DOMAIN collector.calls : /\ collector.calls[i].id <= clock
                                       /\ collector.calls[i].call <= made
  /\ \A a \in Address : table[a].id <= clock
  /\ \A f \in Fiber : \A d \in DOMAIN frames[f] : /\ frames[f][d].id <= clock
                                                  /\ frames[f][d].call <= made

\* No two live frames share an address.
DistinctAddresses ==
  \A f, g \in Fiber : \A d \in DOMAIN frames[f], e \in DOMAIN frames[g] :
    frames[f][d].addr = frames[g][e].addr => f = g /\ d = e

\* The guard is held exactly from the start to the end of one probe, by the
\* running fiber, and everything above the probe is the extension's own.
GuardHeld ==
  /\ guard => \E d \in DOMAIN frames[running] :
                /\ frames[running][d].stage = "probe"
                /\ \A e \in DOMAIN frames[running] : e > d => frames[running][e].own
  /\ \A f \in Fiber : \A d \in DOMAIN frames[f] : frames[f][d].stage = "probe" => guard
  /\ \A f, g \in Fiber : \A d \in DOMAIN frames[f], e \in DOMAIN frames[g] :
       frames[f][d].stage = "probe" /\ frames[g][e].stage = "probe" => f = g /\ d = e

\* The extension's own calls have no node.
OwnUntracked ==
  \A f \in Fiber : \A d \in DOMAIN frames[f] :
    frames[f][d].own =>
      /\ frames[f][d].id = NoId
      /\ \A i \in DOMAIN collector.calls : collector.calls[i].call # frames[f][d].call

\* A call that got a node has the general observer for its end too.
TrackedObserved ==
  \A f \in Fiber : \A d \in DOMAIN frames[f] :
    frames[f][d].id # NoId => "general" \in handlers[frames[f][d].fn]

\* While profiling, an id that leads to a node leads to the node of the call
\* that holds it; in the table, of a call that still runs at that address.
FrameIdsLeadHome ==
  profiling =>
    \A i \in DOMAIN collector.calls : \A f \in Fiber : \A d \in DOMAIN frames[f] :
      frames[f][d].id = collector.calls[i].id => frames[f][d].call = collector.calls[i].call
TableIdsLeadHome ==
  profiling =>
    \A i \in DOMAIN collector.calls : \A a \in Address :
      table[a].id = collector.calls[i].id
        => \E f \in Fiber : \E d \in DOMAIN frames[f] :
             frames[f][d].addr = a /\ frames[f][d].id = collector.calls[i].id

\* The conjunction is inductive when ids are distinct; EndsOwnNode follows.
IInv ==
  /\ TypeOK
  /\ profiling => collector.active
  /\ phase = "idle" => \A f \in Fiber : frames[f] = <<>>
  /\ Bounded
  /\ DistinctAddresses
  /\ GuardHeld
  /\ OwnUntracked
  /\ TrackedObserved
  /\ FrameIdsLeadHome
  /\ TableIdsLeadHome

\* Ids and calls increase along the list of nodes.
Ordered(c) == \A i, j \in DOMAIN c.calls : i < j => c.calls[i].id < c.calls[j].id
CallsOrdered(c) ==
  \A i, j \in DOMAIN c.calls :
    i < j /\ c.calls[i].call # NoCall /\ c.calls[j].call # NoCall
      => c.calls[i].call < c.calls[j].call

\* The frame of a call with a node has the id of that node.
CallIds ==
  \A i \in DOMAIN collector.calls : \A f \in Fiber : \A d \in DOMAIN frames[f] :
    frames[f][d].call = collector.calls[i].call => frames[f][d].id = collector.calls[i].id

\* While profiling, so has the table at its address, once the begin callback is
\* through.
EntriesKept ==
  profiling =>
    \A i \in DOMAIN collector.calls : \A f \in Fiber : \A d \in DOMAIN frames[f] :
      frames[f][d].call = collector.calls[i].call /\ frames[f][d].stage # "probe"
        => table[frames[f][d].addr].id = collector.calls[i].id

\* Inner frames are those of later calls.
FramesOrdered ==
  \A f \in Fiber : \A d, e \in DOMAIN frames[f] :
    d < e => frames[f][d].call < frames[f][e].call

\* With IInv this is inductive when ids are distinct; ReturnEndsNode follows.
ProfileInv ==
  /\ Ordered(collector)
  /\ CallsOrdered(collector)
  /\ CallIds
  /\ EntriesKept
  /\ FramesOrdered

\* The stack holds the nodes that have not ended, oldest first, each the child
\* of the one below it; a node for no call is at the bottom.
Stacked(c) ==
  /\ \A p, q \in DOMAIN c.stack : p < q => c.stack[p] < c.stack[q]
  /\ \A i \in DOMAIN c.calls : ~c.calls[i].ended <=> \E p \in DOMAIN c.stack : c.stack[p] = i
  /\ \A p \in DOMAIN c.stack :
       /\ c.calls[c.stack[p]].parent = IF p = 1 THEN NoId ELSE c.calls[c.stack[p - 1]].id
       /\ c.calls[c.stack[p]].call = NoCall => p = 1
  /\ \A i \in DOMAIN c.calls :
       c.calls[i].parent # NoId =>
         \E j \in DOMAIN c.calls : j < i /\ c.calls[j].id = c.calls[i].parent

\* While profiling, a call with a node on the stack is still running.
StackLives ==
  profiling =>
    \A p \in DOMAIN collector.stack :
      collector.calls[collector.stack[p]].call # NoCall =>
        \E d \in DOMAIN frames[running] :
          frames[running][d].call = collector.calls[collector.stack[p]].call

\* While profiling, the node of a running call has not ended.
RunningIsOpen ==
  profiling =>
    \A i \in DOMAIN collector.calls : \A d \in DOMAIN frames[running] :
      frames[running][d].call = collector.calls[i].call => ~collector.calls[i].ended

\* With IInv and ProfileInv this is inductive when ids are distinct and there is
\* one fiber; the other properties of the call stack follow.
StackInv ==
  /\ Stacked(collector)
  /\ StackLives
  /\ RunningIsOpen

OneFiber == \A f, g \in Fiber : f = g

\* The program never calls opa_enable or opa_disable.
NoToggle == \A fn \in Function : KindOf[fn] \notin Toggle

\* A call is that of one live frame.
DistinctCalls ==
  \A f, g \in Fiber : \A d \in DOMAIN frames[f], e \in DOMAIN frames[g] :
    frames[f][d].call = frames[g][e].call => f = g /\ d = e

\* With default settings no function has two recorders.
OneRecorder ==
  /\ \A fn \in Function :
       /\ "general" \in handlers[fn] => KindOf[fn] \in Userland \cup {"apcu"}
       /\ "pdo" \in handlers[fn] => KindOf[fn] = "pdo"
  /\ \A f \in Fiber : \A d \in DOMAIN frames[f] :
       frames[f][d].hooked => KindOf[frames[f][d].fn] \in Hooked

\* An operation is of a call that has returned.
OpsReturned ==
  \A q \in AllOps :
    /\ OpAt(q).call <= made
    /\ \A f \in Fiber : \A d \in DOMAIN frames[f] : frames[f][d].call # OpAt(q).call

\* What the table keeps is of a call without operations, each entry of another
\* call.  If that call is still running, then at that address.
EntriesPending ==
  \A a \in Address :
    table[a] # NoEntry =>
      /\ table[a].kind \in Userland \cup {"apcu"}
      /\ table[a].call <= made
      /\ \A q \in AllOps : OpAt(q).call # table[a].call
      /\ \A b \in Address : table[b] # NoEntry /\ table[b].call = table[a].call => a = b
      /\ \A f \in Fiber : \A d \in DOMAIN frames[f] :
           frames[f][d].call = table[a].call =>
             /\ frames[f][d].addr = a /\ frames[f][d].stage # "probe"
             /\ KindOf[frames[f][d].fn] = table[a].kind

\* Inductive with default settings: whatever the ids, for any number of fibers and
\* any use of opa_enable and opa_disable.
ChargeInv ==
  /\ TypeOK
  /\ profiling => collector.active
  /\ \A f \in Fiber : \A d \in DOMAIN frames[f] :
       /\ frames[f][d].call <= made
       /\ frames[f][d].stage = "probe" => KindOf[frames[f][d].fn] = "redis"
  /\ DistinctAddresses
  /\ DistinctCalls
  /\ OneRecorder
  /\ OpsReturned
  /\ EntriesPending
  /\ ChargedOnce

\* Inductive for a program without opa_enable and opa_disable: in a profile, what
\* records a query or a request was there when the call began.
RecordInv ==
  /\ TypeOK
  /\ profiling => collector.active
  /\ phase = "idle" => \A f \in Fiber : frames[f] = <<>>
  /\ profiling =>
       /\ \A fn \in Function :
            handlers[fn] # Unknown /\ KindOf[fn] = "pdo" => "pdo" \in handlers[fn]
       /\ \A f \in Fiber : \A d \in DOMAIN frames[f] :
            /\ handlers[frames[f][d].fn] # Unknown
            /\ KindOf[frames[f][d].fn] \in Hooked => frames[f][d].hooked
----------------------------------------------------------------------------
(* The calls of the collector as a tree: a node is open until it is ended,  *)
(* its parent is the node with the id it names.                             *)

ParentOf(c, n) ==
  IF n.parent = NoId THEN 0
  ELSE CHOOSE j \in DOMAIN c.calls : NodeAt(c, j).id = n.parent

TreeOf(c) == [i \in DOMAIN c.calls |-> [parent |-> ParentOf(c, c.calls[i]),
                                        open   |-> ~c.calls[i].ended]]

Tree == INSTANCE CallTree WITH nodes <- TreeOf(collector), on <- profiling

\* With one fiber, the list, the stack and the ids of the collector implement
\* the tree of nested calls: parents, ends and restarts agree.
ImplementsCallTree == Tree!Spec

\* With one fiber, no call of the profile outlives its parent.
ParentsOutlive == Tree!WellNested
=============================================================================
