# A TLA+ verification of the OpenProfilingAgent PHP extension

The modules in this directory model the parts of the extension whose
correctness depends on the order of events: which call of a PHP program a call
node, an operation, a span or a dump ends up with, whatever the program does
with fibers, with `opa_enable`/`opa_disable` and with the span functions; what
a request sends and leaves behind, whatever fails on the way to the agent; and
how the text of a value is cut off. TLC checks them on small instances. TLAPS proves the
main results for every instance. Source paths below are relative to the
repository (`src/opa.c` and so on), line numbers are those of this commit.

## The system

The extension is C code loaded into the PHP engine. It has no threads and no
event loop of its own: everything it does, it does in a callback of the engine.

| Part | State it keeps | Operations | Talks to |
|---|---|---|---|
| Call collector (`opa.c` 1983-2208, `call_node.c`) | `global_collector`: list of all call nodes, call stack (a second list through the same nodes), active flag, all SQL queries | start, stop, free; `opa_enter_function`, `opa_exit_function`; `record_sql_query`, `record_http_request*`, `record_cache_operation`, `record_redis_operation` | called by the observers and hooks; read at request end by the span serializer |
| Observers and hooks (`opa.c` 2960-3337, 3507-4476) | `observer_data_table` (frame address to per-call data) under a mutex; the thread-local guard `in_opa_observer`; the engine's own cache of installed observers | general begin/end, PDO end, their init functions; replacements of `curl_exec` and `mysqli_query` | the engine calls them around every PHP call; they call the collector, and PHP code (`getHost`, `getPort`, `curl_getinfo`) |
| Runtime control (`opa_api.c` 612-650) | `profiling_active` | `opa_enable`, `opa_disable`, `opa_is_enabled` | starts and stops the collector |
| Manual spans and dumps (`opa_api.c` 1-610, `opa.c` 1593-1608, `span.c` 570-748) | `active_spans` (id to span context) with a mutex; tags, parent and dumps of each span; dumps of the root span | `opa_start_span`, `opa_add_tag`, `opa_set_parent`, `opa_end_span`, `dump`, `opa_dump` | PHP code calls them; they send messages |
| Request lifecycle (`opa.c` 4478-5574) | the root span and all of the above | MINIT, RINIT, RSHUTDOWN, MSHUTDOWN | creates, sends and destroys the others' state |
| Span expansion (`opa.c` 5238-5274, 5449-5506; `span.c` 1018-1303) | none | child spans of significant call nodes, and their parents | reads the collector, sends messages |
| Transport (`transport.c`) | cached agent address, one socket per message | resolve, sample, compress, connect, write, free | called by all that send |
| Error and log tracking (`error_tracking.c`) | saved handlers | fingerprint, stack trace, level filter (switched off), send | `opa_track_error` and `log_*` call it; the installation of its handlers is commented out of RINIT; sends messages with the ids of the root span |
| Serializer (`serialize.c`, parts of `span.c`) | none | JSON and text of PHP values, call trees and spans | called by all that send |

### What is hard about it

* **Callbacks inside callbacks.** The begin callback of a Redis method calls
  `getHost` and `getPort`; the engine runs the same callbacks for those calls.
  Only the guard keeps them out of the profile.
* **Two structures that must agree.** A node is on the list and on the stack;
  the id that finds it again when its call returns waits in a table keyed by a
  frame address that the engine reuses.
* **Switching in mid-flight.** `opa_enable` drops all nodes while their calls
  run. `opa_disable` makes end callbacks return early and leaves table entries
  of dead frames behind.
* **Fibers.** Several call stacks in the engine, one in the collector.
* **Overlapping instruments.** Hooks, PDO observer and general observer may see
  one call each, and an operation is recorded after its own node is closed.
* **Ids from the clock.** Equal within one microsecond.
* **Shared globals.** Spans, root span, collector and `profiling_active` belong
  to the process, so threads of one server share them; only some functions lock.
* **Memory that outlives or underlives its request.** Span contexts are
  allocated by hand and freed by `opa_end_span` or RSHUTDOWN; the host of the
  cached agent address is memory of one request in a static variable.
* **A blocking send.** Errors and logs are sent in the middle of the script,
  spans at its end, through a socket without a timeout.
* **Early returns.** `send_message_direct` has eight ways out, and on each one
  message or its packed copy to free and a socket to close or not.
* **Bailouts.** A fatal error unwinds past the unlock of a mutex.

`PROJECT.json` lists each hazard at its line, with the properties that watch it.

### What makes each part correct

* Collector and observers: a call ends its own node and only that one; the call
  stack is the stack of the profiled calls that run; the nodes form a tree in
  which no call outlives its parent; an operation is recorded once, at a call
  that runs; what the extension calls itself is invisible.
* Manual spans: a span is sent at most once, by its end, with the last tags and
  parent it was given; dumps go with the span or the request they were made in;
  no span is leaked or used after it is freed; every function returns.
* Span expansion: the parent a child span names is the root or a span that is
  sent too; the search for it ends; no operation is lost.
* Transport: each message is freed once on every path, no socket stays open, a
  message arrives whole and at the agent of its own settings, and a send ends.
* Lifecycle: what a request sends, manual spans apart, is one trace, with one root
  span; a request uses nothing of the one before; under PHP-FPM the client does not
  wait for the agent.

Not all of that is so. Where the code falls short, a run shows it (`expect:
violation`), or the property names the exception, as the sections below say.
* Serializer: the text is JSON wherever it is cut off, and complete up to there.

## Modules

| Module | What it is |
|---|---|
| `CallTracker` | collector, observers, hooks, recorders, `opa_enable`/`opa_disable`, start and end of a request, for one thread |
| `CallTree` | what the collector promises: a tree of nested calls |
| `CallTrackerProofs` | type correctness, the inductive invariant and two safety properties of `CallTracker`, proved |
| `CallTreeProofs` | extends it: every return ends its node; for one fiber, the call stack is that of the program and the refinement of `CallTree` |
| `ChargeProofs` | extends that: no query or request is lost, no call charged twice |
| `MCCallTracker` | instances for TLC |
| `ManualSpans` | the span functions, dumps, the table of spans, its mutex, start and end of requests, for any number of threads |
| `SpanApi` | what the span functions promise a program |
| `ManualSpansProofs` | types, which spans are left behind and the table kept while `opa_add_tag` has the mutex, for any number of threads; no use of freed memory and the refinement of `SpanApi`, for one |
| `MCManualSpans` | instances for TLC |
| `SpanExpansion` | what the end of a request makes of the profile: root message, child spans and their parents |
| `SpanExpansionProofs` | its types and inductive invariant; named parents are sent and nearest, no operation is lost |
| `MCSpanExpansion` | instances for TLC |
| `Transport` | one message from `send_message_direct` to the agent: sampling, packing, the address cache, the socket, its release; `pre_resolve_agent_address`; any number of threads |
| `TransportProofs` | its inductive invariant; types, release of messages and sockets for any number of threads; whole messages and where connections go, for one |
| `RequestLifecycle` | extends `Transport`: requests from RINIT to RSHUTDOWN with the messages they send, the root span and its mutex, bailouts |
| `RequestLifecycleProofs` | that it keeps what is proved of the transport; its types; one trace per request and no state of an earlier one, for one thread |
| `MCTransport`, `MCRequestLifecycle` | instances for TLC |
| `Serializer` | `serialize_zval_json` with its limits |
| `SerializerProofs` | bounds of the recursion, that the text is JSON, and that it is the value's |
| `MCSerializer` | an instance for TLC |

`CallTracker` implements `CallTree` (`ImplementsCallTree`), `ManualSpans` with
one thread implements `SpanApi` (`ImplementsSpanApi`); both are checked as
properties through a refinement mapping at the end of the detailed module.
`RequestLifecycle` is composed with `Transport`: a step of a thread is one of
its request or one inside a function of the transport that the request called,
and the properties of both modules are checked on the composition.
Operators introduced by a comment that starts with "Mutant" are seeded faults:
each property is shown to fail when one of them replaces the definition it
stands before. They play no part in the specifications.

### CallTracker and the code

The environment is the PHP engine: it pushes a frame at an address no live frame
has (but a dead one may have had), pops the innermost frame of the running
fiber, switches fibers, and asks for observers once per function and request.

| In the module | In the code |
|---|---|
| `collector.calls`, `.stack`, `.active`, `.sql` | `calls` list (oldest first here), `call_stack_top`/`stack_next`, `active`, `global_sql_queries` |
| `table` | `observer_data_table`; an entry keeps the id, the kind of call and the call it was made for |
| `guard`, `profiling`, `clock` | `in_opa_observer`, `profiling_active`, `gettimeofday` as `generate_id` uses it |
| `handlers` | the observers the engine caches per function |
| `frames`, `running` | the VM stacks and the current fiber |
| `Call` | both init functions, then `opa_observer_fcall_begin`, up to its call of `getHost` for a Redis method |
| `FinishProbe` | the rest of `opa_observer_fcall_begin` |
| `Return` | the hooked handler, `opa_observer_fcall_end` and `opa_observer_pdo_fcall_end` (the engine runs end handlers last registered first) |
| `OpaEnable`, `OpaDisable`, `StartRequest`, `EndRequest` | the functions of those names, RINIT, RSHUTDOWN |

`call` fields, `made`, `frames[..].own` and the `call` of an operation are
history: they name the call of the program so that properties can speak of it.

Abstractions: times, memory and network counters, names and texts are left out;
a call kind stands for all calls the extension treats alike. So `mysqli_query` with
arguments that do not parse (`opa.c` 3248) and a PDO call whose query text is not
found (`opa.c` 4396) are calls of kind `internal`, and `curl_exec` without a valid
handle (`opa.c` 2979) is of kind `curl_other`: the hook or observer gives up before it
records, the general observer does not tell the difference. `redis` is a method of a
Redis client written in PHP; the methods of phpredis are internal functions, which are
not observed by default (`opa.c` 3620, 4297), and of kind `internal` here. The other
`curl_*` calls carry a handle; the observer table has fewer than a million slots
(beyond, `opa.c` 3900 looks nothing up); `curl_getinfo`, which the `curl_exec` hook calls, is taken to
have its observers installed when internal functions are collected; the frame of
the main script is left out; internal functions are observed as in PHP 8.2 and
later; `getHost` and `getPort` do not switch fibers; a switch may go to any
fiber, which is exact for two. A restart of the stopped collector in
`PdoEnd` is in the model as in the code, although `IInv` shows that profiling is
never on without an active collector. Bailouts are left out.

### ManualSpans and the code

A step is what a thread does up to the next point where another one can come in.
`call[t]` says where thread t is: between `get_active_spans` and the use of the
table it got (`start`, `end`, `parent`, `dump`), between the sending of a span and
its removal (`sent`), or inside the lock of `opa_add_tag` (`tag`). `table.gen`
tells one hash table from the next that replaces it, `heap` keeps every span
context ever made with a flag for freed ones. Using a destroyed table or a freed
span is undefined behaviour and stops the model in a state `fault` names.

In `dump` with a span open, the code takes the address of a hash bucket for the
span context. The field `dumps` it then uses lies in a later bucket of the table
(offset 112 of the context, buckets of 32 bytes), so the dump is stored in unused
memory of the table or an arbitrary value is taken for a pointer: the model loses
the dump or stops with `fault = "dump"`. The documentation has dumps attached to the
current span (`README.md` 252-264, 325-327; `opa_api.c` 266). `SpanApi` lets a dump made
while spans are open go to one of them (`DumpInSpan`), and never to another message;
that it gets there is not part of the promise, since the code loses every one. The
code never takes that step, and would still implement `SpanApi` if it did.

`heap[i].listed` is history: whether `zend_hash_add_ptr` took the span. With equal ids
(`DistinctTicks = FALSE`, as in the run) it does not take a span whose id is that of an
open one: that span is in no table, is never sent, and is leaked (`OnlyUnlistedLeak` says
that nothing else is). For `SpanApi` such a start is a stutter: the id the program got
leads to the other span.

Abstractions: names, times and the conversion of tag values are left out; initial
tags are any function from keys to values; `get_active_spans` (check, lock, check,
create, unlock) is one step that waits for the mutex when it must create the
table; the two threads draw different ids; concurrent writes into one hash table
are taken as atomic; `send_message_direct` is where the model ends.

### SpanExpansion and the code

The profile grows by the same operations as in `CallTracker` (`Begin`, `Return`,
`Record`, `Enable`, `Disable`), with what expansion reads of a node: whether it has
ended, how long it took, and its operations. A call may return in any order, or
never, as fibers, `exit`, `opa_disable` and the `__root__` node make it;
`CallTracker` shows that a return ends its own node. Ids are compared within a
profile only, so their counter starts again with each profile.

| In the module | In the code |
|---|---|
| `Shutdown` | RSHUTDOWN up to the root message; `root` counts what `aggregate_*_from_calls` list |
| `Skip`, `Expand`, `Finish`, `pos` | the loop over the nodes, newest first |
| `FindRoot`, `FindSpan`, `FindOn`, `at` | the ways one call of `find_parent_span_id_for_call` ends |
| `SendChild`, `ChildSpan`, `sent` | the message of a child span, handed to `send_message_direct` |
| `Sought`, `Scanned`, `Told` | the tests of significance in the search (`opa.c` 5248), in the loop (`opa.c` 5464) and in the message (`span.c` 1028), one definition each |
| `Duration`, `Limit` | how long a call took, 1 ms if it has not ended; 10 ms |

`Significant` is the reference definition the properties use.

`opa.expand_spans` is on (its default). Times of the messages, texts, tags and the
flat list of calls in the root message are left out. `RootReport` has each query
twice, once from its node and once from `global_sql_queries`, as the code does.

### Transport and the code

`op[t]` is the frame of `send_message_direct` or `pre_resolve_agent_address` in
thread t: the point it is at, the buffers it still has to free (`held`: the message, its
packed copy), the one it writes (`final`), how much of it is left, its descriptor, and
where its address comes from (`via`). Every release in the code is one of a certain
buffer: the early returns free `msg`, the common path frees `final_msg`; a return keeps
what is not freed in `held`, and freeing a buffer that is gone ends in
`fault = "message"`. `fds` is the kernel's table of descriptors: a number is used again,
the lowest free one first, which is what makes a second close matter; it says whose
socket a number stands for. `wire` has the socket each thread opened last, with what it
was opened for (`asked`, `msg`, `size`) and what went through it (`to`, `got`, `cut`: a
write failed); `asked`, `cut` and `via` are history. A message is one unit long,
or two when it is over 1024 bytes; packed it is one again.

| In the module | In the code |
|---|---|
| `cache` | `cached_agent_host`, `cached_agent_port`, `cached_agent_addr`, `agent_addr_cached`; `owner` is the request whose `estrdup` the host is |
| `BeginRequest`, `PreLookup`, `Resolve`, `PreStore` | `pre_resolve_agent_address`, cut at its critical sections and at `getaddrinfo` |
| `Submit` | the early returns, the sample, LZ4 |
| `Socket`, `Lookup`, `Store`, `Fallback`, `Copy`, `NoAddress`, `Connect` | up to `connect`, cut at the critical sections and the system calls |
| `Write`, `CloseFailed`, `Close`, `FreeMessage` | the loop of writes, the close after a failed connect, the common close, the release |
| `answering`, `AgentTurns` | whether the agent accepts and reads; it may stop and go on at any time |
| `fault` | memory was freed wrongly: the process is over |

The host in the cache is memory of the request that stored it. When that request
is over, comparing it is a read of freed memory (`transport.c` 237): `Cached` may then
say anything, as long as the ports are equal. Replacing it frees it a second time
(`transport.c` 280): `PreStore` and `Store` end in `fault = "host"` or go on unnoticed.
With an empty cache and a name that was not resolved, `Fallback` frees `msg`, which is
gone already when the message was packed (`fault = "message"`, `transport.c` 260). Both
happen in the runs. `FreedOnce` says that the second is the only one of its kind.

`OwnAgent` names the two ways to another host: the host in the cache was that of a
finished request (`via = "stale"`), or the settings gave a name that is not in the cache,
for which the code takes whatever address is there (`via = "copy"`, `transport.c` 264,
although the comment there says it "should be for same host/port"). Apart from these a
connection is made to the host asked for, and always to the port. The runs have both ways.

Abstractions: hosts, addresses and ports are values; the address of a name is the
name itself; a refused port is port 0; failed allocations are left out; sampling
is all or nothing in an instance, because a drop has the same effect as a message
that is not sent because `opa.enabled` is off; `path_copy`, which lives within one call,
is left out; a socket is forgotten when its thread opens the next one.

### RequestLifecycle and the code

| In the module | In the code |
|---|---|
| `phase` | where thread t is between the start of RINIT and the end of RSHUTDOWN |
| `fpm`, `logs`, `delivered` | whether the process has a `fastcgi_finish_request`; `opa.track_logs`; whether the client has its response |
| `root`, `rootMutex` | `root_span_trace_id` and the rest of the root span, `root_span_data_mutex` |
| `json` | `json_str` of RSHUTDOWN |
| `erring` | the root span whose ids `send_error_to_agent` has taken and compares again before it frees them |
| `collector` | `global_collector`, which is `ecalloc`ed: memory of the request that made it |
| `StartRequest`, `OpenRequest` | RINIT before and after it waits for the mutex |
| `SendError`, `EndError`, `SendLog` | `opa_track_error` with `send_error_to_agent`, `log_*` with `send_log_to_agent` |
| `EndSpan` | the message of `opa_end_span`, with a trace id of its own (`opa_api.c` 21) |
| `Dump`, `EndDump`, `DumpTooLarge` | `dump` without an open span; a bailout in it |
| `LockRoot`, `LogResponse`, `MakeRoot`, `RootTooLarge`, `Finish`, `SendRoot`, `SendChild`, `CloseRequest` | the parts of RSHUTDOWN in their order: the mutex, the response code and its log, the message of the root span, a bailout in one of these, `opa_finish_request`, the sends, the release |

`msgs` is history: what was submitted, for which request, with which trace id.
Which calls become child spans is left to `SpanExpansion`: here there may be any
number of them, and of manual spans. `exhausted` records that a bailout left the mutex
locked. After it the same request, or the next, waits for ever; the properties say so.
`exit` and fatal errors elsewhere are ends of the script (`EndScript`).

`opa_finish_request` delivers the response only where there is a
`fastcgi_finish_request`, that is under PHP-FPM; under mod_php, which the repository
supports too (`README.md` 40), the client waits for the agent. `ResponseNotHeld` is
therefore about PHP-FPM. There the response code is read while the root message is made
and logged (`opa.c` 5396, 1240), which with `opa.track_logs` is a send before
`opa_finish_request`: the property names that log as its exception.

Abstractions: spans and observers are in the other modules; a dump's content is
left out; the command line is a process without `fpm`. Where a request is profiled, RINIT
takes the memory limit away (`opa.c` 4801-4807): `DumpTooLarge` and `RootTooLarge` may
happen in every request here, which only adds behaviours. In `RootTooLarge`, what the
engine does after the failed RSHUTDOWN is to free the memory of the request.

### Serializer and the code

The recursion of `serialize_zval_json_recursive` is a stack of calls, each with the
array it is in and its `item_count`; a state lies between two calls or returns.
`heap` says what the arrays contain. References are printed as an unsupported
type and not followed, so an array cannot contain itself, and the branch for a
circular one is in the model but never taken. `syntax` reads the text as it grows:
the brackets that are open and what JSON allows next. Tokens stand for whole
pieces of text; those between a value and the item before it are in one definition
(`Before`), which both the text and the reader use. Objects, of which only the class is
printed, are plain values: the test of the depth at `serialize.c` 350 chooses between two
wordings of that text.

The text is not JSON in three cases the model or the reading of the code shows: an
array with string and integer keys (the integer keys are left out: `Mixed` in
`WellFormed`), floats that are infinite or not a number (printed with `%.6f`,
`serialize.c` 211; a plain value here), and the message of
`send_error_to_agent`, which never closes the quote after `service`
(`error_tracking.c` 214-225, not modelled).

## Runs

Deadlock is checked by the runs of `CallTracker` and `SpanExpansion`. In the others
the system may stop for good: a mutex that is never unlocked (`tag_hang`, or memory
that ran out in a dump), a crashed process, all requests served, or a text that is
complete.

| Run | Instance | Shows |
|---|---|---|
| `toggle` | 1 fiber, 5 calls, 3 addresses; a Redis method, `curl_exec`, a PDO method, `opa_enable`, `opa_disable`; internal functions collected | type invariant; `StackMatchesFrames`, `ChargedToRunningCall`, refinement of `CallTree` and its `ParentsOutlive`, with profiling switched between and inside calls; the invariant `StackInv` of the proofs |
| `fibers` | 2 fibers, 4 calls, 2 addresses, 2 requests; user, Redis, PDO, `mysqli_query`, APCu functions, `opa_enable`, `opa_disable`; defaults | `ProbesInvisible`, `EndsOwnNode`, `ReturnEndsNode`, `ChargedOnce`; the invariants `IInv`, `ProfileInv` and `ChargeInv` of the proofs |
| `manual_spans` | 1 thread, 2 spans, 2 dumps, 2 requests, 1 key with 2 values; equal ids too | type invariant, `NoFreedAccess`, `OnlyUnlistedLeak`, refinement of `SpanApi` |
| `tag_threads` | 2 threads, 1 span, 1 dump, 2 requests; symmetric in the threads | `TagKeepsTable` |
| `expansion` | 4 nodes, 1 operation (SQL or Redis), calls of 0 to 2 ms with a limit of 1 ms | type and inductive invariant; `NamedParentIsSent`, `NearestAncestor`, `AllReported` |
| `transport` | 2 threads, 2 descriptors, 2 requests, 2 messages small or large, an agent given by name and an address that cannot be connected to, LZ4 | type invariant, `FreedOnce`, `NoSocketLeak`, `SendReturns`, with every call failing or not and both threads anywhere |
| `requests` | 1 thread, 1 descriptor, 2 requests, 2 messages besides the log of the response code, under PHP-FPM or not, an agent given by address and one by name at the same port, LZ4 | type invariant, `OwnAgent`, `ArrivesWhole`, `OneTrace`, `OwnState`, `ResponseNotHeld`, `RequestsProceed` |
| `serializer` | 3 arrays with up to 2, 4 and 1 items, with and without string keys; depth 1, 2 items shown, arrays over 3 items not printed | `SerializerTypeOK`, `WellFormed`, `PrintsText` |

Five calls are enough for a call that is switched on or off while its caller and
its callee run and for a later call at a reused address; two addresses
force reuse in a program of four calls; two requests show what the first one
leaves behind; two spans can be open at once, or one after the other in one
request or in two. Bounds are guards: `MaxCalls` and `MaxRequests` in
`CallTracker`, `MaxSpans`, `MaxDumps` and `MaxRequests` in `ManualSpans`,
`MaxNodes`, `MaxOps` and `MaxTime` in `SpanExpansion`. Four nodes are a significant
call whose search passes two others before it finds the parent; a limit of one
millisecond separates ended, slow and unended nodes as ten do. Two messages and two
threads are enough for a descriptor or a cache entry to change hands between any
two steps of a send; one of two messages in `requests` can come before the root span
and one be the root span, or the root span of one request follow that of another;
`OwnAgent` needs hosts with the same port and a name, so that a stale host can pass for
another one and a name can take an address that is not its own. `MaxMessages` and `MaxRequests` bound `Transport` and
`RequestLifecycle`. The serializer's limits are 10, 100 and 1000 in the code; the
heaps have arrays just below, at and just above each of the small ones. Unix
sockets skip the steps of the address; no instance has one, the proofs cover them.

Runs that end in a violation show where the code does not do what it or its
documentation says (`findings` in `PROJECT.json` quotes the lines):

| Run | Statement | What happens |
|---|---|---|
| `fiber_charge` | an operation belongs to "the currently executing function call" (`call_node.c` 23) | after a switch it is charged to a call of the other fiber |
| `expansion_hang` | `find_parent_span_id_for_call` "returns root_span_id if no significant parent found, or parent's call_id if parent is significant" (`opa.c` 5237) | with ids drawn in one microsecond an insignificant call has the id of its caller and is, in the flat list, its own parent: the search goes on for ever and RSHUTDOWN never returns |
| `tag_hang` | `opa_add_tag` returns true or false (`README.md` 308) | as the first span function of a request it locks a mutex twice |
| `span_threads` | thread safety, Apache with mod_php (`README.md` 32 and 40, `opa.c` 4845) | the end of one request frees the table another thread uses |

The properties about node ids, and the theorems about them, assume
`DistinctTicks`: no two ids are drawn in the same microsecond. The code does not
ensure that (`generate_id`, `opa.c` 96-118). What equal ids do to span expansion is the
run `expansion_hang`; what they do to manual spans is in `OnlyUnlistedLeak`, which
assumes nothing of ids, like `ImplementsSpanApi`, `ChargedOnce`, `NamedParentIsSent` and
`AllReported`, which are proved without the assumption.

More things go wrong, and the model has them without a run that ends in a violation:

* A function first called while profiling is off is not profiled after `opa_enable`
  (the engine asks for observers once, `opa.c` 4266), although
  `docs/RUNTIME_CONFIGURATION.md` 150 says that all are.
* A dump made while a span is open never reaches it (`opa_api.c` 282).
* With `opa.track_logs` under PHP-FPM, the log of the response code is sent before the
  response (`opa.c` 5396), although the comments at `opa.c` 5426 and 5450 and
  `transport.c` 109 have the client get it before anything is sent.
* The early return for a name in no cache frees a packed message twice
  (`transport.c` 260); a name takes any cached address (`transport.c` 264); the cached
  host is used after its request (`transport.c` 237, 280).
* A manual span is in a trace of its own (`opa_api.c` 21), not in that of its request.

The first two need one test each; the others are exceptions that `ResponseNotHeld`,
`FreedOnce`, `OwnAgent` and `OneTrace` name.

Properties that hold only with one fiber are `StackMatchesFrames`,
`ChargedToRunningCall` and the refinement of `CallTree`: with two the code does
not have them, as `fiber_charge` shows for the second.

Fairness in `ManualSpans`: a thread inside a function of the
extension runs on (`WF_vars(Step(t))`), which any scheduler gives. It is not
fair to the program, which may stop calling the extension. In `SpanExpansion`
RSHUTDOWN runs on (`WF_vars(Expanding)`): it waits for nothing between the root
message and the end of the loop. In `Transport` and `RequestLifecycle` a thread
inside a function of the extension, RINIT or RSHUTDOWN runs on (`WF_tvars(Inside(t))`,
`WF_vars(Extension(t))`); the program and the agent owe nothing. So a send may wait
for ever in `connect` or `write` for an agent that does not answer: the liveness
properties name that (`~answering`), the locked mutex (`exhausted`) and the end of the
process (`fault`) as the exceptions. `ResponseNotHeld` has an exception for the agent
only where the response code is logged. The liveness properties are `SendReturns`,
`ResponseNotHeld` and `RequestsProceed`, and `AddTagReturns` and `ExpansionEnds`, which
are violated.

`OwnAgent`, `ArrivesWhole`, `OneTrace` and `OwnState` hold for one thread. With
two, the second close after a failed connect closes the socket of the other thread's
send, so a message may end up in another's connection; RINIT of one thread replaces
the root span of the other's request; and RSHUTDOWN of one frees the collector of
the other.

## Proofs

`CallTrackerProofs` proves, for any program, any number of fibers, calls and
requests and any reuse of frame addresses:

* `TypeCorrect`: `Spec => []TypeOK`. Besides types, no position on the call stack
  dangles, so `call_stack_top` and `stack_next` always lead to nodes of the list.
* `Invariant`: with `DistinctTicks`, `Spec => []IInv`.
* `EndsOwnNodeHolds`: with `DistinctTicks`, only the return of a call ends its
  node.
* `ProbesStayInvisible`: with `DistinctTicks`, the extension's own calls have no
  node.

`EndsOwnNode` is not inductive: `opa_exit_function` gets an id out of the table at
the address of the returning frame, and nothing in the property says whose id
that is. `IInv` says it. Ids never run ahead of the clock (`Bounded`), so a new
one is nowhere yet; no two live frames share an address (`DistinctAddresses`);
an id of a frame leads to the node of its own call (`FrameIdsLeadHome`), and an
id in the table that leads to a node at all is that of the live frame at that
address (`TableIdsLeadHome`). The last one is what survives `opa_disable`: entries
it leaves behind carry ids of a profile that `opa_enable` has dropped, or of one
that is not running. It is preserved when a tracked frame is popped because its
end callback removes the entry, which needs that the callback is installed
(`TrackedObserved`) and not blocked by the guard; `GuardHeld` and `OwnUntracked`
say that whatever returns while the guard is held has no node. There is one lemma
per action, and below it one step per conjunct the action can disturb; lemmas
about `EnterFunction`, `ExitFunction` and `Record` say what those operators keep.

The assumptions are `ConstantsAssumption` of `CallTracker` and, where stated,
`DistinctTicks`. TLC checked `IInv` first (run `fibers`).

`CallTreeProofs` goes on from there. With `DistinctTicks`, for any number of fibers:

* `ProfileInvariant`: `Spec => []ProfileInv`, and from it `ReturnEndsNodeHolds`. `IInv` says
  where an id leads if it leads to a node; that a return finds an id at all, and the
  right node for it, is new: frame and node of a call have the same id (`CallIds`), and
  the table keeps it at the frame's address from the end of the begin callback on
  (`EntriesKept`). `opa_exit_function` looks for the newest node with the id; that
  ids increase along the list (`Ordered`) makes it the only one.

and for one fiber (`OneFiber`):

* `StackInvariant`: `Spec => []StackInv`. The stack holds exactly the nodes that have not
  ended, oldest first, each the child of the one below it (`Stacked`); while profiling its
  calls are running (`StackLives`) and running calls have open nodes (`RunningIsOpen`).
  The crux is a return: `opa_exit_function` ends a node wherever it is but pops only the
  top of the stack. They agree because the frame that returns is that of the last call
  (`FramesOrdered`) and nodes on the stack are in the order of their calls
  (`CallsOrdered`). With two fibers they do not agree (run `fiber_charge`).
* `StackMatchesFramesHolds`, `ChargedToRunningCallHolds`: from `StackInv`. The map from the
  stack to the frames is the one from a node to the frame of its call.
* `ImplementsCallTreeHolds`: `Spec => ImplementsCallTree`. `Simulation` has one case for each
  action: a call that gets a node is an `Enter`; a return is a `Leave`, an `Enter` for a
  record that opens a node, both at once (`LeaveAndHold`) or nothing; `opa_enable`, RINIT and RSHUTDOWN
  are a `Restart`, `opa_disable` a `Stop`; all others leave the tree alone. `Shapes` says
  that the mapped tree depends on ids, parents and ends only, so that operations do not
  change it.
* `ParentsOutliveHolds`: `Spec => []ParentsOutlive`, from `Stacked`: what is open is on the
  stack, and the parent of what is on the stack is right below it.

`ChargeProofs` is about the operations of a profile, for any number of fibers. Nothing here
needs distinct ids.

* `RecordsOwnOperationHolds`: `NoToggle /\ Spec => RecordsOwnOperation`, for programs that
  never call `opa_enable` or `opa_disable` (`NoToggle`), whatever the settings.
  `RecordInv` says why the recorder is there: a profile begins and ends with its request,
  so a function called for the first time gets its observers while profiling, and a
  hooked call saw it on. Nothing the stages of a return do takes an operation away
  (`Keeps`), so it does not matter which of them records it.
* `ChargedOnceHolds`: `~CollectInternal /\ Spec => []ChargedOnce`, that is with the default
  `opa.collect_internal_functions = 0`, for any use of `opa_enable` and `opa_disable`.
  `ChargeInv` says that hook, PDO observer and general observer never record the same
  function (`OneRecorder`), so that a return adds one operation at most
  (`ReturnOneMore`). The hook and the PDO observer record for the call that returns, and
  operations are of calls that have returned (`OpsReturned`). The general observer records
  for the call of the table entry it finds, which need not be its own: `opa_disable` inside
  a Redis method leaves its entry behind, and a later call at that address may consume it.
  `EntriesPending` says why that is still the first operation of the call: an entry is of
  a call without operations, no two entries are of one call, and a return that uses one
  removes it. A call that is running can have an entry at its own address only, so no
  other return can take it.

The restrictions are the code's. With internal functions collected, `curl_exec` is
recorded by its hook and again by the general observer. After `opa_enable` a function that
was first called without profiling has no observer and loses its operations. `NoToggle` and
`OneFiber` are statements about the constants (`KindOf`, `Fiber`), not about states. TLC
checked each invariant before it was proved (runs `fibers` and `toggle`; `RecordInv` and
`RecordsOwnOperation`, which are in no run, on an instance without `opa_enable` and
`opa_disable`).

`SpanExpansionProofs` proves, for profiles of any size and shape:

* `TypeCorrect` and `Invariant`: `Spec => []TypeOK` and `Spec => []IInv`, with or
  without distinct ids.
* `ParentsAreSent`: `Spec => []NamedParentIsSent`, also with equal ids.
* `NothingIsLost`: `Spec => []AllReported`, also with equal ids.
* `NearestIsNamed`: with `DistinctTicks`, `Spec => []NearestAncestor`.

`NamedParentIsSent` speaks of the end only. `IInv` follows the loop: a parent named
so far is the id of a significant node (`ParentsSignificant`), wherever in the
list, and significant nodes the loop has passed are sent (`PassedAreSent`); at the
end it has passed all. That the search names significant nodes, that the loop stops at
them and that the message is made for them are three tests of the code; `TestsAgree`
shows that each is `Significant`. `ParentsOlder` and `IdsDistinct` serve
`NearestAncestor`: some older node has the id a node names, and only one node has it.

`AllReported` counts spans at the end. `OpsInv` says that an operation is in exactly
one node, which holds because a node that is gone from the stack no longer records;
`SentInv` that a span carries what its node has, that no node is sent twice, and that
the significant nodes the loop has passed are sent. A node with an operation is
significant, so it is among them. For `NearestAncestor`, `SearchInv` follows the
search: the node it has reached has the same significant ancestors as the node it
started from, so what it has passed is not significant. `ParentAndAncestors` takes the
ancestors of a node apart into its parent and the parent's ancestors, for trees of any
depth, without induction: the set is the least one closed under parents.

`ManualSpansProofs` proves, for any number of threads, spans and requests:

* `TypeCorrect`: `Spec => []TypeOK`.
* `SpansAreFreed`: `Spec => []OnlyUnlistedLeak`, also with equal ids.
* `TagSafe`: `Spec => TagKeepsTable`.

and for one thread (`OneThread`):

* `NothingFreedIsUsed`: `Spec => []NoFreedAccess`. With two threads it fails (run
  `span_threads`).
* `SpansAsPromised`: `Spec => ImplementsSpanApi`, also with equal ids.

`OnlyUnlistedLeak` speaks of the time between requests. What leads there is that a span
the table took is in the table until it is freed, that one it did not take is in no
table and never freed, and that a table exists only while a request runs or ends
(`TableInv`). `TagLocks` gives `TagSafe`: whoever would destroy the table
waits for the mutex. With one thread, `Alone` says that the table a function has got
is the one there is, and that the span it is sending is still in the table. For the
refinement, `Simulation` shows that a step of the detailed module is one of `SpanApi`
or leaves the mapped variables alone, with one lemma per action (`StartSpanSeen`,
`EndSpanSeen`, ...) that says what it does to the open spans: a start adds one, a
sending removes one, a tag or a parent replaces one.

`SerializerProofs` proves, for heaps of any shape and any limits:

* `TypeCorrect`: `Spec => []SerializerTypeOK`.
* `TextIsWellFormed`: `Spec => []WellFormed`. Its invariant says what the state of
  the reader must be at each point of the recursion: the open brackets are those of
  the arrays on the stack, and a value, an item or the end may come next according
  to `item_count` and `todo`.
* `TextIsComplete`: `Spec => []PrintsText`. The loop over the calls prints what the
  recursive definition `Rendered` says of the value. Its invariant has two parts.
  `Way`: the stack leads from each array to the item it has counted last, each array
  lies after the one before, and none is too large. An array is made of later ones, so
  the one that is entered is never in the visited set (`NeverCircular`), although it may
  have been printed before; if it stayed in the set, a second occurrence would print as
  a circular reference. `Assembled`: there are texts `pre[i]`, what had been printed
  when the i-th call was made, each of which is the one before, the array of that call
  up to its item (`Reached`) and the comma and key of that item (`Ahead`); `out` is the
  last of them, with what the innermost array has so far. `Delivered` is the step that
  matters: when a value is printed, on whatever way, the array it is in has one item
  more. `ReachedEnd` adds the note and the bracket when the array returns. TLC checked
  both parts on the instance of `serializer`, with `pre` computed from the stack.

`Rendered` and `Items` are recursive functions, so the proof needs their equations
(`ItemsUnfold`, `RenderedUnfold`) and their types by induction. The induction theorems
of the library take an operator and cannot be used here. `Least` gets the least element
of a set of numbers from `WFMin` and `NatLessThanWellFounded`, which take none, and
`Upwards` is induction with a set for the predicate.

`TransportProofs` proves, for any number of threads, descriptors and messages:

* `TransportTyped`, `MessagesFreedOnce`, `SocketsClosed`: the invariants of the run.
  The inductive invariant `Inv` says for each point of the function what is still
  held there (`Holds`) and which descriptor is whose (`Owned`): an open descriptor is
  that of a send that has not passed its last close and still has its socket, which
  is what survives a close of another thread's socket.
* `MessagesArriveWhole` and `ConnectsToOwnAgent`, for one thread: `Alone(x)` says that
  the thread's descriptor, while it has one, stands for the socket it opened, and
  how much of the message that socket has; `Routed(x)` that an address on its way
  to `connect` is that of the path, or that `via` says where else it is from. Nothing is
  assumed of the agents: they may share ports, and any of them may be a name.

`RequestLifecycleProofs` first shows that a step of a request is a step of the
transport or none (`NextIsStep`), so that all of the above holds of requests
(`RequestsReleaseAll`, `RequestsArriveWhole`, `RequestsReachOwnAgent`). Then:

* `LifecycleTyped`, for any number of threads and requests.
* `RequestsMakeOneTrace`, `RequestsLeaveNothing`, for one thread: `OneTrace` and
  `OwnState`. Neither is inductive. `Life(x)` adds that the request's number is
  the newest (`Phased`), that root span and collector are its own while it runs and
  gone when it does not (`Kept`), that no trace id is ahead of the counter and those
  of the running request are the root's (`Traced`), and how often a root span was
  sent up to here (`Rooted`); a manual span takes the next trace id, which is no
  request's. Memory that ran out is covered too: it leaves the mutex
  locked, so no further request opens, and `Life` says so.

Model-checked only: the liveness properties `SendReturns`, `ResponseNotHeld`
and `RequestsProceed`, since the prover does not treat fairness and `ENABLED`. Every
invariant and every action property of a passing run is a theorem.

## Plan

Done, in this order: `CallTracker` with `CallTree`; `ManualSpans` with `SpanApi`;
`SpanExpansion`; `Transport`; `RequestLifecycle`; `Serializer`; and their proofs, as far
as listed above. Left:

1. The observer table with its mutex and RSHUTDOWN of another thread, with per-call
   data used after the unlock.
2. Bailouts inside the probes of `CallTracker`, which leave the guard set.
3. `serialize_zval_text`, the same recursion with other limits.

Theorems to come: those of the observer table for several threads, once it is
modelled.

## Not modelled

* Settings, module start and end (`REGISTER_INI_ENTRIES`, function tables, saving and
  restoring of handlers), and the collection of HTTP and command line data for the root
  span: declarations, input and output without ordering.
* Formatting of messages, fingerprints and stack traces. The handlers for errors,
  exceptions and shutdown in `error_tracking.c`, `serialize_call_stack_from_root` and what
  it calls: nothing installs or calls them. The filter for log levels, which is
  switched off.
* Failed allocations. Bailouts other than those of `RequestLifecycle`: in `getHost`, where
  one leaves the guard set, and in RSHUTDOWN outside the mutex, where one would leave the
  collector, the spans and the root span to the next request.
* Threads in the observers: `CallTracker` is one thread.
* Build files, containers and test scripts.
