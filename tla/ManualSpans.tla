----------------------------- MODULE ManualSpans -----------------------------
(***************************************************************************)
(* Manual spans and dumps: opa_start_span, opa_add_tag, opa_set_parent,    *)
(* opa_end_span and dump, with the hash table active_spans they share, its *)
(* mutex, and the request start and end that create and destroy it.        *)
(*                                                                         *)
(* The table, the flag profiling_active and the root span are globals of   *)
(* the process, so the threads of a threaded server share them.  A step is *)
(* what a thread does between two points where others can come in: a lock, *)
(* an unlock, or the sending of a message.                                 *)
(***************************************************************************)
EXTENDS Naturals, Sequences

CONSTANTS
  Thread,         \* threads that serve requests
  Nobody,         \* the holder of a free mutex
  Key, Value,     \* tags
  NoValue,        \* a key without a tag
  DistinctTicks,  \* no two calls of generate_id fall in one microsecond
  MaxSpans,       \* bound: spans the program starts
  MaxDumps,       \* bound: dumps it makes
  MaxRequests     \* bound: requests served

ASSUME ConstantsAssumption ==
  /\ Nobody \notin Thread
  /\ NoValue \notin Value
  /\ DistinctTicks \in BOOLEAN
  /\ MaxSpans \in Nat /\ MaxDumps \in Nat /\ MaxRequests \in Nat

Tags    == [Key -> Value \cup {NoValue}]
NoId    == 0
NoSpan  == 0
NoRoot  == [req |-> 0, dumps |-> <<>>]
Outside == [pc |-> "out", id |-> NoId, gen |-> 0, span |-> NoSpan]

VARIABLES
  phase,      \* of each thread: "idle", "running", "closing" or "clearing"
  requests,   \* requests started so far; numbers them
  profiling,  \* profiling_active
  clock,      \* microseconds of gettimeofday, the source of the ids
  heap,       \* the span contexts ever allocated, freed ones included
  table,      \* active_spans: whether it exists, which one it is, its spans
  mutex,      \* active_spans_mutex
  call,       \* of each thread: the API function it is in
  root,       \* the root span of the process: its request and its dumps
  dumped,     \* dumps made so far; numbers them
  sent,       \* the messages handed to send_message_direct
  fault       \* the first access to memory that is not what it was taken for

vars == <<phase, requests, profiling, clock, heap, table, mutex, call, root,
          dumped, sent, fault>>
----------------------------------------------------------------------------
\* Mutant: the clock is set back.
BackwardIds == {clock - 1}

\* generate_id: microseconds xor the thread, so equal within a microsecond.
NextIds == IF DistinctTicks THEN {clock + 1} ELSE {clock, clock + 1}

\* create_span_context, and the tags opa_start_span adds.  History: whether the
\* table took the span.
NewSpan(id, tags, listed) ==
  [id |-> id, tags |-> tags, parent |-> NoId, dumps |-> <<>>, listed |-> listed,
   freed |-> FALSE]

\* span_add_tag replaces the tag with the same key.
WithTag(s, k, v) == [s EXCEPT !.tags[k] = v]

\* Mutant: the destructor that does nothing.
NeverFreed(h, S) == h

\* free_span_context on the spans at S.
Freed(h, S) == [i \in DOMAIN h |-> IF i \in S THEN [h[i] EXCEPT !.freed = TRUE] ELSE h[i]]

\* The spans of the table with a given id: at most one, keys being unique.
Found(id) == {i \in table.spans : heap[i].id = id}

\* The message of produce_span_json for a manual span, and of RSHUTDOWN for
\* the root span.
SpanMessage(s) ==
  [kind |-> "span",
   span |-> [id |-> s.id, tags |-> s.tags, parent |-> s.parent, dumps |-> s.dumps]]
RootMessage(r) == [kind |-> "root", dumps |-> r.dumps]

\* get_active_spans, called without the mutex: it takes it to create the table.
Created == [exists |-> TRUE, gen |-> table.gen + 1, spans |-> {}]
CanGet  == table.exists \/ mutex = Nobody
Gotten  == IF table.exists THEN table ELSE Created

In(t, pc)    == fault = "none" /\ call[t].pc = pc
ReturnOf(t)  == call' = [call EXCEPT ![t] = Outside]
Stale(t)     == ~table.exists \/ table.gen # call[t].gen
Fault(what)  ==
  /\ fault' = what
  /\ UNCHANGED <<phase, requests, profiling, clock, heap, table, mutex, call,
                 root, dumped, sent>>

\* The ids the program can name: those opa_start_span returned.
KnownIds == {heap[i].id : i \in DOMAIN heap}

\* The program calls a function that starts with get_active_spans.
Enter(t, op, id) ==
  /\ In(t, "out")
  /\ phase[t] = "running"
  /\ op = "start" => Len(heap) < MaxSpans
  /\ op = "dump" => dumped < MaxDumps
  /\ CanGet
  /\ table' = Gotten
  /\ call' = [call EXCEPT ![t] = [pc |-> op, id |-> id, gen |-> Gotten.gen, span |-> NoSpan]]
  /\ UNCHANGED <<phase, requests, profiling, clock, heap, mutex, root, dumped, sent, fault>>

\* opa_start_span: zend_hash_add_ptr leaves the table alone if the id is there,
\* and the new span is then in no table.
StartSpan(t) ==
  /\ In(t, "start")
  /\ \/ /\ Stale(t)
        /\ Fault("table")
     \/ /\ ~Stale(t)
        /\ \E id \in NextIds, tags \in Tags :
             /\ clock' = id
             /\ heap' = Append(heap, NewSpan(id, tags, Found(id) = {}))
             /\ table' = [table EXCEPT !.spans =
                            IF Found(id) = {} THEN @ \cup {Len(heap) + 1} ELSE @]
        /\ ReturnOf(t)
        /\ UNCHANGED <<phase, requests, profiling, mutex, root, dumped, sent, fault>>

\* opa_end_span up to the sending of the message: the span stays in the table.
EndSpan(t) ==
  /\ In(t, "end")
  /\ \/ /\ Stale(t)
        /\ Fault("table")
     \/ /\ ~Stale(t)
        /\ Found(call[t].id) = {}
        /\ ReturnOf(t)
        /\ UNCHANGED <<phase, requests, profiling, clock, heap, table, mutex,
                       root, dumped, sent, fault>>
     \/ /\ ~Stale(t)
        /\ \E i \in Found(call[t].id) :
             /\ sent' = Append(sent, SpanMessage(heap[i]))
             /\ call' = [call EXCEPT ![t].pc = "sent", ![t].span = i]
        /\ UNCHANGED <<phase, requests, profiling, clock, heap, table, mutex,
                       root, dumped, fault>>

\* Mutant: no zend_hash_del.
FreeListedSpan(t) ==
  /\ In(t, "sent")
  /\ \/ /\ heap[call[t].span].freed
        /\ Fault("span")
     \/ /\ ~heap[call[t].span].freed
        /\ heap' = Freed(heap, {call[t].span})
        /\ ReturnOf(t)
        /\ UNCHANGED <<phase, requests, profiling, clock, table, mutex, root, dumped, sent, fault>>

\* The rest of opa_end_span: zend_hash_del and free_span_context.
FreeSpan(t) ==
  /\ In(t, "sent")
  /\ \/ /\ Stale(t)
        /\ Fault("table")
     \/ /\ ~Stale(t)
        /\ heap[call[t].span].freed
        /\ Fault("span")
     \/ /\ ~Stale(t)
        /\ ~heap[call[t].span].freed
        /\ table' = [table EXCEPT !.spans = @ \ Found(call[t].id)]
        /\ heap' = Freed(heap, {call[t].span})
        /\ ReturnOf(t)
        /\ UNCHANGED <<phase, requests, profiling, clock, mutex, root, dumped, sent, fault>>

\* opa_set_parent: any string will do for a parent; here, the id of a span.
SetParent(t) ==
  /\ In(t, "parent")
  /\ \/ /\ Stale(t)
        /\ Fault("table")
     \/ /\ ~Stale(t)
        /\ \E parent \in KnownIds :
             heap' = [i \in DOMAIN heap |-> IF i \in Found(call[t].id)
                                            THEN [heap[i] EXCEPT !.parent = parent]
                                            ELSE heap[i]]
        /\ ReturnOf(t)
        /\ UNCHANGED <<phase, requests, profiling, clock, table, mutex, root,
                       dumped, sent, fault>>

\* opa_add_tag up to its lock; without profiling it returns false at once.
LockTag(t, id) ==
  /\ In(t, "out")
  /\ phase[t] = "running"
  /\ profiling
  /\ mutex = Nobody
  /\ mutex' = t
  /\ call' = [call EXCEPT ![t].pc = "tag", ![t].id = id]
  /\ UNCHANGED <<phase, requests, profiling, clock, heap, table, root, dumped, sent, fault>>

\* opa_add_tag under its lock, unless profiling was stopped meanwhile.
\* get_active_spans takes the same, non-recursive mutex when there is no table,
\* and the thread waits for itself.
AddTag(t) ==
  /\ In(t, "tag")
  /\ IF profiling /\ ~table.exists
     THEN /\ call' = [call EXCEPT ![t].pc = "stuck"]
          /\ UNCHANGED <<heap, mutex>>
     ELSE /\ \E k \in Key, v \in Value :
               heap' = [i \in DOMAIN heap |-> IF profiling /\ i \in Found(call[t].id)
                                              THEN WithTag(heap[i], k, v)
                                              ELSE heap[i]]
          /\ mutex' = Nobody
          /\ ReturnOf(t)
  /\ UNCHANGED <<phase, requests, profiling, clock, table, root, dumped, sent, fault>>

\* dump and opa_dump.  With an open span, the address of a bucket of the table
\* is taken for the span: its "dumps" lie in the memory of a later bucket, so
\* the dump is lost there or the process crashes.  Without one, the dump goes
\* to the root span, which is created if need be.
Dump(t) ==
  /\ In(t, "dump")
  /\ \/ /\ Stale(t)
        /\ Fault("table")
     \/ /\ ~Stale(t) /\ table.spans # {}
        /\ Fault("dump")
     \/ /\ ~Stale(t)
        /\ dumped' = dumped + 1
        /\ root' = IF table.spans # {} THEN root
                   ELSE [req   |-> IF root = NoRoot THEN requests ELSE root.req,
                         dumps |-> Append(root.dumps, dumped + 1)]
        /\ ReturnOf(t)
        /\ UNCHANGED <<phase, requests, profiling, clock, heap, table, mutex, sent, fault>>

\* opa_enable and opa_disable.
Toggle(t) ==
  /\ In(t, "out")
  /\ phase[t] = "running"
  /\ profiling' \in BOOLEAN
  /\ UNCHANGED <<phase, requests, clock, heap, table, mutex, call, root, dumped, sent, fault>>

\* RINIT: profiling as configured, a new root span.  active_spans is left alone.
BeginRequest(t) ==
  /\ In(t, "out")
  /\ phase[t] = "idle"
  /\ requests < MaxRequests
  /\ requests' = requests + 1
  /\ phase' = [phase EXCEPT ![t] = "running"]
  /\ profiling' \in BOOLEAN
  /\ root' = [req |-> requests + 1, dumps |-> <<>>]
  /\ UNCHANGED <<clock, heap, table, mutex, call, dumped, sent, fault>>

\* RSHUTDOWN up to the sending of the root span, if there still is one.
CloseRequest(t) ==
  /\ In(t, "out")
  /\ phase[t] = "running"
  /\ phase' = [phase EXCEPT ![t] = "closing"]
  /\ profiling' = FALSE
  /\ sent' = IF root = NoRoot THEN sent ELSE Append(sent, RootMessage(root))
  /\ UNCHANGED <<requests, clock, heap, table, mutex, call, root, dumped, fault>>

\* Mutant: the table is destroyed without its mutex.
FreeSpansUnlocked(t) ==
  /\ In(t, "out")
  /\ phase[t] = "closing"
  /\ heap' = Freed(heap, table.spans)
  /\ table' = [table EXCEPT !.exists = FALSE, !.spans = {}]
  /\ phase' = [phase EXCEPT ![t] = "clearing"]
  /\ UNCHANGED <<requests, profiling, clock, mutex, call, root, dumped, sent, fault>>

\* RSHUTDOWN with active_spans_mutex: the spans that were not ended are freed,
\* unsent, then the table.
FreeSpans(t) ==
  /\ In(t, "out")
  /\ phase[t] = "closing"
  /\ table.exists => mutex = Nobody
  /\ heap' = Freed(heap, table.spans)
  /\ table' = [table EXCEPT !.exists = FALSE, !.spans = {}]
  /\ phase' = [phase EXCEPT ![t] = "clearing"]
  /\ UNCHANGED <<requests, profiling, clock, mutex, call, root, dumped, sent, fault>>

\* The end of RSHUTDOWN, with root_span_data_mutex: the root span is cleared.
ClearRoot(t) ==
  /\ In(t, "out")
  /\ phase[t] = "clearing"
  /\ root' = NoRoot
  /\ phase' = [phase EXCEPT ![t] = "idle"]
  /\ UNCHANGED <<requests, profiling, clock, heap, table, mutex, call, dumped, sent, fault>>

Init ==
  /\ phase = [t \in Thread |-> "idle"]
  /\ requests = 0
  /\ profiling = FALSE
  /\ clock = 1
  /\ heap = <<>>
  /\ table = [exists |-> FALSE, gen |-> 0, spans |-> {}]
  /\ mutex = Nobody
  /\ call = [t \in Thread |-> Outside]
  /\ root = NoRoot
  /\ dumped = 0
  /\ sent = <<>>
  /\ fault = "none"

\* What a thread does once it is inside a function of the extension.
Step(t) ==
  \/ StartSpan(t) \/ EndSpan(t) \/ FreeSpan(t) \/ SetParent(t) \/ AddTag(t)
  \/ Dump(t) \/ FreeSpans(t) \/ ClearRoot(t)

Next ==
  \E t \in Thread :
    \/ \E op \in {"start", "dump"} : Enter(t, op, NoId)
    \/ \E op \in {"end", "parent"}, id \in KnownIds : Enter(t, op, id)
    \/ \E id \in KnownIds \cup {NoId} : LockTag(t, id)
    \/ Toggle(t)
    \/ BeginRequest(t)
    \/ CloseRequest(t)
    \/ Step(t)

\* A thread that is inside a function of the extension runs on.
Fairness == \A t \in Thread : WF_vars(Step(t))

Spec == Init /\ [][Next]_vars /\ Fairness
----------------------------------------------------------------------------
Span == [id : Nat \ {NoId}, tags : Tags, parent : Nat, dumps : Seq(Nat),
         listed : BOOLEAN, freed : BOOLEAN]

\* The state has the shape of the C globals; the table holds allocated spans.
TypeOK ==
  /\ phase \in [Thread -> {"idle", "running", "closing", "clearing"}]
  /\ requests \in Nat
  /\ profiling \in BOOLEAN
  /\ clock \in Nat \ {0}
  /\ heap \in Seq(Span)
  /\ table \in [exists : BOOLEAN, gen : Nat, spans : SUBSET DOMAIN heap]
  /\ mutex \in Thread \cup {Nobody}
  /\ call \in [Thread -> [pc : {"out", "start", "end", "sent", "parent", "tag",
                                "stuck", "dump"},
                          id : Nat, gen : Nat, span : {NoSpan} \cup DOMAIN heap]]
  /\ root \in [req : Nat, dumps : Seq(Nat)]
  /\ dumped \in Nat
  /\ fault \in {"none", "table", "span", "dump"}

\* No function of the extension uses a hash table or a span that was freed:
\* neither an ended span nor what another thread's RSHUTDOWN destroyed.
NoFreedAccess == fault \notin {"table", "span"}

\* Between requests the span contexts that are still allocated are those whose
\* id was that of an open span: zend_hash_add_ptr does not take them (opa_api.c
\* 130), and nothing frees them later.  All others are freed once RSHUTDOWN is
\* done, ended or not (opa.c 5519-5538).
OnlyUnlistedLeak ==
  (\A t \in Thread : phase[t] = "idle") =>
    \A i \in DOMAIN heap : heap[i].freed = heap[i].listed

\* opa_add_tag under its lock is safe from RSHUTDOWN: no other thread destroys
\* the table it is about to search.
TagKeepsTable ==
  [][\A t \in Thread : call[t].pc = "tag" /\ table.exists
       => table'.exists /\ table'.gen = table.gen]_vars

\* README on opa_add_tag: it returns true or false.
AddTagReturns == \A t \in Thread : call[t].pc = "tag" ~> call[t].pc = "out"

\* The open spans as the program sees them: not those opa_end_span has sent.
OpenSpans ==
  {i \in table.spans : \A t \in Thread : call[t].pc = "sent" => call[t].span # i}

Api == INSTANCE SpanApi WITH
  live  <- \E t \in Thread : phase[t] = "running",
  open  <- IF \E t \in Thread : phase[t] = "running"
           THEN {[id |-> heap[i].id, tags |-> heap[i].tags, parent |-> heap[i].parent,
                  dumps |-> heap[i].dumps] : i \in OpenSpans}
           ELSE {},
  loose <- IF \E t \in Thread : phase[t] = "running" THEN root.dumps ELSE <<>>,
  sent  <- sent

\* With one thread, the table, the two steps of opa_end_span and the root span
\* implement the promise: a span is sent once, by its end, with the last tags
\* and parent it was given, and each request sends the dumps made outside any
\* span with its own root span (opa_api.c 118-299, opa.c 5290-5567).
ImplementsSpanApi == Api!Spec
=============================================================================
