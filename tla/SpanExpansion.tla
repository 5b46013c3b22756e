--------------------------- MODULE SpanExpansion ---------------------------
(***************************************************************************)
(* What the end of a request makes of its profile with opa.expand_spans    *)
(* on: the root span's message, then one message (a child span) for each   *)
(* significant call node.  A child span names as its parent the span of    *)
(* the nearest significant ancestor, or the root span, which               *)
(* find_parent_span_id_for_call looks for one node at a time.              *)
(*                                                                         *)
(* The profile is grown by the collector's operations, as in CallTracker,  *)
(* with what expansion reads of a node: its duration and its operations.   *)
(* Calls may return in any order (fibers) or not at all (exit, a node for  *)
(* operations outside any call), and a call takes any time.  Whether a     *)
(* message survives sampling and the socket is the transport's business.   *)
(***************************************************************************)
EXTENDS Naturals, Sequences, FiniteSets

CONSTANTS
  Kind,          \* the kinds of operation the program performs
  Limit,         \* a call is slow if it takes longer than this (10 ms)
  DistinctTicks, \* no two calls of generate_id fall in one microsecond
  MaxNodes,      \* bound: call nodes of a profile
  MaxOps,        \* bound: operations of a request
  MaxTime        \* bound: a call takes 0..MaxTime milliseconds

Holding == {"sql", "http"}   \* operations that open a node if none is open
Kinds   == Holding \cup {"cache", "redis"}

ASSUME ConstantsAssumption ==
  /\ Kind \subseteq Kinds
  /\ Limit \in Nat \ {0}
  /\ DistinctTicks \in BOOLEAN
  /\ MaxNodes \in Nat
  /\ MaxOps \in Nat
  /\ MaxTime \in Nat

NoId  == 0
Root  == 0   \* names the root span in the messages

VARIABLES
  phase,  \* "request", then "scan" and "find" while expanding, then "done"
  on,     \* profiling_active
  tick,   \* the id drawn last
  calls,  \* the nodes, oldest first (the code's list is newest first)
  stack,  \* positions of the nodes on the call stack, top last
  open,   \* positions of the nodes whose calls have not returned
  sql,    \* global_sql_queries
  ops,    \* history: the operations recorded in this profile
  made,   \* operations performed so far
  pos,    \* expansion: the node the loop is at
  at,     \* expansion: the node whose parent_id is looked up for pos
  root,   \* how often the root message reports each operation
  sent    \* the child spans sent, in order

vars == <<phase, on, tick, calls, stack, open, sql, ops, made, pos, at, root, sent>>
request == <<on, tick, calls, stack, open, sql, ops, made>>
expansion == <<pos, at, root, sent>>
----------------------------------------------------------------------------
(* The request: the collector's operations.                                *)

TopId   == IF stack = <<>> THEN NoId ELSE calls[stack[Len(stack)]].id

\* generate_id, counted: equal within a microsecond.
NextIds == IF DistinctTicks THEN {tick + 1} ELSE {tick, tick + 1} \ {NoId}

\* Mutant: the node goes on the stack but not into the list.
EnterUnlisted(o) == stack' = Append(stack, Len(calls) + 1) /\ UNCHANGED <<tick, calls>>

\* opa_enter_function, for a node that starts with operations o.
EnterFunction(o) ==
  /\ Len(calls) < MaxNodes
  /\ \E id \in NextIds :
       /\ tick' = id
       /\ calls' = Append(calls, [id |-> id, parent |-> TopId, ended |-> FALSE,
                                  took |-> 0, ops |-> o])
  /\ stack' = Append(stack, Len(calls) + 1)

\* opa_exit_function: the newest node with this id ends, and the top of the
\* stack is popped if it has this id.
IsNewest(id, i) ==
  /\ calls[i].id = id
  /\ \A j \in DOMAIN calls : calls[j].id = id => j <= i

ExitFunction(id) ==
  /\ \E t \in 0..MaxTime :
       calls' = [i \in DOMAIN calls |->
                   IF IsNewest(id, i) THEN [calls[i] EXCEPT !.ended = TRUE, !.took = t]
                   ELSE calls[i]]
  /\ stack' = IF stack # <<>> /\ TopId = id THEN SubSeq(stack, 1, Len(stack) - 1) ELSE stack

Running == phase = "request" /\ on

Begin ==
  /\ Running
  /\ EnterFunction({})
  /\ open' = open \cup {Len(calls) + 1}
  /\ UNCHANGED <<phase, on, sql, ops, made, expansion>>

Return ==
  /\ Running
  /\ \E i \in open : ExitFunction(calls[i].id) /\ open' = open \ {i}
  /\ UNCHANGED <<phase, on, tick, sql, ops, made, expansion>>

\* The recorders: an operation goes to the top of the stack; SQL and HTTP open
\* a node if there is none, others are dropped then.
Record ==
  /\ Running
  /\ made < MaxOps
  /\ made' = made + 1
  /\ \E k \in Kind :
       LET op == [kind |-> k, n |-> made + 1] IN
         /\ \/ /\ stack # <<>>
               /\ calls' = [calls EXCEPT ![stack[Len(stack)]].ops = @ \cup {op}]
               /\ UNCHANGED <<tick, stack>>
            \/ /\ stack = <<>>
               /\ k \in Holding
               /\ EnterFunction({op})
         /\ ops' = ops \cup {op}
         /\ sql' = IF k = "sql" THEN sql \cup {op} ELSE sql
  /\ UNCHANGED <<phase, on, open, expansion>>

\* opa_enable starts the collector again, which drops its calls (ids are only
\* compared within a profile, so they are counted afresh); opa_disable leaves
\* the nodes of the running calls without an end.
Enable ==
  /\ phase = "request"
  /\ on' = TRUE
  /\ tick' = 0 /\ calls' = <<>> /\ stack' = <<>> /\ open' = {} /\ sql' = {} /\ ops' = {}
  /\ UNCHANGED <<phase, made, expansion>>

Disable ==
  /\ Running
  /\ on' = FALSE
  /\ open' = {}
  /\ UNCHANGED <<phase, tick, calls, stack, sql, ops, made, expansion>>
----------------------------------------------------------------------------
(* The end of the request.                                                 *)

\* A node that has not ended counts as one millisecond, one whose end is
\* before its start (the clock was set back) as none.
Duration(n) == IF n.ended THEN n.took ELSE 1

OpsOf(n, k) == {op \in n.ops : op.kind = k}

\* What the comment of the message's producer calls significant: a node with an
\* operation of any kind, or a slow one.  The code tests this in three places.
Significant(n) == n.ops # {} \/ Duration(n) > Limit

\* Mutant of each: Redis operations do not count.
ButRedis(n) == (\E k \in Kinds \ {"redis"} : OpsOf(n, k) # {}) \/ Duration(n) > Limit

\* The test of the search, on a node's parent.
Sought(n) ==
  \/ OpsOf(n, "sql") # {} \/ OpsOf(n, "http") # {}
  \/ OpsOf(n, "cache") # {} \/ OpsOf(n, "redis") # {}
  \/ Duration(n) > Limit

\* The test of the loop of RSHUTDOWN, on each node.
Scanned(n) ==
  \/ OpsOf(n, "sql") # {} \/ OpsOf(n, "http") # {}
  \/ OpsOf(n, "cache") # {} \/ OpsOf(n, "redis") # {}
  \/ Duration(n) > Limit

\* The test of the message, which is not made for other nodes.
Told(n) ==
  ~ /\ OpsOf(n, "sql") = {} /\ OpsOf(n, "http") = {}
    /\ OpsOf(n, "cache") = {} /\ OpsOf(n, "redis") = {}
    /\ Duration(n) <= Limit

\* The root message lists the operations of all nodes, and the queries of
\* global_sql_queries as well.
RootReport ==
  [op \in ops |-> Cardinality({i \in DOMAIN calls : op \in calls[i].ops})
                  + (IF op \in sql THEN 1 ELSE 0)]

\* RSHUTDOWN: profiling stops, the root message is sent, the loop begins at
\* the newest node.
Shutdown ==
  /\ phase = "request"
  /\ phase' = "scan"
  /\ on' = FALSE
  /\ root' = RootReport
  /\ pos' = Len(calls)
  /\ UNCHANGED <<tick, calls, stack, open, sql, ops, made, at, sent>>

Skip ==
  /\ phase = "scan" /\ pos > 0
  /\ ~Scanned(calls[pos])
  /\ pos' = pos - 1
  /\ UNCHANGED <<phase, request, at, root, sent>>

Expand ==
  /\ phase = "scan" /\ pos > 0
  /\ Scanned(calls[pos])
  /\ phase' = "find"
  /\ at' = pos
  /\ UNCHANGED <<request, pos, root, sent>>

\* The message of the child span, made by produce_child_span_json_from_call_node.
ChildSpan(p) == [node |-> pos, id |-> calls[pos].id, parent |-> p, ops |-> calls[pos].ops]

SendChild(p) ==
  /\ sent' = IF Told(calls[pos]) THEN Append(sent, ChildSpan(p)) ELSE sent
  /\ pos' = pos - 1
  /\ phase' = "scan"
  /\ UNCHANGED <<request, at, root>>

\* One call of find_parent_span_id_for_call.
HasParent == calls[at].parent # NoId /\ \E j \in DOMAIN calls : calls[j].id = calls[at].parent
ParentIs(j) == j \in DOMAIN calls /\ IsNewest(calls[at].parent, j)

FindRoot ==
  /\ phase = "find"
  /\ ~HasParent
  /\ SendChild(Root)

\* Mutants: any parent is named; the search stops at the first parent.
FindAnySpan ==
  /\ phase = "find"
  /\ HasParent
  /\ \E j \in DOMAIN calls : ParentIs(j) /\ SendChild(calls[j].id)

FindOnce ==
  /\ phase = "find"
  /\ HasParent
  /\ \E j \in DOMAIN calls : ParentIs(j) /\ ~Sought(calls[j])
  /\ SendChild(Root)

FindSpan ==
  /\ phase = "find"
  /\ HasParent
  /\ \E j \in DOMAIN calls :
       /\ ParentIs(j)
       /\ Sought(calls[j])
       /\ SendChild(calls[j].id)

FindOn ==
  /\ phase = "find"
  /\ HasParent
  /\ \E j \in DOMAIN calls :
       /\ ParentIs(j)
       /\ ~Sought(calls[j])
       /\ at' = j
  /\ UNCHANGED <<phase, request, pos, root, sent>>

Finish ==
  /\ phase = "scan" /\ pos = 0
  /\ phase' = "done"
  /\ UNCHANGED <<request, expansion>>

Expanding == Skip \/ Expand \/ FindRoot \/ FindSpan \/ FindOn \/ Finish
----------------------------------------------------------------------------
Init ==
  /\ phase = "request" /\ on = TRUE /\ tick = 0
  /\ calls = <<>> /\ stack = <<>> /\ open = {} /\ sql = {} /\ ops = {} /\ made = 0
  /\ pos = 0 /\ at = 0 /\ root = [op \in {} |-> 0] /\ sent = <<>>

\* The next request of the process starts with a new collector.
NextRequest ==
  /\ phase = "done"
  /\ phase' = "request" /\ on' = TRUE /\ tick' = 0
  /\ calls' = <<>> /\ stack' = <<>> /\ open' = {} /\ sql' = {} /\ ops' = {} /\ made' = 0
  /\ pos' = 0 /\ at' = 0 /\ root' = [op \in {} |-> 0] /\ sent' = <<>>

Next ==
  \/ Begin \/ Return \/ Record \/ Enable \/ Disable
  \/ Shutdown \/ Skip \/ Expand \/ FindRoot \/ FindSpan \/ FindOn \/ Finish
  \/ NextRequest

\* RSHUTDOWN runs to its end: it waits for nothing.
Spec == Init /\ [][Next]_vars /\ WF_vars(Expanding)
----------------------------------------------------------------------------
Node == [id : Nat \ {NoId}, parent : Nat, ended : BOOLEAN, took : 0..MaxTime,
         ops : SUBSET [kind : Kind, n : 1..MaxOps]]

\* The profile keeps its shape, and the call stack holds nodes of the list
\* only (opa.c 2104-2208).
TypeOK ==
  /\ phase \in {"request", "scan", "find", "done"}
  /\ on \in BOOLEAN
  /\ tick \in Nat
  /\ calls \in Seq(Node)
  /\ stack \in Seq(DOMAIN calls)
  /\ open \subseteq DOMAIN calls
  /\ sql \subseteq ops
  /\ ops \subseteq [kind : Kind, n : 1..MaxOps]
  /\ made \in 0..MaxOps
  /\ pos \in Nat
  /\ at \in Nat
  /\ sent \in Seq([node : Nat, id : Nat \ {NoId}, parent : Nat,
                   ops : SUBSET [kind : Kind, n : 1..MaxOps]])

Spans == {sent[k] : k \in DOMAIN sent}

\* When RSHUTDOWN is done, the parent every child span names is the root span
\* or a span that was sent: the three tests of significance (in the search, in
\* the loop and in the message) agree on every node, ended or not, so the
\* agent never gets a span whose parent is missing (opa.c 5258, 5473 and
\* span.c 1040 decide it apart).
NamedParentIsSent ==
  phase = "done" =>
    \A s \in Spans : s.parent = Root \/ \E t \in Spans : t.id = s.parent

\* The inductive invariant of the proofs.  A node's parent is an older node
\* with the id it names; ids are distinct if ticks are; the loop is at a node;
\* a span already sent names the root or a significant node, and the
\* significant nodes the loop has passed are sent.
ParentsOlder ==
  \A i \in DOMAIN calls :
    calls[i].parent # NoId => \E j \in 1..(i - 1) : calls[j].id = calls[i].parent

IdsDistinct ==
  DistinctTicks =>
    /\ \A i \in DOMAIN calls : calls[i].id <= tick
    /\ \A i, j \in DOMAIN calls : calls[i].id = calls[j].id => i = j

LoopInNodes ==
  /\ phase = "request" => sent = <<>>
  /\ phase # "request" => pos <= Len(calls)
  /\ phase = "find" => at \in DOMAIN calls /\ pos > 0 /\ Significant(calls[pos])
  /\ phase = "done" => pos = 0

ParentsSignificant ==
  \A k \in DOMAIN sent :
    \/ sent[k].parent = Root
    \/ \E j \in DOMAIN calls : Significant(calls[j]) /\ calls[j].id = sent[k].parent

PassedAreSent ==
  phase # "request" =>
    \A j \in DOMAIN calls :
      j > pos /\ Significant(calls[j]) => \E k \in DOMAIN sent : sent[k].id = calls[j].id

IInv ==
  /\ TypeOK
  /\ ParentsOlder
  /\ IdsDistinct
  /\ LoopInNodes
  /\ ParentsSignificant
  /\ PassedAreSent

\* The reference definition of a node's ancestors: in every set of nodes that
\* has its parent and is closed under parents.
ParentsOf(i) == {j \in DOMAIN calls : calls[i].parent # NoId /\ calls[j].id = calls[i].parent}
Ancestors(i) ==
  {j \in DOMAIN calls : \A S \in SUBSET DOMAIN calls :
     (ParentsOf(i) \subseteq S /\ \A k \in S : ParentsOf(k) \subseteq S) => j \in S}

\* Each child span names the nearest of its significant ancestors, the root
\* span if there is none, although the search of find_parent_span_id_for_call
\* compares ids in a flat list, and whatever order the calls ended in.
NearestAncestor ==
  \A s \in Spans :
    LET A == {j \in Ancestors(s.node) : Significant(calls[j])}
    IN \/ A = {} /\ s.parent = Root
       \/ \E j \in A : (\A k \in A : k <= j) /\ s.parent = calls[j].id

\* No recorded operation is lost or split by expansion: each is in the root
\* message and in exactly one child span, also those of calls that never
\* returned and of nodes opened for operations outside any call.
AllReported ==
  phase = "done" =>
    \A op \in ops :
      /\ root[op] > 0
      /\ Cardinality({k \in DOMAIN sent : op \in sent[k].ops}) = 1

\* Every request end gets through the expansion: find_parent_span_id_for_call
\* always returns, as the comment above it says what it returns (opa.c 5237).
\* With equal ids (generate_id, opa.c 99) it does not: it compares ids in a
\* flat list, and a node whose parent has its own id is its own parent there.
ExpansionEnds == (phase = "scan") ~> (phase = "done")
=============================================================================
