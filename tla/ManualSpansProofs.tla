------------------------ MODULE ManualSpansProofs ------------------------
(***************************************************************************)
(* Theorems of ManualSpans, for any number of threads, spans and requests: *)
(* its types, that between requests no span is left allocated but those    *)
(* the table did not take, and that opa_add_tag keeps the table while it   *)
(* holds the mutex.  For one thread, that freed memory is never used and   *)
(* that the functions implement SpanApi.                                   *)
(***************************************************************************)
EXTENDS ManualSpans, TLAPS

Slots == {NoSpan} \cup DOMAIN heap
Calls == [pc : {"out", "start", "end", "sent", "parent", "tag", "stuck", "dump"},
          id : Nat, gen : Nat, span : Slots]

\* What appending does to the heap.
LEMMA Appending ==
  ASSUME NEW S, NEW q \in Seq(S), NEW x \in S
  PROVE  /\ Append(q, x) \in Seq(S)
         /\ DOMAIN q = 1..Len(q)
         /\ DOMAIN Append(q, x) = 1..(Len(q) + 1)
         /\ Len(q) \in Nat
         /\ \A k \in DOMAIN q : k \in DOMAIN Append(q, x) /\ Append(q, x)[k] = q[k]
         /\ Append(q, x)[Len(q) + 1] = x
  OBVIOUS

\* What changing some of its elements does to a sequence.
LEMMA Changing ==
  ASSUME NEW S, NEW q \in Seq(S), NEW r,
         r = [i \in DOMAIN q |-> r[i]],
         \A i \in DOMAIN q : r[i] \in S
  PROVE  r \in Seq(S) /\ Len(r) = Len(q)
  <1>1. DOMAIN q = 1..Len(q) /\ Len(q) \in Nat
    OBVIOUS
  <1>2. r = [i \in 1..Len(q) |-> r[i]]
    BY <1>1
  <1>3. r \in [1..Len(q) -> S]
    BY <1>1, <1>2
  <1> QED BY <1>1, <1>3

\* free_span_context marks the spans as freed and changes nothing else.
LEMMA Freeing ==
  ASSUME heap \in Seq(Span), NEW S
  PROVE  /\ Freed(heap, S) \in Seq(Span)
         /\ DOMAIN Freed(heap, S) = DOMAIN heap
         /\ \A i \in DOMAIN heap :
              /\ Freed(heap, S)[i].id = heap[i].id
              /\ Freed(heap, S)[i].tags = heap[i].tags
              /\ Freed(heap, S)[i].parent = heap[i].parent
              /\ Freed(heap, S)[i].dumps = heap[i].dumps
              /\ Freed(heap, S)[i].listed = heap[i].listed
              /\ Freed(heap, S)[i].freed = (heap[i].freed \/ i \in S)
  <1> DEFINE h == Freed(heap, S)
  <1>1. h = [i \in DOMAIN heap |-> IF i \in S THEN [heap[i] EXCEPT !.freed = TRUE] ELSE heap[i]]
    BY DEF Freed
  <1>2. ASSUME NEW i \in DOMAIN heap
        PROVE  /\ h[i] \in Span
               /\ h[i].id = heap[i].id /\ h[i].tags = heap[i].tags
               /\ h[i].parent = heap[i].parent /\ h[i].dumps = heap[i].dumps
               /\ h[i].listed = heap[i].listed
               /\ h[i].freed = (heap[i].freed \/ i \in S)
    <2>1. heap[i] \in Span
      OBVIOUS
    <2>2. CASE i \in S
      <3>1. h[i] = [heap[i] EXCEPT !.freed = TRUE]
        BY <1>1, <2>2
      <3> HIDE DEF h
      <3> QED BY <2>1, <2>2, <3>1 DEF Span
    <2>3. CASE i \notin S
      <3>1. h[i] = heap[i]
        BY <1>1, <2>3
      <3> HIDE DEF h
      <3>2. heap[i].freed \in BOOLEAN
        BY <2>1 DEF Span
      <3> QED BY <2>1, <2>3, <3>1, <3>2
    <2> QED BY <2>2, <2>3
  <1>3. h \in Seq(Span)
    <2>1. h = [i \in DOMAIN heap |-> h[i]]
      BY <1>1
    <2> QED BY <1>1, <1>2, <2>1, Changing
  <1> QED BY <1>1, <1>2, <1>3

\* What the functions that change open spans leave alone: the spans keep their
\* place, their id and their state.
HeapKept ==
  /\ heap' \in Seq(Span)
  /\ DOMAIN heap' = DOMAIN heap
  /\ \A i \in DOMAIN heap :
       /\ heap'[i].id = heap[i].id
       /\ heap'[i].listed = heap[i].listed
       /\ heap'[i].freed = heap[i].freed

\* The program names spans by numbers.
LEMMA KnownAreIds ==
  ASSUME TypeOK
  PROVE  KnownIds \subseteq Nat
  <1> SUFFICES ASSUME NEW i \in DOMAIN heap
               PROVE  heap[i].id \in Nat
    BY DEF KnownIds
  <1>1. heap[i] \in Span
    BY DEF TypeOK
  <1> QED BY <1>1 DEF Span

LEMMA SetParentKeeps ==
  ASSUME TypeOK, NEW t \in Thread, NEW parent \in KnownIds,
         heap' = [i \in DOMAIN heap |-> IF i \in Found(call[t].id)
                                        THEN [heap[i] EXCEPT !.parent = parent]
                                        ELSE heap[i]]
  PROVE  HeapKept
  <1>0. heap \in Seq(Span)
    BY DEF TypeOK
  <1>1. parent \in Nat
    BY KnownAreIds
  <1>2. ASSUME NEW i \in DOMAIN heap
        PROVE  /\ heap'[i] \in Span
               /\ heap'[i].id = heap[i].id
               /\ heap'[i].listed = heap[i].listed /\ heap'[i].freed = heap[i].freed
    <2>1. heap[i] \in Span
      BY <1>0
    <2>2. CASE i \in Found(call[t].id)
      BY <1>1, <2>1, <2>2 DEF Span
    <2>3. CASE i \notin Found(call[t].id)
      BY <2>1, <2>3 DEF Span
    <2> QED BY <2>2, <2>3
  <1>3. heap' = [i \in DOMAIN heap |-> heap'[i]] /\ DOMAIN heap' = DOMAIN heap
    OBVIOUS
  <1>4. heap' \in Seq(Span)
    BY <1>0, <1>2, <1>3, Changing
  <1> QED BY <1>2, <1>3, <1>4 DEF HeapKept

LEMMA AddTagKeeps ==
  ASSUME TypeOK, NEW t \in Thread, NEW k \in Key, NEW v \in Value,
         heap' = [i \in DOMAIN heap |-> IF profiling /\ i \in Found(call[t].id)
                                        THEN WithTag(heap[i], k, v)
                                        ELSE heap[i]]
  PROVE  HeapKept
  <1>0. heap \in Seq(Span)
    BY DEF TypeOK
  <1>2. ASSUME NEW i \in DOMAIN heap
        PROVE  /\ heap'[i] \in Span
               /\ heap'[i].id = heap[i].id
               /\ heap'[i].listed = heap[i].listed /\ heap'[i].freed = heap[i].freed
    <2>1. heap[i] \in Span
      BY <1>0
    <2>2. CASE profiling /\ i \in Found(call[t].id)
      <3>1. heap'[i] = [heap[i] EXCEPT !.tags = [heap[i].tags EXCEPT ![k] = v]]
        BY <2>1, <2>2 DEF WithTag, Span
      <3>2. [heap[i].tags EXCEPT ![k] = v] \in Tags
        BY <2>1 DEF Span, Tags
      <3> QED BY <2>1, <3>1, <3>2 DEF Span
    <2>3. CASE ~(profiling /\ i \in Found(call[t].id))
      BY <2>1, <2>3 DEF Span
    <2> QED BY <2>2, <2>3
  <1>3. heap' = [i \in DOMAIN heap |-> heap'[i]] /\ DOMAIN heap' = DOMAIN heap
    OBVIOUS
  <1>4. heap' \in Seq(Span)
    BY <1>0, <1>2, <1>3, Changing
  <1> QED BY <1>2, <1>3, <1>4 DEF HeapKept

\* A new span is well formed.
LEMMA Starting ==
  ASSUME TypeOK, ConstantsAssumption, NEW id \in NextIds, NEW tags \in Tags
  PROVE  LET s == NewSpan(id, tags, Found(id) = {})
         IN /\ id \in Nat \ {0}
            /\ s \in Span
            /\ s.id = id /\ s.dumps = <<>> /\ s.tags = tags /\ s.parent = NoId
            /\ s.listed <=> Found(id) = {}
            /\ ~s.freed
  <1>1. id \in Nat \ {0}
    BY DEF NextIds, TypeOK, ConstantsAssumption
  <1> DEFINE s(b) == [id |-> id, tags |-> tags, parent |-> NoId, dumps |-> <<>>,
                      listed |-> b, freed |-> FALSE]
  <1>2. ASSUME NEW b \in BOOLEAN
        PROVE  /\ s(b) \in Span
               /\ s(b).id = id /\ s(b).dumps = <<>> /\ s(b).tags = tags
               /\ s(b).parent = NoId /\ s(b).listed = b /\ ~s(b).freed
    BY <1>1 DEF Span, NoId
  <1>3. (Found(id) = {}) \in BOOLEAN
    BY Zenon
  <1>4. PICK b \in BOOLEAN : b = (Found(id) = {})
    BY <1>3, Zenon
  <1>5. NewSpan(id, tags, Found(id) = {}) = s(b)
    BY <1>4, Zenon DEF NewSpan
  <1>6. b <=> Found(id) = {}
    BY <1>4, Zenon
  <1> HIDE DEF s
  <1> QED BY <1>1, <1>2, <1>5, <1>6

\* A thread's record of its call after it has entered or left a function.
LEMMA Calling ==
  ASSUME TypeOK
  PROVE  /\ call \in [Thread -> Calls]
         /\ Outside \in Calls
         /\ \A t \in Thread : call[t] \in Calls
  BY DEF TypeOK, Calls, Slots, Outside, NoId, NoSpan

\* Entering a function, and the table get_active_spans may create.
LEMMA EnterTyped ==
  ASSUME TypeOK, NEW t \in Thread, NEW op \in {"start", "dump", "end", "parent"},
         NEW id \in Nat, Enter(t, op, id)
  PROVE  TypeOK'
  <1>1. /\ Gotten \in [exists : BOOLEAN, gen : Nat, spans : SUBSET DOMAIN heap]
        /\ Gotten.gen \in Nat
    BY DEF TypeOK, Gotten, Created
  <1>2. [pc |-> op, id |-> id, gen |-> Gotten.gen, span |-> NoSpan] \in Calls
    BY <1>1 DEF Calls, Slots, NoSpan
  <1>3. call' \in [Thread -> Calls]
    BY <1>2, Calling DEF Enter
  <1>4. heap' = heap
    BY DEF Enter
  <1> QED BY <1>1, <1>3, <1>4 DEF Enter, TypeOK, Calls, Slots

LEMMA StartSpanTyped ==
  ASSUME TypeOK, ConstantsAssumption, NEW t \in Thread, StartSpan(t)
  PROVE  TypeOK'
  <1>1. CASE Fault("table")
    BY <1>1 DEF Fault, TypeOK
  <1>2. CASE ~Fault("table")
    <2>1. PICK id \in NextIds, tags \in Tags :
            /\ clock' = id
            /\ heap' = Append(heap, NewSpan(id, tags, Found(id) = {}))
            /\ table' = [table EXCEPT !.spans =
                           IF Found(id) = {} THEN @ \cup {Len(heap) + 1} ELSE @]
      BY <1>2 DEF StartSpan
    <2>2. heap' \in Seq(Span) /\ DOMAIN heap \subseteq DOMAIN heap' /\ Len(heap) + 1 \in DOMAIN heap'
      <3>1. heap \in Seq(Span)
        BY DEF TypeOK
      <3>2. NewSpan(id, tags, Found(id) = {}) \in Span
        BY <2>1, Starting DEF TypeOK
      <3> QED BY <2>1, <3>1, <3>2, Appending
    <2>3. table' \in [exists : BOOLEAN, gen : Nat, spans : SUBSET DOMAIN heap']
      BY <2>1, <2>2 DEF TypeOK
    <2>4. call' \in [Thread -> Calls]
      BY <1>2, Calling DEF StartSpan, ReturnOf
    <2>5. Calls \subseteq Calls'
      BY <2>2 DEF Calls, Slots
    <2>7. call' \in [Thread -> Calls']
      BY <2>4, <2>5
    <2>6. clock' \in Nat \ {0}
      BY <2>1, Starting
    <2> QED BY <1>2, <2>2, <2>3, <2>7, <2>6 DEF StartSpan, TypeOK, Calls, Slots
  <1> QED BY <1>1, <1>2

LEMMA EndSpanTyped ==
  ASSUME TypeOK, NEW t \in Thread, EndSpan(t)
  PROVE  TypeOK'
  <1>0. heap' = heap /\ table' = table
    BY DEF EndSpan, Fault
  <1>1. call' \in [Thread -> Calls]
    <2>1. CASE call' = call
      BY <2>1, Calling
    <2>2. CASE ReturnOf(t)
      BY <2>2, Calling DEF ReturnOf
    <2>3. ASSUME NEW i \in Found(call[t].id),
                 call' = [call EXCEPT ![t].pc = "sent", ![t].span = i]
          PROVE  call' \in [Thread -> Calls]
      <3>1. i \in DOMAIN heap
        BY DEF Found, TypeOK
      <3>2. [call[t] EXCEPT !.pc = "sent", !.span = i] \in Calls
        BY <3>1, Calling DEF Calls, Slots
      <3>3. call' = [call EXCEPT ![t] = [call[t] EXCEPT !.pc = "sent", !.span = i]]
        BY <2>3, Calling DEF Calls
      <3> QED BY <3>2, <3>3, Calling
    <2> QED BY <2>1, <2>2, <2>3 DEF EndSpan, Fault
  <1> QED BY <1>0, <1>1 DEF EndSpan, Fault, TypeOK, Calls, Slots

LEMMA FreeSpanTyped ==
  ASSUME TypeOK, NEW t \in Thread, FreeSpan(t)
  PROVE  TypeOK'
  <1>1. CASE Fault("table") \/ Fault("span")
    BY <1>1 DEF Fault, TypeOK
  <1>2. CASE ~(Fault("table") \/ Fault("span"))
    <2>1. heap' \in Seq(Span) /\ DOMAIN heap' = DOMAIN heap
      BY <1>2, Freeing DEF FreeSpan, TypeOK
    <2>2. call' \in [Thread -> Calls]
      BY <1>2, Calling DEF FreeSpan, ReturnOf
    <2>3. table' = [table EXCEPT !.spans = @ \ Found(call[t].id)]
      BY <1>2 DEF FreeSpan
    <2>4. table' \in [exists : BOOLEAN, gen : Nat, spans : SUBSET DOMAIN heap']
      BY <2>1, <2>3 DEF TypeOK
    <2> QED BY <1>2, <2>1, <2>2, <2>4 DEF FreeSpan, TypeOK, Calls, Slots
  <1> QED BY <1>1, <1>2

LEMMA SetParentTyped ==
  ASSUME TypeOK, NEW t \in Thread, SetParent(t)
  PROVE  TypeOK'
  <1>1. CASE Fault("table")
    BY <1>1 DEF Fault, TypeOK
  <1>2. CASE ~Fault("table")
    <2>1. HeapKept
      BY <1>2, SetParentKeeps DEF SetParent
    <2>2. call' \in [Thread -> Calls]
      BY <1>2, Calling DEF SetParent, ReturnOf
    <2> QED BY <1>2, <2>1, <2>2 DEF SetParent, TypeOK, Calls, Slots, HeapKept
  <1> QED BY <1>1, <1>2

LEMMA AddTagTyped ==
  ASSUME TypeOK, NEW t \in Thread, AddTag(t)
  PROVE  TypeOK'
  <1>1. CASE ~(profiling /\ ~table.exists)
    <2>1. HeapKept
      BY <1>1, AddTagKeeps DEF AddTag
    <2>2. call' \in [Thread -> Calls]
      BY <1>1, Calling DEF AddTag, ReturnOf
    <2> QED BY <1>1, <2>1, <2>2 DEF AddTag, TypeOK, Calls, Slots, HeapKept
  <1>2. CASE profiling /\ ~table.exists
    <2>1. [call[t] EXCEPT !.pc = "stuck"] \in Calls
      BY Calling DEF Calls
    <2>2. call' = [call EXCEPT ![t] = [call[t] EXCEPT !.pc = "stuck"]]
      BY <1>2, Calling DEF AddTag
    <2>3. call' \in [Thread -> Calls]
      BY <2>1, <2>2, Calling
    <2> QED BY <1>2, <2>3 DEF AddTag, TypeOK, Calls, Slots
  <1> QED BY <1>1, <1>2

LEMMA LockTagTyped ==
  ASSUME TypeOK, NEW t \in Thread, NEW id \in Nat, LockTag(t, id)
  PROVE  TypeOK'
  <1>1. [call[t] EXCEPT !.pc = "tag", !.id = id] \in Calls
    BY Calling DEF Calls
  <1>2. call' = [call EXCEPT ![t] = [call[t] EXCEPT !.pc = "tag", !.id = id]]
    BY Calling DEF LockTag, Calls
  <1>3. call' \in [Thread -> Calls]
    BY <1>1, <1>2, Calling
  <1> QED BY <1>3 DEF LockTag, TypeOK, Calls, Slots

LEMMA DumpTyped ==
  ASSUME TypeOK, NEW t \in Thread, Dump(t)
  PROVE  TypeOK'
  <1>1. CASE Fault("table") \/ Fault("dump")
    BY <1>1 DEF Fault, TypeOK
  <1>2. CASE ~(Fault("table") \/ Fault("dump"))
    <2>3. Append(root.dumps, dumped + 1) \in Seq(Nat) /\ dumped' \in Nat
      BY <1>2 DEF Dump, TypeOK
    <2>4. \/ root' = root
          \/ root' = [req |-> requests, dumps |-> Append(root.dumps, dumped + 1)]
          \/ root' = [req |-> root.req, dumps |-> Append(root.dumps, dumped + 1)]
      BY <1>2 DEF Dump
    <2>5. requests \in Nat /\ root \in [req : Nat, dumps : Seq(Nat)]
      BY DEF TypeOK
    <2>6. root.req \in Nat
      BY <2>5
    <2>1. root' \in [req : Nat, dumps : Seq(Nat)] /\ dumped' \in Nat
      <3>1. CASE root' = root
        BY <2>3, <2>5, <3>1
      <3>2. CASE root' = [req |-> requests, dumps |-> Append(root.dumps, dumped + 1)]
        BY <2>3, <2>5, <3>2
      <3>3. CASE root' = [req |-> root.req, dumps |-> Append(root.dumps, dumped + 1)]
        BY <2>3, <2>6, <3>3
      <3> QED BY <2>4, <3>1, <3>2, <3>3
    <2>2. call' \in [Thread -> Calls]
      BY <1>2, Calling DEF Dump, ReturnOf
    <2>7. UNCHANGED <<phase, requests, profiling, clock, heap, table, mutex, fault>>
      BY <1>2 DEF Dump
    <2> QED BY <2>1, <2>2, <2>7 DEF TypeOK, Calls, Slots
  <1> QED BY <1>1, <1>2

LEMMA FreeSpansTyped ==
  ASSUME TypeOK, NEW t \in Thread, FreeSpans(t)
  PROVE  TypeOK'
  <1>1. heap' \in Seq(Span) /\ DOMAIN heap' = DOMAIN heap
    BY Freeing DEF FreeSpans, TypeOK
  <1>2. table' \in [exists : BOOLEAN, gen : Nat, spans : SUBSET DOMAIN heap']
    BY DEF FreeSpans, TypeOK
  <1> QED BY <1>1, <1>2 DEF FreeSpans, TypeOK

LEMMA ClearRootTyped ==
  ASSUME TypeOK, NEW t \in Thread, ClearRoot(t)
  PROVE  TypeOK'
  <1>1. root' \in [req : Nat, dumps : Seq(Nat)]
    BY DEF ClearRoot, NoRoot
  <1> QED BY <1>1 DEF ClearRoot, TypeOK

LEMMA RequestTyped ==
  ASSUME TypeOK, NEW t \in Thread, Toggle(t) \/ BeginRequest(t) \/ CloseRequest(t)
  PROVE  TypeOK'
  <1>1. CASE Toggle(t)
    BY <1>1 DEF TypeOK, Toggle
  <1>2. CASE BeginRequest(t)
    <2>1. root' \in [req : Nat, dumps : Seq(Nat)]
      BY <1>2 DEF BeginRequest, TypeOK
    <2> QED BY <1>2, <2>1 DEF TypeOK, BeginRequest
  <1>3. CASE CloseRequest(t)
    BY <1>3 DEF TypeOK, CloseRequest
  <1> QED BY <1>1, <1>2, <1>3

\* One action of the specification, its thread named.
Action(t) ==
  \/ \E op \in {"start", "dump", "end", "parent"}, id \in Nat : Enter(t, op, id)
  \/ \E id \in Nat : LockTag(t, id)
  \/ Toggle(t) \/ BeginRequest(t) \/ CloseRequest(t) \/ Step(t)

LEMMA NextIsAction ==
  ASSUME TypeOK, Next
  PROVE  \E t \in Thread : Action(t)
  <1>1. KnownIds \subseteq Nat /\ NoId \in Nat
    BY KnownAreIds DEF NoId
  <1> QED BY <1>1 DEF Next, Action

LEMMA TypeInv ==
  ASSUME TypeOK, ConstantsAssumption, [Next]_vars
  PROVE  TypeOK'
  <1>1. CASE UNCHANGED vars
    BY <1>1 DEF vars, TypeOK
  <1>2. CASE Next
    <2>1. PICK t \in Thread : Action(t)
      BY <1>2, NextIsAction
    <2> QED BY <2>1, EnterTyped, LockTagTyped, RequestTyped, StartSpanTyped, EndSpanTyped,
               FreeSpanTyped, SetParentTyped, AddTagTyped, DumpTyped, FreeSpansTyped,
               ClearRootTyped
            DEF Action, Step
  <1> QED BY <1>1, <1>2

LEMMA InitTyped ==
  ASSUME Init, ConstantsAssumption
  PROVE  TypeOK
  <1>1. heap \in Seq(Span) /\ DOMAIN heap = {}
    BY DEF Init
  <1>2. table \in [exists : BOOLEAN, gen : Nat, spans : SUBSET DOMAIN heap]
    BY DEF Init
  <1>3. call \in [Thread -> Calls]
    BY DEF Init, Outside, Calls, Slots, NoId, NoSpan
  <1>4. root \in [req : Nat, dumps : Seq(Nat)]
    BY DEF Init, NoRoot
  <1>5. phase \in [Thread -> {"idle", "running", "closing", "clearing"}]
    BY DEF Init
  <1>6. /\ requests \in Nat /\ profiling \in BOOLEAN /\ clock \in Nat \ {0}
        /\ mutex \in Thread \cup {Nobody} /\ dumped \in Nat
        /\ fault \in {"none", "table", "span", "dump"}
    <2>1. /\ requests = 0 /\ profiling = FALSE /\ clock = 1 /\ mutex = Nobody /\ dumped = 0
          /\ fault = "none"
      BY DEF Init
    <2>2. 0 \in Nat /\ FALSE \in BOOLEAN /\ 1 \in Nat \ {0}
      OBVIOUS
    <2> QED BY <2>1, <2>2, Zenon
  <1> QED BY <1>1, <1>2, <1>3, <1>4, <1>5, <1>6 DEF TypeOK, Calls, Slots

\* The globals keep their shape, the table holds spans that were allocated and
\* a function that has sent a span holds one, for any number of threads and
\* spans (opa_api.c 21-299, opa.c 4850-4862, 5519-5567).
THEOREM TypeCorrect == Spec => []TypeOK
  <1>1. Init => TypeOK
    BY InitTyped, ConstantsAssumption
  <1> QED BY <1>1, TypeInv, ConstantsAssumption, PTL DEF Spec
----------------------------------------------------------------------------
(* Any number of threads.                                                  *)

\* A table exists only during a request, until its RSHUTDOWN has destroyed it,
\* only one that exists has spans, and their ids differ.
TableInv ==
  /\ ~table.exists => table.spans = {}
  /\ table.exists => \E t \in Thread : phase[t] \in {"running", "closing"}
  /\ \A i, j \in table.spans : heap[i].id = heap[j].id => i = j

\* opa_add_tag holds the mutex.
TagLocks == \A t \in Thread : call[t].pc = "tag" => mutex = t

\* opa_end_span frees a span with the id it was given, which the table took.
SentSpan ==
  \A t \in Thread :
    call[t].pc = "sent" =>
      /\ call[t].span \in DOMAIN heap
      /\ heap[call[t].span].id = call[t].id
      /\ heap[call[t].span].listed

\* Each span the table took is in it until it is freed; another is never in it
\* and never freed.
Owned ==
  \A i \in DOMAIN heap :
    IF heap[i].listed THEN heap[i].freed \/ i \in table.spans
                      ELSE ~heap[i].freed /\ i \notin table.spans

Shared == TypeOK /\ TableInv /\ TagLocks /\ SentSpan /\ Owned

LEMMA SharedInit ==
  ASSUME Init, TypeOK
  PROVE  Shared
  <1>1. heap = <<>> /\ DOMAIN heap = {} /\ table.spans = {} /\ ~table.exists
    BY DEF Init
  <1>2. \A t \in Thread : call[t].pc = "out"
    BY DEF Init, Outside
  <1> QED BY <1>1, <1>2 DEF Shared, TableInv, TagLocks, SentSpan, Owned

\* Steps that leave the spans, the table and the clock alone.
LEMMA SharedStays ==
  ASSUME Shared, TypeOK', heap' = heap, table' = table, clock' = clock,
         \A t \in Thread : phase[t] \in {"running", "closing"} =>
                            phase'[t] \in {"running", "closing"},
         TagLocks', SentSpan'
  PROVE  Shared'
  BY DEF Shared, TableInv, Owned

LEMMA FaultShared ==
  ASSUME Shared, TypeOK', NEW what, Fault(what)
  PROVE  Shared'
  <1>1. TagLocks' /\ SentSpan'
    BY DEF Fault, Shared, TagLocks, SentSpan
  <1> QED BY <1>1, SharedStays DEF Fault

\* Leaving a function: the calls of the other threads are as they were.
LEMMA Leaving ==
  ASSUME TypeOK, NEW t \in Thread, ReturnOf(t)
  PROVE  /\ call'[t] = Outside
         /\ \A u \in Thread : u # t => call'[u] = call[u]
         /\ \A u \in Thread : call'[u].pc # "out" => u # t /\ call'[u] = call[u]
  BY Calling DEF ReturnOf, Outside

LEMMA EnterShared ==
  ASSUME Shared, TypeOK', NEW t \in Thread, NEW op \in {"start", "dump", "end", "parent"},
         NEW id \in Nat, Enter(t, op, id)
  PROVE  Shared'
  <1> USE DEF Shared
  <1>1. /\ call'[t] = [pc |-> op, id |-> id, gen |-> Gotten.gen, span |-> NoSpan]
        /\ \A u \in Thread : u # t => call'[u] = call[u]
    BY Calling DEF Enter
  <1>2. call'[t].pc = op /\ heap' = heap /\ mutex' = mutex /\ phase' = phase /\ clock' = clock
    BY <1>1 DEF Enter
  <1>3. table'.exists /\ table'.spans = table.spans
    BY DEF Enter, Gotten, Created, TypeOK, TableInv
  <1>4. TagLocks'
    BY <1>1, <1>2 DEF TagLocks
  <1>5. SentSpan'
    BY <1>1, <1>2 DEF SentSpan
  <1>6. TableInv'
    BY <1>2, <1>3 DEF TableInv, Enter
  <1>7. Owned'
    BY <1>2, <1>3 DEF Owned
  <1> QED BY <1>4, <1>5, <1>6, <1>7

LEMMA StartSpanShared ==
  ASSUME Shared, ConstantsAssumption, TypeOK', NEW t \in Thread, StartSpan(t)
  PROVE  Shared'
  <1>1. CASE Fault("table")
    BY <1>1, FaultShared
  <1>2. CASE ~Fault("table")
    <2> USE DEF Shared
    <2> DEFINE n == Len(heap) + 1
    <2>0. /\ ~Stale(t) /\ ReturnOf(t) /\ mutex' = mutex /\ phase' = phase
          /\ table.exists
      BY <1>2 DEF StartSpan, Stale
    <2>1. PICK id \in NextIds, tags \in Tags :
            /\ clock' = id
            /\ heap' = Append(heap, NewSpan(id, tags, Found(id) = {}))
            /\ table' = [table EXCEPT !.spans =
                           IF Found(id) = {} THEN @ \cup {n} ELSE @]
      BY <1>2 DEF StartSpan
    <2>2. /\ DOMAIN heap = 1..Len(heap) /\ Len(heap) \in Nat
          /\ DOMAIN heap' = 1..n
          /\ \A i \in DOMAIN heap : i \in DOMAIN heap' /\ i # n /\ heap'[i] = heap[i]
          /\ heap'[n] = NewSpan(id, tags, Found(id) = {})
      <3>1. heap \in Seq(Span) /\ NewSpan(id, tags, Found(id) = {}) \in Span
        BY <2>1, Starting DEF TypeOK
      <3>2. DOMAIN heap = 1..Len(heap) /\ Len(heap) \in Nat
        BY <3>1
      <3>3. DOMAIN heap' = 1..n /\ heap'[n] = NewSpan(id, tags, Found(id) = {})
        BY <2>1, <3>1, Appending
      <3>4. \A i \in DOMAIN heap : i \in DOMAIN heap' /\ heap'[i] = heap[i]
        BY <2>1, <3>1, Appending
      <3> QED BY <3>2, <3>3, <3>4
    <2>3. heap'[n].id = id /\ (heap'[n].listed <=> Found(id) = {}) /\ ~heap'[n].freed
      BY <2>1, <2>2, Starting
    <2>4. /\ table'.exists = table.exists
          /\ table'.spans = IF Found(id) = {} THEN table.spans \cup {n} ELSE table.spans
          /\ table.spans \subseteq DOMAIN heap
      BY <2>1 DEF TypeOK
    <2>5. TagLocks' /\ SentSpan'
      BY <2>0, <2>2, Leaving DEF TagLocks, SentSpan, Outside
    <2>6. \A i, j \in table'.spans : heap'[i].id = heap'[j].id => i = j
      <3>1. CASE Found(id) = {}
        BY <2>2, <2>3, <2>4, <3>1 DEF Found, TableInv
      <3>2. CASE Found(id) # {}
        BY <2>2, <2>4, <3>2 DEF TableInv
      <3> QED BY <3>1, <3>2
    <2>7. TableInv'
      BY <2>0, <2>4, <2>6 DEF TableInv
    <2>8. Owned'
      <3>1. \A i \in DOMAIN heap' : i \in DOMAIN heap \/ i = n
        BY <2>2
      <3>2. n \notin table.spans
        BY <2>2, <2>4
      <3> QED BY <2>2, <2>3, <2>4, <3>1, <3>2 DEF Owned
    <2> QED BY <2>5, <2>7, <2>8
  <1> QED BY <1>1, <1>2

LEMMA EndSpanShared ==
  ASSUME Shared, TypeOK', NEW t \in Thread, EndSpan(t)
  PROVE  Shared'
  <1> USE DEF Shared
  <1>0. heap' = heap /\ table' = table /\ clock' = clock /\ mutex' = mutex /\ phase' = phase
    BY DEF EndSpan, Fault
  <1>1. TagLocks' /\ SentSpan'
    <2>1. CASE call' = call
      BY <1>0, <2>1 DEF TagLocks, SentSpan
    <2>2. CASE ReturnOf(t)
      BY <1>0, <2>2, Leaving DEF TagLocks, SentSpan, Outside
    <2>3. ASSUME NEW i \in Found(call[t].id),
                 call' = [call EXCEPT ![t].pc = "sent", ![t].span = i]
          PROVE  TagLocks' /\ SentSpan'
      <3>1. /\ call'[t].pc = "sent" /\ call'[t].span = i /\ call'[t].id = call[t].id
            /\ \A u \in Thread : u # t => call'[u] = call[u]
        BY <2>3, Calling DEF Calls
      <3>2. i \in DOMAIN heap /\ heap[i].id = call[t].id /\ heap[i].listed
        BY DEF Found, TypeOK, Owned
      <3> QED BY <1>0, <3>1, <3>2 DEF TagLocks, SentSpan
    <2> QED BY <2>1, <2>2, <2>3 DEF EndSpan, Fault
  <1> QED BY <1>0, <1>1, SharedStays

LEMMA FreeSpanShared ==
  ASSUME Shared, TypeOK', NEW t \in Thread, FreeSpan(t)
  PROVE  Shared'
  <1>1. CASE Fault("table") \/ Fault("span")
    BY <1>1, FaultShared
  <1>2. CASE ~(Fault("table") \/ Fault("span"))
    <2> USE DEF Shared
    <2> DEFINE s == call[t].span
    <2>0. /\ call[t].pc = "sent" /\ ReturnOf(t) /\ mutex' = mutex /\ phase' = phase
          /\ clock' = clock /\ heap' = Freed(heap, {s})
          /\ table' = [table EXCEPT !.spans = @ \ Found(call[t].id)]
      BY <1>2 DEF FreeSpan, In
    <2>1. /\ DOMAIN heap' = DOMAIN heap
          /\ \A i \in DOMAIN heap :
               /\ heap'[i].id = heap[i].id /\ heap'[i].listed = heap[i].listed
               /\ heap'[i].freed = (heap[i].freed \/ i = s)
      <3>1. heap \in Seq(Span)
        BY DEF TypeOK
      <3> HIDE DEF s
      <3>2. /\ DOMAIN Freed(heap, {s}) = DOMAIN heap
            /\ \A i \in DOMAIN heap :
                 /\ Freed(heap, {s})[i].id = heap[i].id
                 /\ Freed(heap, {s})[i].listed = heap[i].listed
                 /\ Freed(heap, {s})[i].freed = (heap[i].freed \/ i \in {s})
        BY <3>1, Freeing
      <3> QED BY <2>0, <3>2
    <2>2. /\ table'.exists = table.exists
          /\ table'.spans = table.spans \ Found(call[t].id)
          /\ table.spans \subseteq DOMAIN heap
      BY <2>0 DEF TypeOK
    <2>7. \A u \in Thread : call'[u].pc # "out" => u # t /\ call'[u] = call[u]
      BY <2>0, Leaving
    <2>8. TagLocks'
      BY <2>0, <2>7 DEF TagLocks
    <2>9. SentSpan'
      BY <2>1, <2>7 DEF SentSpan
    <2>4. TableInv'
      <3>1. \A i, j \in table'.spans : heap'[i].id = heap'[j].id => i = j
        BY <2>1, <2>2 DEF TableInv
      <3>2. ~table'.exists => table'.spans = {}
        BY <2>2 DEF TableInv
      <3>3. table'.exists => \E u \in Thread : phase'[u] \in {"running", "closing"}
        BY <2>0, <2>2 DEF TableInv
      <3> QED BY <3>1, <3>2, <3>3 DEF TableInv
    <2>5. Owned'
      <3>1. /\ s \in DOMAIN heap /\ heap[s].id = call[t].id /\ heap[s].listed
            /\ ~heap[s].freed
        BY <1>2, <2>0 DEF SentSpan, FreeSpan
      <3>2. s \in table.spans
        BY <3>1 DEF Owned
      <3>3. Found(call[t].id) = {s}
        BY <3>1, <3>2 DEF Found, TableInv
      <3> HIDE DEF s
      <3> QED BY <2>1, <2>2, <3>1, <3>3 DEF Owned
    <2> QED BY <2>8, <2>9, <2>4, <2>5
  <1> QED BY <1>1, <1>2

LEMMA KeptShared ==
  ASSUME Shared, TypeOK', HeapKept, table' = table, clock' = clock, phase' = phase,
         NEW t \in Thread, ReturnOf(t),
         \A u \in Thread \ {t} : call[u].pc = "tag" => mutex' = u
  PROVE  Shared'
  <1> USE DEF Shared
  <1>1. TagLocks'
    BY Leaving DEF TagLocks, Outside
  <1>2. SentSpan'
    BY Leaving DEF SentSpan, Outside, HeapKept
  <1>3. TableInv'
    <2>1. table.spans \subseteq DOMAIN heap
      BY DEF TypeOK
    <2>2. \A i \in table.spans : heap'[i].id = heap[i].id
      BY <2>1 DEF HeapKept
    <2> QED BY <2>2 DEF TableInv
  <1>4. Owned'
    BY DEF Owned, HeapKept
  <1> QED BY <1>1, <1>2, <1>3, <1>4

LEMMA SetParentShared ==
  ASSUME Shared, TypeOK', NEW t \in Thread, SetParent(t)
  PROVE  Shared'
  <1>1. CASE Fault("table")
    BY <1>1, FaultShared
  <1>2. CASE ~Fault("table")
    <2>1. HeapKept
      BY <1>2, SetParentKeeps DEF SetParent, Shared
    <2> QED BY <1>2, <2>1, KeptShared DEF SetParent, Shared, TagLocks
  <1> QED BY <1>1, <1>2

LEMMA AddTagShared ==
  ASSUME Shared, ConstantsAssumption, TypeOK', NEW t \in Thread, AddTag(t)
  PROVE  Shared'
  <1>0. mutex = t /\ \A u \in Thread \ {t} : call[u].pc # "tag"
    BY DEF AddTag, In, Shared, TagLocks
  <1>1. CASE ~(profiling /\ ~table.exists)
    <2>1. HeapKept
      BY <1>1, AddTagKeeps DEF AddTag, Shared
    <2> QED BY <1>0, <1>1, <2>1, KeptShared DEF AddTag
  <1>2. CASE profiling /\ ~table.exists
    <2>1. /\ heap' = heap /\ table' = table /\ clock' = clock /\ mutex' = mutex /\ phase' = phase
          /\ call' = [call EXCEPT ![t].pc = "stuck"]
      BY <1>2 DEF AddTag
    <2>2. call'[t].pc = "stuck" /\ \A u \in Thread : u # t => call'[u] = call[u]
      BY <2>1, Calling DEF Calls, Shared
    <2>3. TagLocks' /\ SentSpan'
      BY <2>1, <2>2 DEF Shared, TagLocks, SentSpan
    <2> QED BY <2>1, <2>3, SharedStays
  <1> QED BY <1>1, <1>2

LEMMA LockTagShared ==
  ASSUME Shared, ConstantsAssumption, TypeOK', NEW t \in Thread, NEW id \in Nat,
         LockTag(t, id)
  PROVE  Shared'
  <1>1. call'[t].pc = "tag" /\ \A u \in Thread : u # t => call'[u] = call[u]
    BY Calling DEF LockTag, Calls, Shared
  <1>2. \A u \in Thread : call[u].pc # "tag"
    BY DEF LockTag, Shared, TagLocks, ConstantsAssumption
  <1>3. mutex' = t /\ heap' = heap
    BY DEF LockTag
  <1>4. TagLocks'
    BY <1>1, <1>2, <1>3 DEF TagLocks
  <1>5. SentSpan'
    BY <1>1, <1>3 DEF Shared, SentSpan
  <1> QED BY <1>4, <1>5, SharedStays DEF LockTag

LEMMA DumpShared ==
  ASSUME Shared, TypeOK', NEW t \in Thread, Dump(t)
  PROVE  Shared'
  <1>1. CASE Fault("table") \/ Fault("dump")
    BY <1>1, FaultShared
  <1>2. CASE ~(Fault("table") \/ Fault("dump"))
    <2>1. TagLocks' /\ SentSpan'
      BY <1>2, Leaving DEF Dump, Shared, TagLocks, SentSpan, Outside
    <2> QED BY <1>2, <2>1, SharedStays DEF Dump
  <1> QED BY <1>1, <1>2

LEMMA FreeSpansShared ==
  ASSUME Shared, TypeOK', NEW t \in Thread, FreeSpans(t)
  PROVE  Shared'
  <1> USE DEF Shared
  <1>1. /\ DOMAIN heap' = DOMAIN heap
        /\ \A i \in DOMAIN heap :
             /\ heap'[i].id = heap[i].id /\ heap'[i].listed = heap[i].listed
             /\ heap'[i].freed = (heap[i].freed \/ i \in table.spans)
    BY Freeing DEF FreeSpans, TypeOK
  <1>2. ~table'.exists /\ table'.spans = {} /\ clock' = clock
    BY DEF FreeSpans, TypeOK
  <1>3. TagLocks' /\ SentSpan'
    BY <1>1 DEF FreeSpans, TagLocks, SentSpan
  <1>4. TableInv' /\ Owned'
    BY <1>1, <1>2 DEF TableInv, Owned
  <1> QED BY <1>3, <1>4

LEMMA RequestShared ==
  ASSUME Shared, TypeOK', NEW t \in Thread,
         Toggle(t) \/ BeginRequest(t) \/ CloseRequest(t) \/ ClearRoot(t)
  PROVE  Shared'
  <1>1. /\ heap' = heap /\ table' = table /\ clock' = clock /\ mutex' = mutex /\ call' = call
    BY DEF Toggle, BeginRequest, CloseRequest, ClearRoot
  <1>2. \A u \in Thread : phase[u] \in {"running", "closing"} =>
                            phase'[u] \in {"running", "closing"}
    BY DEF Toggle, BeginRequest, CloseRequest, ClearRoot, Shared, TypeOK
  <1>3. TagLocks' /\ SentSpan'
    BY <1>1 DEF Shared, TagLocks, SentSpan
  <1> QED BY <1>1, <1>2, <1>3, SharedStays

LEMMA SharedInv ==
  ASSUME Shared, ConstantsAssumption, [Next]_vars
  PROVE  Shared'
  <1>0. TypeOK'
    BY TypeInv DEF Shared
  <1>1. CASE UNCHANGED vars
    <2>1. TagLocks' /\ SentSpan'
      BY <1>1 DEF vars, Shared, TagLocks, SentSpan
    <2> QED BY <1>0, <1>1, <2>1, SharedStays DEF vars
  <1>2. CASE Next
    <2>1. PICK t \in Thread : Action(t)
      BY <1>2, NextIsAction DEF Shared
    <2> QED BY <1>0, <2>1, EnterShared, LockTagShared, RequestShared, StartSpanShared,
               EndSpanShared, FreeSpanShared, SetParentShared, AddTagShared, DumpShared,
               FreeSpansShared
            DEF Action, Step
  <1> QED BY <1>1, <1>2

LEMMA SharedAlways == Spec => []Shared
  <1>1. Init => Shared
    BY InitTyped, SharedInit, ConstantsAssumption
  <1> QED BY <1>1, SharedInv, ConstantsAssumption, PTL DEF Spec

\* Between requests the spans left allocated are those whose id was in use when
\* they were started, whatever the threads do in between and however the ids
\* are drawn: a span that zend_hash_add_ptr takes is in the table until it is
\* freed, and the last request to end destroys the table; one it does not take
\* is never freed (opa_api.c 118-175, opa.c 5519-5538).
THEOREM SpansAreFreed == Spec => []OnlyUnlistedLeak
  <1>1. Shared => OnlyUnlistedLeak
    <2> SUFFICES ASSUME Shared, \A t \in Thread : phase[t] = "idle", NEW i \in DOMAIN heap
                 PROVE  heap[i].freed = heap[i].listed
      BY DEF OnlyUnlistedLeak
    <2>1. table.spans = {}
      BY DEF Shared, TableInv
    <2>2. heap[i] \in Span
      BY DEF Shared, TypeOK
    <2>3. heap[i].freed \in BOOLEAN /\ heap[i].listed \in BOOLEAN
      BY <2>2 DEF Span
    <2> QED BY <2>1, <2>3 DEF Shared, Owned
  <1> QED BY <1>1, SharedAlways, PTL

\* No thread destroys or replaces the table while opa_add_tag of another holds
\* the mutex (opa_api.c 177-236, opa.c 5519-5538).
THEOREM TagSafe == Spec => TagKeepsTable
  <1>1. Shared /\ [Next]_vars =>
          [\A t \in Thread : call[t].pc = "tag" /\ table.exists
             => table'.exists /\ table'.gen = table.gen]_vars
    <2> SUFFICES ASSUME Shared, Next, NEW t \in Thread, call[t].pc = "tag", table.exists
                 PROVE  table'.exists /\ table'.gen = table.gen
      OBVIOUS
    <2>1. mutex = t /\ mutex # Nobody
      BY ConstantsAssumption DEF Shared, TagLocks
    <2>2. PICK u \in Thread : Action(u)
      BY NextIsAction DEF Shared
    <2>3. ~FreeSpans(u)
      BY <2>1 DEF FreeSpans
    <2>4. table' = table \/ (\E S : table' = [table EXCEPT !.spans = S])
      <3>1. CASE \E op \in {"start", "dump", "end", "parent"}, id \in Nat : Enter(u, op, id)
        BY <3>1 DEF Enter, Gotten
      <3>2. CASE StartSpan(u)
        BY <3>2 DEF StartSpan, Fault
      <3>3. CASE FreeSpan(u)
        BY <3>3 DEF FreeSpan, Fault
      <3> QED BY <2>2, <2>3, <3>1, <3>2, <3>3
              DEF Action, Step, LockTag, Toggle, BeginRequest, CloseRequest, EndSpan,
                  SetParent, AddTag, Dump, ClearRoot, Fault
    <2> QED BY <2>4 DEF Shared, TypeOK
  <1> QED BY <1>1, SharedAlways, PTL DEF Spec, TagKeepsTable
----------------------------------------------------------------------------
(* One thread, as in the builds of PHP without thread support.             *)

OneThread == \A t, u \in Thread : t = u

\* The table a function has got is there until it returns, the span it sends
\* stays in it, and a running request has a root span.
Alone ==
  /\ \A t \in Thread :
       /\ call[t].pc \in {"start", "end", "sent", "parent", "dump"} => ~Stale(t)
       /\ call[t].pc # "out" => phase[t] = "running"
       /\ call[t].pc = "sent" => call[t].span \in table.spans
       /\ phase[t] = "running" => root.req # 0
  /\ \A i \in table.spans : ~heap[i].freed
  /\ fault \notin {"table", "span"}

LEMMA AloneInit ==
  ASSUME Init
  PROVE  Alone
  BY DEF Init, Alone, Outside, NoRoot

\* A step of the only thread, in terms of what it leaves.
LEMMA AloneStays ==
  ASSUME OneThread, NEW t \in Thread,
         call'[t].pc \in {"start", "end", "sent", "parent", "dump"} => ~Stale(t)',
         call'[t].pc # "out" => phase'[t] = "running",
         call'[t].pc = "sent" => call'[t].span \in table'.spans,
         phase'[t] = "running" => root'.req # 0,
         \A i \in table'.spans : ~heap'[i].freed,
         fault' \notin {"table", "span"}
  PROVE  Alone'
  BY DEF OneThread, Alone

LEMMA StepAlone ==
  ASSUME Shared, Alone, OneThread, TypeOK', ConstantsAssumption, NEW t \in Thread, Step(t)
  PROVE  Alone'
  <1> USE DEF Shared
  <1>0. ASSUME ReturnOf(t), phase' = phase, root'.req = root.req,
               fault' = fault,
               \A i \in table'.spans : ~heap'[i].freed
        PROVE  Alone'
    BY <1>0, Leaving, AloneStays DEF Outside, Alone
  <1>1. CASE StartSpan(t)
    <2>1. ~Fault("table") /\ ~Stale(t)
      BY <1>1 DEF StartSpan, Fault, Alone, In
    <2>2. PICK id \in NextIds, tags \in Tags :
            /\ heap' = Append(heap, NewSpan(id, tags, Found(id) = {}))
            /\ table' = [table EXCEPT !.spans =
                           IF Found(id) = {} THEN @ \cup {Len(heap) + 1} ELSE @]
      BY <1>1, <2>1 DEF StartSpan
    <2>3. heap \in Seq(Span) /\ NewSpan(id, tags, Found(id) = {}) \in Span /\ ~NewSpan(id, tags, Found(id) = {}).freed
      BY <2>2, Starting DEF TypeOK
    <2>4. /\ heap'[Len(heap) + 1] = NewSpan(id, tags, Found(id) = {})
          /\ \A i \in DOMAIN heap : heap'[i] = heap[i]
      BY <2>2, <2>3, Appending
    <2>5. table.spans \subseteq DOMAIN heap /\ table'.spans \subseteq table.spans \cup {Len(heap) + 1}
      BY <2>2 DEF TypeOK
    <2>6. \A i \in table'.spans : ~heap'[i].freed
      BY <2>3, <2>4, <2>5 DEF Alone
    <2> QED BY <1>0, <1>1, <2>1, <2>6 DEF StartSpan
  <1>2. CASE EndSpan(t)
    <2>1. ~Stale(t) /\ fault' = fault /\ heap' = heap /\ table' = table /\ phase' = phase /\ root' = root
      BY <1>2 DEF EndSpan, Fault, Alone, In
    <2>2. CASE ReturnOf(t)
      BY <1>0, <2>1, <2>2 DEF Alone
    <2>3. ASSUME NEW i \in Found(call[t].id),
                 call' = [call EXCEPT ![t].pc = "sent", ![t].span = i]
          PROVE  Alone'
      <3>1. call'[t].pc = "sent" /\ call'[t].span = i /\ call'[t].gen = call[t].gen
        BY <2>3, Calling DEF Calls
      <3>2. i \in table.spans /\ call[t].pc = "end"
        BY <1>2 DEF Found, EndSpan, In
      <3> QED BY <2>1, <3>1, <3>2, AloneStays DEF Alone, Stale
    <2> QED BY <1>2, <2>1, <2>2, <2>3 DEF EndSpan
  <1>3. CASE FreeSpan(t)
    <2> DEFINE s == call[t].span
    <2>1. ~Stale(t) /\ s \in table.spans /\ ~heap[s].freed /\ s \in DOMAIN heap
      BY <1>3 DEF FreeSpan, Alone, In, TypeOK
    <2>2. /\ ReturnOf(t) /\ fault' = fault /\ phase' = phase /\ root' = root
          /\ heap' = Freed(heap, {s})
          /\ table' = [table EXCEPT !.spans = @ \ Found(call[t].id)]
      BY <1>3, <2>1 DEF FreeSpan, Fault
    <2>3. heap \in Seq(Span) /\ table'.spans = table.spans \ Found(call[t].id)
          /\ table.spans \subseteq DOMAIN heap
      BY <2>2 DEF TypeOK
    <2>4. s \in Found(call[t].id)
      BY <1>3, <2>1 DEF FreeSpan, In, Found, SentSpan
    <2> HIDE DEF s
    <2>5. \A i \in DOMAIN heap : heap'[i].freed = (heap[i].freed \/ i \in {s})
      BY <2>2, <2>3, Freeing
    <2>6. \A i \in table'.spans : ~heap'[i].freed
      BY <2>3, <2>4, <2>5 DEF Alone
    <2> QED BY <1>0, <2>2, <2>6
  <1>4. CASE SetParent(t)
    <2>1. ~Fault("table") /\ ~Stale(t)
      BY <1>4 DEF SetParent, Fault, Alone, In
    <2>2. HeapKept
      BY <1>4, <2>1, SetParentKeeps DEF SetParent
    <2>3. \A i \in table'.spans : ~heap'[i].freed
      BY <1>4, <2>1, <2>2 DEF SetParent, HeapKept, Alone, TypeOK
    <2> QED BY <1>0, <1>4, <2>1, <2>3 DEF SetParent
  <1>5. CASE AddTag(t)
    <2>1. CASE ~(profiling /\ ~table.exists)
      <3>1. HeapKept
        BY <1>5, <2>1, AddTagKeeps DEF AddTag
      <3>2. \A i \in table'.spans : ~heap'[i].freed
        BY <1>5, <2>1, <3>1 DEF AddTag, HeapKept, Alone, TypeOK
      <3> QED BY <1>0, <1>5, <2>1, <3>2 DEF AddTag
    <2>2. CASE profiling /\ ~table.exists
      <3>1. call'[t].pc = "stuck"
        BY <1>5, <2>2, Calling DEF AddTag, Calls
      <3>2. /\ heap' = heap /\ table' = table /\ phase' = phase /\ root' = root /\ fault' = fault
            /\ call[t].pc = "tag"
        BY <1>5, <2>2 DEF AddTag, In
      <3> QED BY <3>1, <3>2, AloneStays DEF Alone
    <2> QED BY <2>1, <2>2
  <1>6. CASE Dump(t)
    <2>1. ~Stale(t)
      BY <1>6 DEF Dump, Alone, In
    <2>2. CASE Fault("dump")
      BY <2>2, AloneStays DEF Fault, Alone, Stale
    <2>3. CASE ~Fault("dump")
      <3>1. /\ ReturnOf(t) /\ fault' = fault /\ phase' = phase /\ heap' = heap /\ table' = table
            /\ root' = IF table.spans # {} THEN root
                       ELSE [req   |-> IF root = NoRoot THEN requests ELSE root.req,
                             dumps |-> Append(root.dumps, dumped + 1)]
        BY <1>6, <2>1, <2>3 DEF Dump
      <3>2. root # NoRoot
        BY <1>6 DEF Dump, In, Alone, NoRoot
      <3>3. root'.req = root.req
        BY <3>1, <3>2
      <3> QED BY <1>0, <3>1, <3>3 DEF Alone
    <2> QED BY <2>2, <2>3
  <1>7. CASE FreeSpans(t)
    <2>1. /\ call'[t].pc = "out" /\ phase'[t] = "clearing" /\ fault' = fault
          /\ table'.spans = {}
      BY <1>7 DEF FreeSpans, In, TypeOK
    <2> QED BY <2>1, AloneStays DEF Alone
  <1>8. CASE ClearRoot(t)
    <2>1. /\ call'[t].pc = "out" /\ phase'[t] = "idle" /\ fault' = fault
          /\ table' = table /\ heap' = heap
      BY <1>8 DEF ClearRoot, In, TypeOK
    <2> QED BY <2>1, AloneStays DEF Alone
  <1> QED BY <1>1, <1>2, <1>3, <1>4, <1>5, <1>6, <1>7, <1>8 DEF Step

LEMMA AloneInv ==
  ASSUME Shared, Alone, OneThread, ConstantsAssumption, [Next]_vars
  PROVE  Alone'
  <1> USE DEF Shared
  <1>0. TypeOK'
    BY TypeInv
  <1>1. CASE UNCHANGED vars
    BY <1>1 DEF vars, Alone, Stale
  <1>2. CASE Next
    <2>1. PICK t \in Thread : Action(t)
      BY <1>2, NextIsAction
    <2>2. ASSUME NEW op \in {"start", "dump", "end", "parent"}, NEW id \in Nat, Enter(t, op, id)
          PROVE  Alone'
      <3>1. call'[t] = [pc |-> op, id |-> id, gen |-> Gotten.gen, span |-> NoSpan]
        BY <2>2, Calling DEF Enter
      <3>2. /\ heap' = heap /\ phase' = phase /\ root' = root /\ fault' = fault
            /\ table' = Gotten /\ phase[t] = "running"
        BY <2>2 DEF Enter
      <3>3. table'.exists /\ table'.spans = table.spans
        BY <3>2 DEF Gotten, Created, TypeOK, TableInv
      <3>4. call'[t].pc = op /\ call'[t].gen = table'.gen
        BY <3>1, <3>2
      <3>5. ~Stale(t)'
        BY <3>3, <3>4 DEF Stale
      <3> QED BY <3>2, <3>3, <3>4, <3>5, AloneStays DEF Alone
    <2>3. ASSUME NEW id \in Nat, LockTag(t, id)
          PROVE  Alone'
      <3>1. call'[t].pc = "tag"
        BY <2>3, Calling DEF LockTag, Calls
      <3>2. /\ heap' = heap /\ phase' = phase /\ root' = root /\ fault' = fault /\ table' = table
            /\ phase[t] = "running"
        BY <2>3 DEF LockTag
      <3> QED BY <3>1, <3>2, AloneStays DEF Alone
    <2>4. CASE Toggle(t)
      BY <2>4 DEF Toggle, Alone, Stale
    <2>5. CASE BeginRequest(t)
      <3>1. /\ call'[t].pc = "out" /\ root'.req # 0 /\ heap' = heap /\ table' = table /\ fault' = fault
        BY <2>5 DEF BeginRequest, In, TypeOK
      <3> QED BY <3>1, AloneStays DEF Alone
    <2>6. CASE CloseRequest(t)
      <3>1. /\ call'[t].pc = "out" /\ phase'[t] = "closing" /\ heap' = heap /\ table' = table
            /\ fault' = fault
        BY <2>6 DEF CloseRequest, In, TypeOK
      <3> QED BY <3>1, AloneStays DEF Alone
    <2> QED BY <1>0, <2>1, <2>2, <2>3, <2>4, <2>5, <2>6, StepAlone DEF Action
  <1> QED BY <1>1, <1>2

LEMMA AloneAlways == OneThread => (Spec => [](Shared /\ Alone))
  <1> SUFFICES ASSUME OneThread
               PROVE  Spec => [](Shared /\ Alone)
    OBVIOUS
  <1>1. Init => Alone
    BY AloneInit
  <1>2. Shared /\ Alone /\ [Next]_vars => Alone'
    BY AloneInv, ConstantsAssumption
  <1> QED BY <1>1, <1>2, SharedAlways, PTL DEF Spec

\* In a process with one thread no function uses a span or a table that was
\* freed: opa_end_span takes the span out of the table it found it in, and no
\* request ends in the middle of a function (opa_api.c 118-175).
THEOREM NothingFreedIsUsed == OneThread => (Spec => []NoFreedAccess)
  <1>1. Alone => NoFreedAccess
    BY DEF Alone, NoFreedAccess
  <1> QED BY <1>1, AloneAlways, PTL
----------------------------------------------------------------------------
(* The promise of SpanApi, in terms of the table.                          *)

Live == \E t \in Thread : phase[t] = "running"
Shown(i) == [id |-> heap[i].id, tags |-> heap[i].tags, parent |-> heap[i].parent,
             dumps |-> heap[i].dumps]
Open  == IF Live THEN {Shown(i) : i \in OpenSpans} ELSE {}
Loose == IF Live THEN root.dumps ELSE <<>>

Same == Live' = Live /\ Open' = Open /\ Loose' = Loose /\ sent' = sent

LEMMA SameIsStutter ==
  ASSUME Same
  PROVE  UNCHANGED Api!vars
  BY DEF Same, Live, Open, Loose, Shown, Api!vars

\* What the program sees with one thread.
LEMMA Seen ==
  ASSUME TypeOK, OneThread, NEW t \in Thread
  PROVE  /\ Live = (phase[t] = "running")
         /\ call[t].pc # "sent" => OpenSpans = table.spans
         /\ call[t].pc = "sent" => OpenSpans = table.spans \ {call[t].span}
         /\ table.spans \subseteq DOMAIN heap
         /\ \A i \in OpenSpans : i \in table.spans
  <1>1. \A u \in Thread : u = t
    BY DEF OneThread
  <1>2. Live = (phase[t] = "running")
    BY <1>1 DEF Live
  <1>3. table.spans \subseteq DOMAIN heap
    BY DEF TypeOK
  <1>4. OpenSpans = {i \in table.spans : call[t].pc = "sent" => call[t].span # i}
    BY <1>1 DEF OpenSpans
  <1>5. /\ call[t].pc # "sent" => OpenSpans = table.spans
        /\ call[t].pc = "sent" => OpenSpans = table.spans \ {call[t].span}
        /\ \A i \in OpenSpans : i \in table.spans
    BY <1>4
  <1> QED BY <1>2, <1>3, <1>5

LEMMA SeenAfter ==
  ASSUME TypeOK', OneThread, NEW t \in Thread
  PROVE  /\ Live' = (phase'[t] = "running")
         /\ call'[t].pc # "sent" => OpenSpans' = table'.spans
         /\ call'[t].pc = "sent" => OpenSpans' = table'.spans \ {call'[t].span}
         /\ table'.spans \subseteq DOMAIN heap'
         /\ \A i \in OpenSpans' : i \in table'.spans
  <1>1. \A u \in Thread : u = t
    BY DEF OneThread
  <1>2. Live' = (phase'[t] = "running")
    BY <1>1 DEF Live
  <1>3. table'.spans \subseteq DOMAIN heap'
    BY DEF TypeOK
  <1>4. OpenSpans' = {i \in table'.spans : call'[t].pc = "sent" => call'[t].span # i}
    BY <1>1 DEF OpenSpans
  <1>5. /\ call'[t].pc # "sent" => OpenSpans' = table'.spans
        /\ call'[t].pc = "sent" => OpenSpans' = table'.spans \ {call'[t].span}
        /\ \A i \in OpenSpans' : i \in table'.spans
    BY <1>4
  <1> QED BY <1>2, <1>3, <1>5

\* A step that leaves what is shown of every open span.
LEMMA SameSpans ==
  ASSUME Live' = Live, OpenSpans' = OpenSpans, root' = root, sent' = sent,
         Live => \A i \in OpenSpans : Shown(i)' = Shown(i)
  PROVE  Same
  BY DEF Same, Open, Loose

\* What changing one open span does to the open spans.
LEMMA OneChanged ==
  ASSUME Shared, OpenSpans = table.spans, OpenSpans' = OpenSpans, Live, Live',
         NEW i \in table.spans, \A j \in table.spans : j # i => Shown(j)' = Shown(j)
  PROVE  /\ Shown(i) \in Open /\ Shown(i)' \in Open'
         /\ Open' = (Open \ {Shown(i)}) \cup {Shown(i)'}
  <1>1. Open = {Shown(j) : j \in table.spans}
    BY DEF Open
  <1>2. Open' = {Shown(j)' : j \in table.spans}
    BY DEF Open
  <1>3. \A j \in table.spans : Shown(j) = Shown(i) => j = i
    BY DEF Shown, Shared, TableInv
  <1>4. \A j \in table.spans : j # i => Shown(j) \in Open \ {Shown(i)} /\ Shown(j) \in Open'
    BY <1>1, <1>2, <1>3
  <1> QED BY <1>1, <1>2, <1>3, <1>4

\* The one step of a thread, and what it is to the program.
LEMMA EnterSeen ==
  ASSUME Shared, OneThread, TypeOK', NEW t \in Thread,
         NEW op \in {"start", "dump", "end", "parent"}, NEW id \in Nat, Enter(t, op, id)
  PROVE  Same
  <1> USE DEF Shared
  <1>1. call'[t].pc = op /\ call[t].pc = "out"
    BY Calling DEF Enter, In
  <1>2. /\ heap' = heap /\ phase' = phase /\ root' = root /\ sent' = sent
        /\ table'.spans = table.spans
    BY DEF Enter, Gotten, Created, TypeOK, TableInv
  <1>3. Live' = Live /\ OpenSpans = table.spans /\ OpenSpans' = table'.spans
    BY <1>1, <1>2, Seen, SeenAfter
  <1> QED BY <1>2, <1>3, SameSpans DEF Shown

LEMMA StartSpanSeen ==
  ASSUME Shared, Alone, OneThread, ConstantsAssumption, TypeOK', NEW t \in Thread, StartSpan(t)
  PROVE  Same \/ Api!Start
  <1> USE DEF Shared
  <1>0. PICK n : n = Len(heap) + 1
    OBVIOUS
  <1>1. ~Fault("table") /\ call[t].pc = "start"
    BY DEF StartSpan, Fault, Alone, In
  <1>2. PICK id \in NextIds, tags \in Tags :
          /\ heap' = Append(heap, NewSpan(id, tags, Found(id) = {}))
          /\ table' = [table EXCEPT !.spans = IF Found(id) = {} THEN @ \cup {n} ELSE @]
    BY <1>0, <1>1 DEF StartSpan
  <1>3. heap \in Seq(Span) /\ NewSpan(id, tags, Found(id) = {}) \in Span
    BY <1>2, Starting DEF TypeOK
  <1>4. heap'[n] = NewSpan(id, tags, Found(id) = {}) /\ \A i \in DOMAIN heap : heap'[i] = heap[i]
    BY <1>0, <1>2, <1>3, Appending
  <1>5. /\ phase' = phase /\ root' = root /\ sent' = sent /\ call'[t].pc = "out"
        /\ phase[t] = "running"
    BY <1>1, Leaving DEF StartSpan, Outside, Alone
  <1>6. /\ Live' /\ Live /\ OpenSpans = table.spans /\ OpenSpans' = table'.spans
        /\ table.spans \subseteq DOMAIN heap
    BY <1>1, <1>5, Seen, SeenAfter
  <1>7. \A i \in table.spans : Shown(i)' = Shown(i)
    BY <1>4, <1>6 DEF Shown
  <1>8. CASE Found(id) # {}
    <2>1. table'.spans = table.spans
      BY <1>2, <1>8 DEF TypeOK
    <2> QED BY <1>5, <1>6, <1>7, <2>1, SameSpans
  <1>9. CASE Found(id) = {}
    <2>1. table'.spans = table.spans \cup {n}
      BY <1>2, <1>9 DEF TypeOK
    <2> DEFINE new == Shown(n)'
    <2>0. new = [id |-> heap'[n].id, tags |-> heap'[n].tags, parent |-> heap'[n].parent,
                 dumps |-> heap'[n].dumps]
      BY DEF Shown
    <2>2. new.id = id /\ new.tags = tags /\ new.parent = NoId /\ new.dumps = <<>>
      BY <1>2, <1>4, <2>0, Starting
    <2> HIDE DEF new
    <2>3. Open = {Shown(i) : i \in table.spans}
      BY <1>6 DEF Open
    <2>4. Open' = {Shown(i)' : i \in table'.spans}
      BY <1>6 DEF Open
    <2>5. Open' = Open \cup {new}
      BY <1>7, <2>1, <2>3, <2>4 DEF new
    <2>6. \A o \in Open : o.id # new.id
      BY <1>9, <2>2, <2>3 DEF Found, Shown
    <2>7. new \in Open' \ Open
      BY <2>5, <2>6
    <2>8. /\ Live
          /\ \E s \in Open' \ Open :
               /\ s.tags \in Tags
               /\ s.parent = NoId
               /\ s.dumps = <<>>
               /\ \A o \in Open : o.id # s.id
               /\ Open' = Open \cup {s}
          /\ Live' = Live /\ Loose' = Loose /\ sent' = sent
      BY <1>5, <1>6, <2>2, <2>5, <2>6, <2>7 DEF Loose
    <2> QED BY <2>8 DEF Live, Open, Loose, Shown, Tags, NoId, Api!Start, Api!Tags, Api!NoId
  <1> QED BY <1>8, <1>9

LEMMA EndSpanSeen ==
  ASSUME Shared, Alone, OneThread, TypeOK', NEW t \in Thread, EndSpan(t)
  PROVE  Same \/ Api!End
  <1> USE DEF Shared
  <1>1. /\ heap' = heap /\ table' = table /\ phase' = phase /\ root' = root
        /\ call[t].pc = "end" /\ phase[t] = "running" /\ ~Fault("table")
    BY DEF EndSpan, Fault, In, Alone
  <1>2. Live /\ Live' /\ OpenSpans = table.spans
    BY <1>1, Seen, SeenAfter
  <1>3. CASE ReturnOf(t) /\ sent' = sent
    <2>1. call'[t].pc = "out"
      BY <1>3, Leaving DEF Outside
    <2>2. OpenSpans' = table'.spans
      BY <2>1, SeenAfter
    <2> QED BY <1>1, <1>2, <1>3, <2>2, SameSpans DEF Shown
  <1>4. ASSUME NEW i \in Found(call[t].id),
               sent' = Append(sent, SpanMessage(heap[i])),
               call' = [call EXCEPT ![t].pc = "sent", ![t].span = i]
        PROVE  Api!End
    <2>1. call'[t].pc = "sent" /\ call'[t].span = i
      BY <1>4, Calling DEF Calls
    <2>2. OpenSpans' = table.spans \ {i}
      BY <1>1, <2>1, SeenAfter
    <2>3. i \in table.spans /\ i \in DOMAIN heap
      BY DEF Found, TypeOK
    <2>4. \A j \in table.spans : Shown(j) = Shown(i) => j = i
      BY <2>3 DEF Shown, TableInv
    <2>5. Open = {Shown(j) : j \in table.spans}
      BY <1>2 DEF Open
    <2>6. Open' = {Shown(j) : j \in table.spans \ {i}}
      BY <1>1, <1>2, <2>2 DEF Open, Shown
    <2>7. Shown(i) \in Open /\ Open' = Open \ {Shown(i)}
      BY <2>3, <2>4, <2>5, <2>6
    <2>8. sent' = Append(sent, [kind |-> "span", span |-> Shown(i)])
      BY <1>4, <2>3 DEF SpanMessage, Shown
    <2>9. /\ \E s \in Open :
               /\ Open' = Open \ {s}
               /\ sent' = Append(sent, [kind |-> "span", span |-> s])
          /\ Live' = Live /\ Loose' = Loose
      BY <1>1, <1>2, <2>7, <2>8 DEF Loose
    <2> QED BY <2>9 DEF Live, Open, Loose, Shown, Api!End
  <1> QED BY <1>1, <1>3, <1>4 DEF EndSpan

LEMMA FreeSpanSeen ==
  ASSUME Shared, Alone, OneThread, TypeOK', NEW t \in Thread, FreeSpan(t)
  PROVE  Same
  <1> USE DEF Shared
  <1> DEFINE s == call[t].span
  <1>1. /\ ~Stale(t) /\ s \in table.spans /\ ~heap[s].freed /\ s \in DOMAIN heap
        /\ call[t].pc = "sent" /\ phase[t] = "running" /\ heap[s].id = call[t].id
    BY DEF FreeSpan, Alone, In, TypeOK, SentSpan
  <1>2. /\ ReturnOf(t) /\ phase' = phase /\ root' = root /\ sent' = sent
        /\ heap' = Freed(heap, {s})
        /\ table' = [table EXCEPT !.spans = @ \ Found(call[t].id)]
    BY <1>1 DEF FreeSpan, Fault
  <1>3. Found(call[t].id) = {s}
    BY <1>1 DEF Found, TableInv
  <1>4. table'.spans = table.spans \ {s}
    BY <1>2, <1>3 DEF TypeOK
  <1>5. call'[t].pc = "out"
    BY <1>2, Leaving DEF Outside
  <1>6. Live' = Live /\ OpenSpans = table.spans \ {s} /\ OpenSpans' = table'.spans
    BY <1>1, <1>2, <1>5, Seen, SeenAfter
  <1> HIDE DEF s
  <1>7. \A i \in DOMAIN heap : Shown(i)' = Shown(i)
    <2>1. heap \in Seq(Span)
      BY DEF TypeOK
    <2> QED BY <1>2, <2>1, Freeing DEF Shown
  <1> QED BY <1>2, <1>4, <1>6, <1>7, SameSpans DEF TypeOK

LEMMA SetParentSeen ==
  ASSUME Shared, Alone, OneThread, TypeOK', NEW t \in Thread, SetParent(t)
  PROVE  Same \/ Api!Describe
  <1> USE DEF Shared
  <1>1. /\ ~Fault("table") /\ call[t].pc = "parent" /\ phase[t] = "running"
    BY DEF SetParent, Fault, In, Alone
  <1>2. /\ ReturnOf(t) /\ phase' = phase /\ root' = root /\ sent' = sent /\ table' = table
    BY <1>1 DEF SetParent
  <1>3. PICK parent \in KnownIds :
          heap' = [i \in DOMAIN heap |-> IF i \in Found(call[t].id)
                                         THEN [heap[i] EXCEPT !.parent = parent]
                                         ELSE heap[i]]
    BY <1>1 DEF SetParent
  <1>4. call'[t].pc = "out"
    BY <1>2, Leaving DEF Outside
  <1>5. Live /\ Live' /\ OpenSpans = table.spans /\ OpenSpans' = table.spans
        /\ table.spans \subseteq DOMAIN heap
    BY <1>1, <1>2, <1>4, Seen, SeenAfter
  <1>6. CASE Found(call[t].id) = {}
    <2>1. \A i \in table.spans : Shown(i)' = Shown(i)
      BY <1>3, <1>5, <1>6 DEF Shown
    <2> QED BY <1>2, <1>5, <2>1, SameSpans
  <1>7. ASSUME NEW i \in Found(call[t].id)
        PROVE  Api!Describe
    <2>1. i \in table.spans /\ \A j \in table.spans : j # i => j \notin Found(call[t].id)
      BY DEF Found, TableInv
    <2>2. heap[i] \in Span
      BY SMTT(30), <1>5, <2>1 DEF TypeOK
    <2>3. Shown(i)' = [Shown(i) EXCEPT !.parent = Shown(i)'.parent]
      BY <1>3, <1>5, <2>1, <2>2 DEF Shown, Span
    <2>4. \A j \in table.spans : j # i => Shown(j)' = Shown(j)
      BY <1>3, <1>5, <2>1 DEF Shown
    <2>5. /\ Shown(i) \in Open /\ Shown(i)' \in Open'
          /\ Open' = (Open \ {Shown(i)}) \cup {Shown(i)'}
      BY <1>5, <2>1, <2>4, OneChanged
    <2>6. \E s \in Open : \E r \in Open' :
            Open' = (Open \ {s}) \cup {[s EXCEPT !.parent = r.parent]}
      BY <2>3, <2>5
    <2>7. Live' = Live /\ Loose' = Loose /\ sent' = sent
      BY <1>2, <1>5 DEF Loose
    <2> QED BY <2>6, <2>7 DEF Live, Open, Loose, Shown, Api!Describe
  <1> QED BY <1>6, <1>7

LEMMA AddTagSeen ==
  ASSUME Shared, Alone, OneThread, TypeOK', NEW t \in Thread, AddTag(t)
  PROVE  Same \/ Api!Describe
  <1> USE DEF Shared
  <1>1. /\ call[t].pc = "tag" /\ phase[t] = "running"
        /\ phase' = phase /\ root' = root /\ sent' = sent /\ table' = table
    BY DEF AddTag, In, Alone
  <1>2. CASE profiling /\ ~table.exists
    <2>1. heap' = heap /\ call'[t].pc = "stuck"
      BY <1>2, Calling DEF AddTag, Calls
    <2>2. Live' = Live /\ OpenSpans = table.spans /\ OpenSpans' = table.spans
      BY <1>1, <2>1, Seen, SeenAfter
    <2> QED BY <1>1, <2>1, <2>2, SameSpans DEF Shown
  <1>3. CASE ~(profiling /\ ~table.exists)
    <2>1. PICK k \in Key, v \in Value :
            heap' = [i \in DOMAIN heap |-> IF profiling /\ i \in Found(call[t].id)
                                           THEN WithTag(heap[i], k, v)
                                           ELSE heap[i]]
      BY <1>3 DEF AddTag
    <2>2. call'[t].pc = "out"
      BY <1>3, Leaving DEF AddTag, Outside
    <2>3. Live /\ Live' /\ OpenSpans = table.spans /\ OpenSpans' = table.spans
          /\ table.spans \subseteq DOMAIN heap
      BY <1>1, <2>2, Seen, SeenAfter
    <2>4. CASE ~profiling \/ Found(call[t].id) = {}
      <3>1. \A i \in table.spans : Shown(i)' = Shown(i)
        BY <2>1, <2>3, <2>4 DEF Shown
      <3> QED BY <1>1, <2>3, <3>1, SameSpans
    <2>5. ASSUME profiling, NEW i \in Found(call[t].id)
          PROVE  Api!Describe
      <3>1. i \in table.spans /\ \A j \in table.spans : j # i => j \notin Found(call[t].id)
        BY DEF Found, TableInv
      <3>2. heap[i] \in Span
        BY SMTT(30), <2>3, <3>1 DEF TypeOK
      <3>3. heap'[i] = WithTag(heap[i], k, v)
        BY <2>1, <2>3, <2>5, <3>1
      <3>4. Shown(i)' = [Shown(i) EXCEPT !.tags[k] = v]
        <4>1. heap'[i] = [heap[i] EXCEPT !.tags = [heap[i].tags EXCEPT ![k] = v]]
          BY <3>2, <3>3 DEF WithTag, Span
        <4>2. /\ heap'[i].id = heap[i].id /\ heap'[i].parent = heap[i].parent
              /\ heap'[i].dumps = heap[i].dumps
              /\ heap'[i].tags = [heap[i].tags EXCEPT ![k] = v]
          BY <3>2, <4>1 DEF Span
        <4> QED BY <4>2 DEF Shown
      <3>5. \A j \in table.spans : j # i => Shown(j)' = Shown(j)
        BY <2>1, <2>3, <3>1 DEF Shown
      <3>6. /\ Shown(i) \in Open /\ Shown(i)' \in Open'
            /\ Open' = (Open \ {Shown(i)}) \cup {Shown(i)'}
        BY <2>3, <3>1, <3>5, OneChanged
      <3>7. \E s \in Open : \E kk \in Key, vv \in Value :
              Open' = (Open \ {s}) \cup {[s EXCEPT !.tags[kk] = vv]}
        BY <3>4, <3>6
      <3>8. Live' = Live /\ Loose' = Loose /\ sent' = sent
        BY <1>1, <2>3 DEF Loose
      <3> QED BY <3>7, <3>8 DEF Live, Open, Loose, Shown, Api!Describe
    <2> QED BY <2>4, <2>5
  <1> QED BY <1>2, <1>3

LEMMA DumpSeen ==
  ASSUME Shared, Alone, OneThread, TypeOK', NEW t \in Thread, Dump(t)
  PROVE  Same \/ Api!Dump
  <1> USE DEF Shared
  <1>1. /\ call[t].pc = "dump" /\ phase[t] = "running" /\ ~Stale(t)
        /\ heap' = heap /\ table' = table /\ phase' = phase /\ sent' = sent
    BY DEF Dump, Fault, In, Alone
  <1>2. CASE Fault("dump")
    <2>1. call' = call /\ root' = root
      BY <1>2 DEF Fault
    <2>2. Live' = Live /\ OpenSpans' = OpenSpans
      BY <1>1, <2>1 DEF Live, OpenSpans
    <2> QED BY <1>1, <2>1, <2>2, SameSpans DEF Shown
  <1>3. CASE ~Fault("dump")
    <2>1. ReturnOf(t) /\ root' = IF table.spans # {} THEN root
                       ELSE [req   |-> IF root = NoRoot THEN requests ELSE root.req,
                             dumps |-> Append(root.dumps, dumped + 1)]
      BY <1>1, <1>3 DEF Dump
    <2>2. call'[t].pc = "out"
      BY <2>1, Leaving DEF Outside
    <2>3. Live /\ Live' /\ OpenSpans = table.spans /\ OpenSpans' = table.spans
      BY <1>1, <2>2, Seen, SeenAfter
    <2>4. CASE table.spans # {}
      BY <1>1, <2>1, <2>3, <2>4, SameSpans DEF Shown
    <2>5. CASE table.spans = {}
      <3>1. Open = {} /\ Open' = {}
        BY <2>3, <2>5 DEF Open
      <3>2. Loose = root.dumps /\ Loose' = Append(root.dumps, dumped + 1)
        BY <2>1, <2>3, <2>5 DEF Loose
      <3>3. root.dumps \in Seq(Nat) /\ dumped + 1 \in Nat
        <4>1. root \in [req : Nat, dumps : Seq(Nat)] /\ dumped \in Nat
          BY DEF TypeOK
        <4> QED BY <4>1
      <3>4. Len(Loose') = Len(Loose) + 1 /\ SubSeq(Loose', 1, Len(Loose)) = Loose
        BY <3>2, <3>3
      <3>5. Live' = Live
        BY <2>3
      <3> QED BY <1>1, <2>3, <3>1, <3>4, <3>5
              DEF Live, Open, Loose, Shown, Api!Dump, Api!OneMore
    <2> QED BY <2>4, <2>5
  <1> QED BY <1>2, <1>3

LEMMA LockTagSeen ==
  ASSUME Shared, OneThread, TypeOK', NEW t \in Thread, NEW id \in Nat, LockTag(t, id)
  PROVE  Same
  <1> USE DEF Shared
  <1>1. call'[t].pc = "tag" /\ call[t].pc = "out"
    BY Calling DEF LockTag, In, Calls
  <1>2. heap' = heap /\ phase' = phase /\ root' = root /\ sent' = sent /\ table' = table
    BY DEF LockTag
  <1>3. Live' = Live /\ OpenSpans = table.spans /\ OpenSpans' = table.spans
    BY <1>1, <1>2, Seen, SeenAfter
  <1> QED BY <1>2, <1>3, SameSpans DEF Shown

LEMMA RequestSeen ==
  ASSUME Shared, Alone, OneThread, TypeOK', NEW t \in Thread,
         Toggle(t) \/ BeginRequest(t) \/ CloseRequest(t) \/ FreeSpans(t) \/ ClearRoot(t)
  PROVE  Same \/ Api!Begin \/ Api!Finish
  <1> USE DEF Shared
  <1>1. CASE Toggle(t)
    BY <1>1, SameSpans DEF Toggle, Live, OpenSpans, Shown
  <1>2. CASE BeginRequest(t)
    <2>1. /\ phase[t] = "idle" /\ phase'[t] = "running" /\ call[t].pc = "out"
          /\ heap' = heap /\ table' = table /\ call' = call /\ sent' = sent
          /\ root'.dumps = <<>>
      BY <1>2 DEF BeginRequest, In, TypeOK
    <2>2. ~table.exists
      BY <2>1 DEF TableInv, OneThread
    <2>3. OpenSpans' = {} /\ Live = FALSE /\ Live' = TRUE
      BY <2>1, <2>2, Seen, SeenAfter DEF TableInv
    <2>4. Open = {} /\ Open' = {} /\ Loose = <<>> /\ Loose' = <<>>
      BY <2>1, <2>3 DEF Open, Loose
    <2>5. ~Live /\ Live' = TRUE /\ Open' = Open /\ Loose' = Loose /\ sent' = sent
      BY <2>1, <2>3, <2>4
    <2> QED BY <2>5 DEF Live, Open, Loose, Shown, Api!Begin
  <1>3. CASE CloseRequest(t)
    <2>1. phase[t] = "running" /\ phase'[t] = "closing" /\ root # NoRoot
      BY <1>3 DEF CloseRequest, TypeOK, Alone, NoRoot
    <2>2. sent' = Append(sent, [kind |-> "root", dumps |-> root.dumps])
      BY <1>3, <2>1 DEF CloseRequest, RootMessage
    <2>3. Live = TRUE /\ Live' = FALSE
      BY <2>1, Seen, SeenAfter
    <2>4. Open' = {} /\ Loose' = <<>> /\ Loose = root.dumps
      BY <2>3 DEF Open, Loose
    <2>5. Live /\ Live' = FALSE /\ Open' = {} /\ Loose' = <<>>
          /\ sent' = Append(sent, [kind |-> "root", dumps |-> Loose])
      BY <2>2, <2>3, <2>4
    <2> QED BY <2>5 DEF Live, Open, Loose, Shown, Api!Finish
  <1>4. CASE FreeSpans(t) \/ ClearRoot(t)
    <2>1. phase[t] # "running" /\ phase'[t] # "running" /\ sent' = sent
      BY <1>4 DEF FreeSpans, ClearRoot, TypeOK
    <2>2. Live = FALSE /\ Live' = FALSE
      BY <2>1, Seen, SeenAfter
    <2> QED BY <2>1, <2>2 DEF Same, Open, Loose
  <1> QED BY <1>1, <1>2, <1>3, <1>4

LEMMA Simulation ==
  ASSUME Shared, Alone, OneThread, ConstantsAssumption, [Next]_vars
  PROVE  [Api!Next]_(Api!vars)
  <1>0. TypeOK'
    BY TypeInv DEF Shared
  <1>1. CASE UNCHANGED vars
    <2>1. Same
      BY <1>1 DEF vars, Same, Live, Open, Loose, OpenSpans, Shown
    <2> QED BY <2>1, SameIsStutter
  <1>2. CASE Next
    <2>1. PICK t \in Thread : Action(t)
      BY <1>2, NextIsAction DEF Shared
    <2>2. \/ Same \/ Api!Begin \/ Api!Start \/ Api!Describe \/ Api!End \/ Api!Dump
          \/ Api!Finish
      BY <1>0, <2>1, EnterSeen, LockTagSeen, RequestSeen, StartSpanSeen, EndSpanSeen,
         FreeSpanSeen, SetParentSeen, AddTagSeen, DumpSeen
      DEF Action, Step
    <2>3. Api!Begin \/ Api!Start \/ Api!Describe \/ Api!End \/ Api!Dump \/ Api!Finish
            => Api!Next
      BY DEF Api!Next
    <2> QED BY <2>2, <2>3, SameIsStutter
  <1> QED BY <1>1, <1>2

\* In a process with one thread the functions keep the promise of SpanApi for
\* any program, even when two spans draw the same id: a span is sent once, by
\* its end, with the last tags and parent it was given, dumps made outside any
\* span go out with the root span of their own request and no dump with another
\* span than it was made in, and nothing of one request is left for the next
\* (opa_api.c 21-446, opa.c 5290-5567).
THEOREM SpansAsPromised == OneThread => (Spec => ImplementsSpanApi)
  <1> SUFFICES ASSUME OneThread
               PROVE  Spec => ImplementsSpanApi
    OBVIOUS
  <1>1. Init => Api!Init
    <2> SUFFICES ASSUME Init
                 PROVE  Api!Init
      OBVIOUS
    <2>1. ~Live /\ sent = <<>>
      BY DEF Init, Live
    <2>2. Open = {} /\ Loose = <<>>
      BY <2>1 DEF Open, Loose
    <2> QED BY <2>1, <2>2 DEF Live, Open, Loose, Shown, Api!Init
  <1>2. Shared /\ Alone /\ [Next]_vars => [Api!Next]_(Api!vars)
    BY Simulation, ConstantsAssumption
  <1> QED BY <1>1, <1>2, AloneAlways, PTL DEF Spec, ImplementsSpanApi, Api!Spec
=============================================================================
