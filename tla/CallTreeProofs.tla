-------------------------- MODULE CallTreeProofs --------------------------
(***************************************************************************)
(* Theorems about the call stack of the collector.  For any number of      *)
(* fibers: a call with a node ends it when it returns.  For one fiber: the *)
(* stack is that of the tracked calls, operations go to running calls, and *)
(* the list, the stack and the ids implement the tree of nested calls.     *)
(***************************************************************************)
EXTENDS CallTrackerProofs

SameNode(m, n) ==
  m.id = n.id /\ m.parent = n.parent /\ m.call = n.call /\ m.ended = n.ended

OnStack(c, i) == \E p \in DOMAIN c.stack : c.stack[p] = i

\* d is c with more operations, in nodes of the stack.
Kept(c, d) ==
  /\ d.active = c.active
  /\ d.stack = c.stack
  /\ DOMAIN d.calls = DOMAIN c.calls
  /\ \A i \in DOMAIN c.calls :
       /\ SameNode(d.calls[i], c.calls[i])
       /\ d.calls[i].ops # c.calls[i].ops => OnStack(c, i)

\* d is c with a node opened for operations outside any call.
Held(c, d, id) ==
  LET n == Len(c.calls) + 1 IN
    /\ d.active = c.active
    /\ c.stack = <<>> /\ d.stack = <<n>>
    /\ DOMAIN d.calls = DOMAIN c.calls \cup {n}
    /\ \A i \in DOMAIN c.calls : /\ SameNode(d.calls[i], c.calls[i])
                                 /\ d.calls[i].ops = c.calls[i].ops
    /\ d.calls[n].id = id /\ d.calls[n].parent = NoId /\ d.calls[n].call = NoCall
    /\ ~d.calls[n].ended

\* What any number of records does.
Recorded(c, d, id) == WellFormed(d) /\ (Kept(c, d) \/ Held(c, d, id))

LEMMA NothingRecorded ==
  ASSUME NEW c, WellFormed(c), NEW id
  PROVE  Recorded(c, c, id)
BY DEF Recorded, Kept, SameNode

LEMMA CollectorFields ==
  ASSUME NEW c, WellFormed(c)
  PROVE  /\ c.calls \in Seq(Node) /\ c.stack \in Seq(Nat) /\ c.sql \in Seq(Op)
         /\ c.active \in BOOLEAN
         /\ Len(c.calls) \in Nat /\ DOMAIN c.calls = 1..Len(c.calls)
         /\ Len(c.stack) \in Nat /\ DOMAIN c.stack = 1..Len(c.stack)
         /\ Len(c.calls) + 1 \notin DOMAIN c.calls
         /\ \A i \in DOMAIN c.calls :
              /\ c.calls[i] \in Node /\ c.calls[i].id \in Nat \ {NoId}
              /\ c.calls[i].parent \in Nat /\ c.calls[i].call \in Nat
              /\ c.calls[i].ended \in BOOLEAN /\ c.calls[i].ops \in Seq(Op)
         /\ \A p \in DOMAIN c.stack : c.stack[p] \in DOMAIN c.calls
         /\ c.stack # <<>> => /\ Len(c.stack) \in DOMAIN c.stack
                              /\ TopOf(c) = c.stack[Len(c.stack)]
                              /\ TopOf(c) \in DOMAIN c.calls
<1>1. c.calls \in Seq(Node) /\ c.stack \in Seq(Nat) /\ c.sql \in Seq(Op) /\ c.active \in BOOLEAN
  BY DEF WellFormed, CollectorType
<1>2. /\ Len(c.calls) \in Nat /\ DOMAIN c.calls = 1..Len(c.calls)
      /\ Len(c.stack) \in Nat /\ DOMAIN c.stack = 1..Len(c.stack)
      /\ Len(c.calls) + 1 \notin DOMAIN c.calls
  BY <1>1
<1>3. \A i \in DOMAIN c.calls : c.calls[i] \in Node
  BY <1>1
<1>4. \A i \in DOMAIN c.calls :
        /\ c.calls[i].id \in Nat \ {NoId} /\ c.calls[i].parent \in Nat /\ c.calls[i].call \in Nat
        /\ c.calls[i].ended \in BOOLEAN /\ c.calls[i].ops \in Seq(Op)
  BY <1>3 DEF Node
<1>5. \A p \in DOMAIN c.stack : c.stack[p] \in DOMAIN c.calls
  BY DEF WellFormed
<1>6. c.stack # <<>> => /\ Len(c.stack) \in DOMAIN c.stack
                        /\ TopOf(c) = c.stack[Len(c.stack)]
                        /\ TopOf(c) \in DOMAIN c.calls
  <2>1. c.stack # <<>> => Len(c.stack) \in DOMAIN c.stack
    BY <1>1
  <2> QED BY <2>1, <1>5 DEF TopOf
<1> QED BY <1>1, <1>2, <1>3, <1>4, <1>5, <1>6

LEMMA RecordedTransitive ==
  ASSUME NEW c, NEW d, NEW e, NEW id, WellFormed(c), Recorded(c, d, id), Recorded(d, e, id)
  PROVE  Recorded(c, e, id)
<1>1. WellFormed(d) /\ WellFormed(e) BY DEF Recorded
<1>2. CASE Kept(c, d) /\ Kept(d, e)
  BY <1>1, <1>2 DEF Recorded, Kept, SameNode, OnStack
<1>3. CASE Kept(c, d) /\ Held(d, e, id)
  <2>1. Len(d.calls) = Len(c.calls)
    BY <1>1, <1>3, CollectorFields DEF Kept
  <2>2. c.stack = <<>> /\ \A i : ~OnStack(c, i)
    BY <1>3, EmptySeq DEF Kept, Held, OnStack
  <2>3. Held(c, e, id)
    BY <1>3, <2>1, <2>2 DEF Kept, Held, SameNode
  <2> QED BY <1>1, <2>3 DEF Recorded
<1>4. CASE Held(c, d, id) /\ Kept(d, e)
  <2> DEFINE n == Len(c.calls) + 1
  <2>1. n \notin DOMAIN c.calls
    BY CollectorFields
  <2>2. d.stack = <<n>>
    BY <1>4 DEF Held
  <2>3. \A i \in DOMAIN c.calls : ~OnStack(d, i)
    BY <2>1, <2>2 DEF OnStack
  <2>4. DOMAIN d.calls = DOMAIN c.calls \cup {n} /\ DOMAIN e.calls = DOMAIN d.calls
    BY <1>4 DEF Held, Kept
  <2>5. \A i \in DOMAIN c.calls : SameNode(e.calls[i], c.calls[i]) /\ e.calls[i].ops = c.calls[i].ops
    BY <1>4, <2>3, <2>4 DEF Held, Kept, SameNode
  <2>6. SameNode(e.calls[n], d.calls[n])
    BY <1>4, <2>4 DEF Kept
  <2>7. Held(c, e, id)
    BY <1>4, <2>4, <2>5, <2>6 DEF Held, Kept, SameNode
  <2> QED BY <1>1, <2>7 DEF Recorded
<1>5. CASE Held(c, d, id) /\ Held(d, e, id)
  <2>1. d.stack = <<Len(c.calls) + 1>> /\ d.stack = <<>>
    BY <1>5 DEF Held
  <2> QED BY <2>1
<1> QED BY <1>2, <1>3, <1>4, <1>5 DEF Recorded

\* opa_enter_function puts a child of the top on the stack.
LEMMA EnterFunctionShape ==
  ASSUME NEW c, WellFormed(c), NEW id \in Nat \ {NoId}, NEW k \in Nat
  PROVE  /\ EnterFunction(c, id, k).stack = Append(c.stack, Len(c.calls) + 1)
         /\ EnterFunction(c, id, k).calls[Len(c.calls) + 1].parent =
              IF c.stack = <<>> THEN NoId ELSE c.calls[TopOf(c)].id
         /\ EnterFunction(c, id, k).calls[Len(c.calls) + 1].ops = <<>>
<1> DEFINE parent == IF c.stack = <<>> THEN NoId ELSE NodeAt(c, TopOf(c)).id
           node   == [id |-> id, parent |-> parent, call |-> k, ended |-> FALSE, ops |-> <<>>]
           e      == EnterFunction(c, id, k)
<1>1. c \in CollectorType BY DEF WellFormed
<1>2. c.calls \in Seq(Node) BY CollectorFields
<1>3. e = [c EXCEPT !.calls = Append(@, node), !.stack = Append(@, Len(c.calls) + 1)]
  BY Zenon DEF EnterFunction
<1>4. parent = IF c.stack = <<>> THEN NoId ELSE c.calls[TopOf(c)].id
  BY DEF NodeAt
<1>5. node.parent = parent /\ node.ops = <<>>
  OBVIOUS
<1> HIDE DEF node, parent, e
<1>6. e.calls = Append(c.calls, node) /\ e.stack = Append(c.stack, Len(c.calls) + 1)
  BY <1>1, <1>3 DEF CollectorType
<1>7. Append(c.calls, node)[Len(c.calls) + 1] = node
  BY <1>2
<1> QED BY <1>4, <1>5, <1>6, <1>7 DEF e

LEMMA RecordShape ==
  ASSUME NEW c, WellFormed(c), NEW kind \in {"sql", "http", "cache", "redis"},
         NEW k \in Nat, NEW id \in Nat \ {NoId}
  PROVE  Recorded(c, Record(c, kind, k, id), id)
<1> DEFINE d  == IF c.stack = <<>> /\ kind \in Stack THEN EnterFunction(c, id, NoCall) ELSE c
           op == [kind |-> kind, call |-> k]
           e  == [d EXCEPT !.calls[TopOf(d)].ops = Append(@, op),
                           !.sql = IF kind = "sql" THEN Append(@, op) ELSE @]
<1>1. Record(c, kind, k, id) = IF ~Recording(c) THEN c ELSE IF d.stack = <<>> THEN d ELSE e
  BY Zenon DEF Record
<1>2. WellFormed(Record(c, kind, k, id))
  BY RecordType
<1>3. Recorded(c, d, id)
  <2>1. CASE c.stack = <<>> /\ d = EnterFunction(c, id, NoCall)
    <3> DEFINE g == EnterFunction(c, id, NoCall)
    <3>1. NoCall \in Nat BY DEF NoCall
    <3>2. /\ WellFormed(g)
          /\ DOMAIN g.calls = DOMAIN c.calls \cup {Len(c.calls) + 1}
          /\ g.active = c.active
          /\ \A i \in DOMAIN c.calls : g.calls[i] = c.calls[i]
          /\ g.calls[Len(c.calls) + 1].id = id
          /\ g.calls[Len(c.calls) + 1].call = NoCall
          /\ ~g.calls[Len(c.calls) + 1].ended
      BY <3>1, EnterFunctionType
    <3>3. /\ g.stack = Append(c.stack, Len(c.calls) + 1)
          /\ g.calls[Len(c.calls) + 1].parent = NoId
      BY <2>1, <3>1, EnterFunctionShape
    <3> HIDE DEF g
    <3>4. g.stack = <<Len(c.calls) + 1>>
      BY <2>1, <3>3
    <3>5. Held(c, g, id)
      BY <2>1, <3>2, <3>3, <3>4 DEF Held, SameNode
    <3> QED BY <2>1, <3>2, <3>5 DEF Recorded, g
  <2>2. CASE d = c
    BY <2>2, NothingRecorded
  <2> QED BY <2>1, <2>2
<1> HIDE DEF d, op
<1>4. CASE d.stack = <<>>
  <2>1. Record(c, kind, k, id) \in {c, d}
    <3> HIDE DEF e
    <3> QED BY <1>1, <1>4
  <2> QED BY <1>3, <2>1, NothingRecorded
<1>5. CASE d.stack # <<>>
  <2>1. WellFormed(d)
    BY <1>3 DEF Recorded
  <2>2. d \in CollectorType
    BY <2>1 DEF WellFormed
  <2> DEFINE t    == TopOf(d)
             node == [d.calls[t] EXCEPT !.ops = Append(@, op)]
             cs   == [d.calls EXCEPT ![t] = node]
             sql  == IF kind = "sql" THEN Append(d.sql, op) ELSE d.sql
  <2>3. t \in DOMAIN d.calls /\ OnStack(d, t)
    BY <1>5, <2>1, CollectorFields DEF OnStack
  <2>4. d.calls[t] \in Node
    BY <2>1, <2>3, CollectorFields
  <2>5. e.active = d.active /\ e.stack = d.stack /\ e.calls = cs
    <3>1. e = [d EXCEPT !.calls = cs, !.sql = sql]
      <4>1. DOMAIN d = {"active", "calls", "stack", "sql"} BY <2>2 DEF CollectorType
      <4> QED BY <4>1, SMT
    <3> HIDE DEF cs, sql, e
    <3> QED BY <2>2, <3>1 DEF CollectorType
  <2>6. SameNode(node, d.calls[t])
    BY <2>4 DEF Node, SameNode
  <2> HIDE DEF node, sql, t
  <2>7. DOMAIN cs = DOMAIN d.calls /\ \A i \in DOMAIN d.calls : cs[i] = IF i = t THEN node ELSE d.calls[i]
    OBVIOUS
  <2> HIDE DEF cs, e
  <2>8. Kept(d, e)
    BY <2>3, <2>5, <2>6, <2>7 DEF Kept, SameNode
  <2>9. Recording(c) => Recorded(d, e, id)
    <3>1. Recording(c) => Record(c, kind, k, id) = e
      BY <1>1, <1>5
    <3> QED BY <1>2, <2>8, <3>1 DEF Recorded
  <2>10. Recording(c) => Recorded(c, e, id)
    BY <1>3, <2>9, RecordedTransitive
  <2>11. ~Recording(c) => Record(c, kind, k, id) = c
    BY <1>1
  <2>12. Recording(c) => Record(c, kind, k, id) = e
    BY <1>1, <1>5
  <2> QED BY <2>10, <2>11, <2>12, NothingRecorded
<1> QED BY <1>4, <1>5

\* The hook of a function only records.
LEMMA HookRecordsShape ==
  ASSUME NEW c, WellFormed(c), NEW fr \in Frame, NEW id \in Nat \ {NoId}
  PROVE  Recorded(c, HookRecords(c, fr, id), id)
<1> DEFINE r1 == Record(c, "http", fr.call, id)
           r2 == Record(r1, "http", fr.call, id)
           asked == IF CollectInternal /\ Observing THEN r2 ELSE c
<1>1. fr.call \in Nat BY DEF Frame
<1>2. Recorded(c, r1, id) BY <1>1, RecordShape
<1>3. Recorded(r1, r2, id) BY <1>1, <1>2, RecordShape DEF Recorded
<1>4. Recorded(c, r2, id) BY <1>2, <1>3, RecordedTransitive
<1>5. Recorded(c, asked, id) BY <1>4, NothingRecorded
<1>6. HookRecords(c, fr, id) = IF KindOf[fr.fn] = "mysqli" THEN Record(c, "sql", fr.call, id)
                               ELSE Record(asked, "http", fr.call, id)
  BY Zenon DEF HookRecords, MysqliRecords
<1> HIDE DEF asked
<1>7. Recorded(c, Record(c, "sql", fr.call, id), id) BY <1>1, RecordShape
<1>8. Recorded(asked, Record(asked, "http", fr.call, id), id)
  BY <1>1, <1>5, RecordShape DEF Recorded
<1>9. Recorded(c, Record(asked, "http", fr.call, id), id) BY <1>5, <1>8, RecordedTransitive
<1> QED BY <1>6, <1>7, <1>9

LEMMA EndRecordsShape ==
  ASSUME NEW c, WellFormed(c), NEW fr, NEW e, e.call \in Nat, NEW id \in Nat \ {NoId}
  PROVE  Recorded(c, EndRecords(c, e, fr, id), id)
<1> DEFINE d == IF e.kind \in Curl \/ KindOf[fr.fn] = "curl_exec"
                THEN Record(c, "http", e.call, id) ELSE c
<1>1. Recorded(c, d, id) BY RecordShape, NothingRecorded
<1>2. EndRecords(c, e, fr, id) = CASE e.kind = "apcu"  -> Record(d, "cache", e.call, id)
                                   [] e.kind = "redis" -> Record(d, "redis", e.call, id)
                                   [] OTHER            -> d
  BY Zenon DEF EndRecords
<1> HIDE DEF d
<1>3. ASSUME NEW kind \in {"cache", "redis"}
      PROVE  Recorded(c, Record(d, kind, e.call, id), id)
  <2>1. Recorded(d, Record(d, kind, e.call, id), id) BY <1>1, RecordShape DEF Recorded
  <2> QED BY <1>1, <2>1, RecordedTransitive
<1> QED BY <1>1, <1>2, <1>3

\* opa_exit_function with the id of node i ends that node, and pops it if it is
\* the top.
LEMMA ExitShape ==
  ASSUME NEW c, WellFormed(c), Ordered(c), NEW i \in DOMAIN c.calls, NEW d,
         d = ExitFunction(c, c.calls[i].id)
  PROVE  /\ WellFormed(d)
         /\ d.active = c.active
         /\ DOMAIN d.calls = DOMAIN c.calls
         /\ \A j \in DOMAIN c.calls :
              /\ d.calls[j].id = c.calls[j].id /\ d.calls[j].parent = c.calls[j].parent
              /\ d.calls[j].call = c.calls[j].call /\ d.calls[j].ops = c.calls[j].ops
              /\ d.calls[j].ended = (c.calls[j].ended \/ j = i)
         /\ d.stack = IF c.stack # <<>> /\ TopOf(c) = i
                      THEN SubSeq(c.stack, 1, Len(c.stack) - 1) ELSE c.stack
<1> DEFINE eid   == c.calls[i].id
           ended == [j \in DOMAIN c.calls |-> IF IsFound(c, eid, j)
                       THEN [c.calls[j] EXCEPT !.ended = TRUE] ELSE c.calls[j]]
           st    == IF c.stack # <<>> /\ NodeAt(c, TopOf(c)).id = eid
                    THEN SubSeq(c.stack, 1, Len(c.stack) - 1) ELSE c.stack
<1>1. c \in CollectorType BY DEF WellFormed
<1>2. \A j \in DOMAIN c.calls : c.calls[j].id = eid => j = i
  BY CollectorFields DEF Ordered
<1>3. \A j \in DOMAIN c.calls : IsFound(c, eid, j) <=> j = i
  BY <1>2, CollectorFields DEF IsFound, NodeAt
<1>4. d = [c EXCEPT !.calls = ended, !.stack = st]
  BY DEF ExitFunction, NodeAt
<1>5. st = IF c.stack # <<>> /\ TopOf(c) = i
           THEN SubSeq(c.stack, 1, Len(c.stack) - 1) ELSE c.stack
  BY <1>2, CollectorFields DEF NodeAt
<1>6. ASSUME NEW j \in DOMAIN c.calls
      PROVE  /\ ended[j].id = c.calls[j].id /\ ended[j].parent = c.calls[j].parent
             /\ ended[j].call = c.calls[j].call /\ ended[j].ops = c.calls[j].ops
             /\ ended[j].ended = (c.calls[j].ended \/ j = i)
  <2>1. c.calls[j] \in Node
    BY CollectorFields
  <2>2. CASE j = i
    <3>1. ended[j] = [c.calls[j] EXCEPT !.ended = TRUE]
      BY <1>3, <2>2
    <3> HIDE DEF ended
    <3> QED BY <2>1, <2>2, <3>1 DEF Node
  <2>3. CASE j # i
    <3>1. ended[j] = c.calls[j]
      BY <1>3, <2>3
    <3>2. c.calls[j].ended \in BOOLEAN
      BY CollectorFields
    <3> HIDE DEF ended
    <3> QED BY <2>3, <3>1, <3>2
  <2> QED BY <2>2, <2>3
<1>7. DOMAIN ended = DOMAIN c.calls
  OBVIOUS
<1>8. WellFormed(d)
  BY ExitFunctionType
<1> HIDE DEF ended, st
<1>9. d.active = c.active /\ d.calls = ended /\ d.stack = st
  BY <1>1, <1>4 DEF CollectorType
<1> QED BY <1>5, <1>6, <1>7, <1>8, <1>9

\* It does nothing for an id that no node has.
LEMMA ExitNothing ==
  ASSUME NEW c, NEW eid, \A i \in DOMAIN c.calls : c.calls[i].id # eid
  PROVE  ExitFunction(c, eid) = c
BY DEF ExitFunction, NodeAt

\* Around a return while profiling: records, the end of a node, records.
LEMMA AfterReturnShape ==
  ASSUME TypeOK, profiling => collector.active, frames[running] # <<>>,
         NEW id \in Nat \ {NoId}
  PROVE  profiling => \E h, x :
           /\ Recorded(collector, h, id)
           /\ IF Ends(Top) /\ table[Top.addr].id # NoId
              THEN x = ExitFunction(h, table[Top.addr].id) ELSE x = h
           /\ Recorded(x, AfterReturn(id), id)
<1> SUFFICES ASSUME profiling
             PROVE  \E h, x :
                      /\ Recorded(collector, h, id)
                      /\ IF Ends(Top) /\ table[Top.addr].id # NoId
                         THEN x = ExitFunction(h, table[Top.addr].id) ELSE x = h
                      /\ Recorded(x, AfterReturn(id), id)
  OBVIOUS
<1> DEFINE e == table[Top.addr]
           h == IF Top.hooked THEN HookRecords(collector, Top, id) ELSE collector
           x == IF Ends(Top) /\ e.id # NoId THEN ExitFunction(h, e.id) ELSE h
           r == IF Ends(Top) THEN EndRecords(x, e, Top, id) ELSE x
           f == IF Ends(Top) THEN FcallEnd(h, e, Top, id) ELSE h
<1>1. WellFormed(collector)
  BY DEF TypeOK, WellFormed, CollectorType
<1>2. Top \in Frame
  BY TopType
<1>3. Top.addr \in Address
  BY <1>2 DEF Frame
<1>4. e.call \in Nat
  BY <1>3 DEF TypeOK
<1>5. Recorded(collector, h, id)
  BY <1>1, <1>2, HookRecordsShape, NothingRecorded
<1> HIDE DEF h
<1>6. WellFormed(h)
  BY <1>5 DEF Recorded
<1>7. WellFormed(ExitFunction(h, e.id)) /\ ExitFunction(h, e.id).active = h.active
  BY <1>6, ExitFunctionType DEF Extends
<1>8. WellFormed(x) /\ x.active = h.active
  BY <1>6, <1>7
<1>9. f = r
  BY Zenon DEF FcallEnd, r, f, x
<1> HIDE DEF x, e
<1>10. Recorded(x, r, id)
  BY <1>4, <1>8, EndRecordsShape, NothingRecorded
<1> HIDE DEF r
<1>11. WellFormed(r) /\ r.active
  BY <1>5, <1>8, <1>10 DEF Recorded, Kept, Held
<1>12. AfterReturn(id) = IF "pdo" \in handlers[Top.fn] THEN PdoEnd(r, Top, id) ELSE r
  <2>1. AfterReturn(id) = IF "pdo" \in handlers[Top.fn] /\ profiling THEN PdoEnd(f, Top, id) ELSE f
    BY Zenon DEF AfterReturn, f, h, e
  <2> HIDE DEF f
  <2> QED BY <1>9, <2>1
<1>13. PdoEnd(r, Top, id) = Record(r, "sql", Top.call, id)
  BY <1>11, Zenon DEF PdoEnd
<1>14. Recorded(r, AfterReturn(id), id)
  <2>1. Top.call \in Nat
    BY <1>2 DEF Frame
  <2>2. Recorded(r, Record(r, "sql", Top.call, id), id)
    BY <1>11, <2>1, RecordShape
  <2> QED BY <1>11, <1>12, <1>13, <2>2, NothingRecorded
<1>15. Recorded(x, AfterReturn(id), id)
  BY <1>8, <1>10, <1>14, RecordedTransitive
<1>16. IF Ends(Top) /\ e.id # NoId THEN x = ExitFunction(h, e.id) ELSE x = h
  BY DEF x
<1> QED BY <1>5, <1>15, <1>16 DEF e

\* While profiling is off a return changes nothing.
LEMMA AfterReturnOff ==
  ASSUME ~profiling, NEW id
  PROVE  AfterReturn(id) = collector
<1>1. \A c, kind, k : Record(c, kind, k, id) = c
  BY DEF Record, Recording
<1>2. HookRecords(collector, Top, id) = collector
  BY <1>1 DEF HookRecords, MysqliRecords, Observing
<1>3. ~Ends(Top)
  BY DEF Ends, Observing
<1> QED BY <1>2, <1>3 DEF AfterReturn
-----------------------------------------------------------------------------
(* What a return does to the collector. *)

\* d is c after the end of the nodes with id eid and records with new id id.
Returned(c, d, id, eid) ==
  LET n    == Len(c.calls) + 1
      pops == c.stack # <<>> /\ c.calls[TopOf(c)].id = eid
      st   == IF pops THEN SubSeq(c.stack, 1, Len(c.stack) - 1) ELSE c.stack
  IN /\ \A i \in DOMAIN c.calls :
          /\ d.calls[i].id = c.calls[i].id /\ d.calls[i].parent = c.calls[i].parent
          /\ d.calls[i].call = c.calls[i].call
          /\ d.calls[i].ended = (c.calls[i].ended \/ c.calls[i].id = eid)
          /\ d.calls[i].ops # c.calls[i].ops => OnStack(c, i)
     /\ \/ DOMAIN d.calls = DOMAIN c.calls /\ d.stack = st
        \/ /\ DOMAIN d.calls = DOMAIN c.calls \cup {n} /\ st = <<>> /\ d.stack = <<n>>
           /\ d.calls[n].id = id /\ d.calls[n].parent = NoId /\ d.calls[n].call = NoCall
           /\ ~d.calls[n].ended

\* The nodes of a collector between the callbacks of a return keep their order.
LEMMA RecordedOrdered ==
  ASSUME NEW c, WellFormed(c), Ordered(c), NEW id, NEW d, Recorded(c, d, id),
         \A i \in DOMAIN c.calls : c.calls[i].id < id
  PROVE  Ordered(d)
<1>1. CASE Kept(c, d)
  BY <1>1 DEF Kept, SameNode, Ordered
<1>2. CASE Held(c, d, id)
  <2> DEFINE n == Len(c.calls) + 1
  <2>1. DOMAIN c.calls = 1..Len(c.calls) /\ Len(c.calls) \in Nat
    BY CollectorFields
  <2>2. \A i \in DOMAIN c.calls : d.calls[i].id = c.calls[i].id
    BY <1>2 DEF Held, SameNode
  <2>3. DOMAIN d.calls = DOMAIN c.calls \cup {n} /\ d.calls[n].id = id
    BY <1>2 DEF Held
  <2>4. \A i, j \in DOMAIN d.calls : i < j => i \in DOMAIN c.calls
    BY <2>1, <2>3
  <2> QED BY <2>2, <2>3, <2>4 DEF Ordered
<1> QED BY <1>1, <1>2 DEF Recorded

LEMMA ReturnedShape ==
  ASSUME NEW c, NEW h, NEW x, NEW d, NEW id, NEW eid \in Nat, WellFormed(c), Ordered(c),
         \A i \in DOMAIN c.calls : c.calls[i].id < id, eid < id,
         Recorded(c, h, id), Recorded(x, d, id),
         IF eid # NoId THEN x = ExitFunction(h, eid) ELSE x = h
  PROVE  Returned(c, d, id, eid)
<1> DEFINE n  == Len(c.calls) + 1
           st == IF c.stack # <<>> /\ c.calls[TopOf(c)].id = eid
                 THEN SubSeq(c.stack, 1, Len(c.stack) - 1) ELSE c.stack
<1>1. WellFormed(h) /\ Ordered(h) BY RecordedOrdered DEF Recorded
<1>2. /\ Len(c.calls) \in Nat /\ DOMAIN c.calls = 1..Len(c.calls) /\ n \notin DOMAIN c.calls
      /\ \A i \in DOMAIN c.calls : /\ c.calls[i].id # NoId
                                   /\ c.calls[i].ended \in BOOLEAN
      /\ \A p \in DOMAIN c.stack : c.stack[p] \in DOMAIN c.calls
      /\ c.stack # <<>> => TopOf(c) \in DOMAIN c.calls
  BY CollectorFields
<1>3. /\ Len(h.calls) \in Nat /\ DOMAIN h.calls = 1..Len(h.calls)
      /\ \A i \in DOMAIN h.calls : /\ h.calls[i].id # NoId
                                   /\ h.calls[i].ended \in BOOLEAN
      /\ \A p \in DOMAIN h.stack : h.stack[p] \in DOMAIN h.calls
      /\ h.stack # <<>> => TopOf(h) \in DOMAIN h.calls
  BY <1>1, CollectorFields
<1>4. /\ WellFormed(x) /\ DOMAIN x.calls = DOMAIN h.calls
      /\ \A j \in DOMAIN h.calls :
           /\ x.calls[j].id = h.calls[j].id /\ x.calls[j].parent = h.calls[j].parent
           /\ x.calls[j].call = h.calls[j].call /\ x.calls[j].ops = h.calls[j].ops
           /\ x.calls[j].ended = (h.calls[j].ended \/ h.calls[j].id = eid)
      /\ x.stack = IF h.stack # <<>> /\ h.calls[TopOf(h)].id = eid
                   THEN SubSeq(h.stack, 1, Len(h.stack) - 1) ELSE h.stack
  <2>1. CASE \E i \in DOMAIN h.calls : h.calls[i].id = eid
    <3>1. PICK i \in DOMAIN h.calls : h.calls[i].id = eid BY <2>1
    <3>2. x = ExitFunction(h, h.calls[i].id) BY <1>3, <3>1
    <3>3. \A j \in DOMAIN h.calls : h.calls[j].id = eid <=> j = i
      <4>1. \A j \in DOMAIN h.calls : h.calls[j].id \in Nat BY <1>1, CollectorFields
      <4>2. \A j \in DOMAIN h.calls : j < i \/ j = i \/ i < j BY <1>3
      <4> QED BY <1>1, <3>1, <4>1, <4>2 DEF Ordered
    <3>4. /\ WellFormed(x) /\ DOMAIN x.calls = DOMAIN h.calls
          /\ \A j \in DOMAIN h.calls :
               /\ x.calls[j].id = h.calls[j].id /\ x.calls[j].parent = h.calls[j].parent
               /\ x.calls[j].call = h.calls[j].call /\ x.calls[j].ops = h.calls[j].ops
               /\ x.calls[j].ended = (h.calls[j].ended \/ j = i)
          /\ x.stack = IF h.stack # <<>> /\ TopOf(h) = i
                       THEN SubSeq(h.stack, 1, Len(h.stack) - 1) ELSE h.stack
      BY <1>1, <3>2, ExitShape
    <3> QED BY <1>3, <3>3, <3>4
  <2>2. CASE ~\E i \in DOMAIN h.calls : h.calls[i].id = eid
    <3>1. x = h BY <2>2, ExitNothing
    <3> QED BY <1>1, <1>3, <2>2, <3>1
  <2> QED BY <2>1, <2>2
<1>5. CASE Kept(c, h)
  <2>1. /\ DOMAIN h.calls = DOMAIN c.calls /\ h.stack = c.stack /\ TopOf(h) = TopOf(c)
        /\ \A i \in DOMAIN c.calls :
             /\ SameNode(h.calls[i], c.calls[i])
             /\ h.calls[i].ops # c.calls[i].ops => OnStack(c, i)
    BY <1>5 DEF Kept, TopOf
  <2>2. x.stack = st
    BY <1>2, <1>4, <2>1 DEF SameNode
  <2>3. Len(x.calls) + 1 = n
    BY <1>2, <1>3, <1>4, <2>1, CollectorFields
  <2>4. \A i : OnStack(x, i) => OnStack(c, i)
    <3>1. c.stack \in Seq(Nat) BY CollectorFields
    <3>2. ASSUME c.stack # <<>>
          PROVE  LET s == SubSeq(c.stack, 1, Len(c.stack) - 1)
                 IN DOMAIN s \subseteq DOMAIN c.stack /\ \A p \in DOMAIN s : s[p] = c.stack[p]
      BY SMTT(30), <3>1, <3>2
    <3> QED BY <2>2, <3>2 DEF OnStack
  <2> HIDE DEF st
  <2>5. \A i \in DOMAIN c.calls :
          /\ x.calls[i].id = c.calls[i].id /\ x.calls[i].parent = c.calls[i].parent
          /\ x.calls[i].call = c.calls[i].call
          /\ x.calls[i].ended = (c.calls[i].ended \/ c.calls[i].id = eid)
          /\ x.calls[i].ops # c.calls[i].ops => OnStack(c, i)
    BY <1>4, <2>1 DEF SameNode
  <2>6. CASE Kept(x, d)
    <3>1. DOMAIN d.calls = DOMAIN c.calls /\ d.stack = st
      BY <1>4, <2>1, <2>2, <2>6 DEF Kept
    <3>2. \A i \in DOMAIN c.calls :
            /\ SameNode(d.calls[i], x.calls[i])
            /\ d.calls[i].ops # x.calls[i].ops => OnStack(c, i)
      BY <1>4, <2>1, <2>4, <2>6 DEF Kept
    <3>3. \A i \in DOMAIN c.calls :
            /\ d.calls[i].id = c.calls[i].id /\ d.calls[i].parent = c.calls[i].parent
            /\ d.calls[i].call = c.calls[i].call
            /\ d.calls[i].ended = (c.calls[i].ended \/ c.calls[i].id = eid)
            /\ d.calls[i].ops # c.calls[i].ops => OnStack(c, i)
      BY <2>5, <3>2 DEF SameNode
    <3> QED BY <3>1, <3>3 DEF Returned, st
  <2>7. CASE Held(x, d, id)
    <3>1. /\ DOMAIN d.calls = DOMAIN c.calls \cup {n} /\ st = <<>> /\ d.stack = <<n>>
          /\ d.calls[n].id = id /\ d.calls[n].parent = NoId /\ d.calls[n].call = NoCall
          /\ ~d.calls[n].ended
      <4> HIDE DEF n
      <4> QED BY <1>4, <2>1, <2>2, <2>3, <2>7 DEF Held
    <3>2. \A i \in DOMAIN c.calls : SameNode(d.calls[i], x.calls[i]) /\ d.calls[i].ops = x.calls[i].ops
      BY <1>4, <2>1, <2>7 DEF Held
    <3>3. \A i \in DOMAIN c.calls :
            /\ d.calls[i].id = c.calls[i].id /\ d.calls[i].parent = c.calls[i].parent
            /\ d.calls[i].call = c.calls[i].call
            /\ d.calls[i].ended = (c.calls[i].ended \/ c.calls[i].id = eid)
            /\ d.calls[i].ops # c.calls[i].ops => OnStack(c, i)
      BY <2>5, <3>2 DEF SameNode
    <3> QED BY <3>1, <3>3 DEF Returned, st
  <2> QED BY <2>6, <2>7 DEF Recorded
<1>6. CASE Held(c, h, id)
  <2>1. /\ DOMAIN h.calls = DOMAIN c.calls \cup {n} /\ c.stack = <<>> /\ h.stack = <<n>>
        /\ h.calls[n].id = id /\ h.calls[n].parent = NoId /\ h.calls[n].call = NoCall
        /\ ~h.calls[n].ended
    BY <1>6 DEF Held
  <2>2. st = <<>>
    BY <2>1
  <2>3. \A i \in DOMAIN c.calls : SameNode(h.calls[i], c.calls[i]) /\ h.calls[i].ops = c.calls[i].ops
    BY <1>6 DEF Held
  <2> HIDE DEF st
  <2>4. TopOf(h) = n /\ h.stack # <<>> /\ DOMAIN h.stack = {1} /\ h.stack[1] = n
    <3> HIDE DEF n
    <3>1. <<n>> # <<>> /\ Len(<<n>>) = 1 /\ <<n>>[1] = n /\ DOMAIN <<n>> = {1}
      OBVIOUS
    <3> QED BY <2>1, <3>1 DEF TopOf
  <2>5. eid # id
    <3>1. \E i \in DOMAIN h.calls : h.calls[i].id = id BY <2>1
    <3>2. id \in Nat BY <1>1, <3>1, CollectorFields
    <3> QED BY <3>2
  <2>6. x.stack = <<n>>
    BY <1>4, <2>1, <2>4, <2>5
  <2>7. Kept(x, d)
    BY <2>1, <2>4, <2>6 DEF Recorded, Held
  <2>8. \A i : OnStack(x, i) => i = n
    BY <2>1, <2>4, <2>6 DEF OnStack
  <2>9. \A i \in DOMAIN c.calls :
          /\ x.calls[i].id = c.calls[i].id /\ x.calls[i].parent = c.calls[i].parent
          /\ x.calls[i].call = c.calls[i].call
          /\ x.calls[i].ended = (c.calls[i].ended \/ c.calls[i].id = eid)
          /\ x.calls[i].ops = c.calls[i].ops
    BY <1>4, <2>1, <2>3 DEF SameNode
  <2>10. \A i \in DOMAIN x.calls :
           /\ SameNode(d.calls[i], x.calls[i])
           /\ d.calls[i].ops # x.calls[i].ops => i = n
    BY <2>7, <2>8 DEF Kept
  <2>11. DOMAIN d.calls = DOMAIN c.calls \cup {n} /\ d.stack = <<n>>
    BY <1>4, <2>1, <2>6, <2>7 DEF Kept
  <2>12. DOMAIN x.calls = DOMAIN c.calls \cup {n}
    BY <1>4, <2>1
  <2>13. /\ d.calls[n].id = id /\ d.calls[n].parent = NoId /\ d.calls[n].call = NoCall
         /\ ~d.calls[n].ended
    <3> HIDE DEF n
    <3>1. n \in DOMAIN h.calls /\ n \in DOMAIN x.calls BY <2>1, <2>12
    <3> QED BY <1>4, <2>1, <2>5, <2>10, <3>1 DEF SameNode
  <2>14. \A i \in DOMAIN c.calls :
           /\ d.calls[i].id = c.calls[i].id /\ d.calls[i].parent = c.calls[i].parent
           /\ d.calls[i].call = c.calls[i].call
           /\ d.calls[i].ended = (c.calls[i].ended \/ c.calls[i].id = eid)
           /\ d.calls[i].ops # c.calls[i].ops => OnStack(c, i)
    <3> HIDE DEF n
    <3> QED BY <1>2, <2>9, <2>10, <2>12 DEF SameNode, n
  <2> QED BY <2>2, <2>11, <2>13, <2>14 DEF Returned, st
<1> QED BY <1>5, <1>6 DEF Recorded

\* The return of a frame, off and on.
LEMMA ReturnStep ==
  ASSUME DistinctTicks, IInv, Ordered(collector), Return
  PROVE  /\ frames[running] # <<>> /\ Top.stage # "probe"
         /\ profiling => Returned(collector, collector', clock + 1, TopId)
         /\ ~profiling => collector' = collector
         /\ table' = IF Ends(Top) THEN [table EXCEPT ![Top.addr] = NoEntry] ELSE table
         /\ frames' = [frames EXCEPT ![running] = SubSeq(@, 1, Len(@) - 1)]
         /\ UNCHANGED <<profiling, running>>
<1>1. TypeOK BY DEF IInv
<1>2. PICK id \in NextIds : collector' = AfterReturn(id)
  BY DEF Return
<1>3. id = clock + 1 /\ clock \in Nat /\ id \in Nat \ {NoId}
  BY <1>1, <1>2 DEF NextIds, TypeOK, NoId
<1>4. /\ frames[running] # <<>> /\ Top.stage # "probe"
      /\ table' = IF Ends(Top) THEN [table EXCEPT ![Top.addr] = NoEntry] ELSE table
      /\ frames' = [frames EXCEPT ![running] = SubSeq(@, 1, Len(@) - 1)]
      /\ UNCHANGED <<profiling, running>>
  BY DEF Return
<1>5. ~profiling => collector' = collector
  BY <1>2, AfterReturnOff
<1>6. ASSUME profiling
      PROVE  Returned(collector, collector', id, TopId)
  <2>1. PICK h, x : /\ Recorded(collector, h, id)
                    /\ IF Ends(Top) /\ table[Top.addr].id # NoId
                       THEN x = ExitFunction(h, table[Top.addr].id) ELSE x = h
                    /\ Recorded(x, collector', id)
    BY <1>1, <1>2, <1>3, <1>4, <1>6, AfterReturnShape DEF IInv
  <2>2. IF TopId # NoId THEN x = ExitFunction(h, TopId) ELSE x = h
    BY <2>1 DEF TopId
  <2>3. TopId \in Nat /\ TopId < id
    <3>1. Top.addr \in Address BY <1>1, <1>4, TopType DEF Frame
    <3>2. table[Top.addr].id \in Nat /\ table[Top.addr].id <= clock
      BY <1>1, <3>1 DEF IInv, Bounded, TypeOK
    <3> QED BY <1>3, <3>2 DEF TopId, NoId
  <2>4. WellFormed(collector)
    BY <1>1 DEF TypeOK, WellFormed, CollectorType
  <2>5. \A i \in DOMAIN collector.calls : collector.calls[i].id < id
    BY <1>3, <2>4, CollectorFields DEF IInv, Bounded
  <2> DEFINE eid == TopId
             d   == collector'
  <2>6. eid \in Nat /\ eid < id /\ Recorded(x, d, id)
        /\ IF eid # NoId THEN x = ExitFunction(h, eid) ELSE x = h
    BY <2>1, <2>2, <2>3
  <2> HIDE DEF eid, d
  <2>7. Returned(collector, d, id, eid)
    BY <2>1, <2>4, <2>5, <2>6, ReturnedShape
  <2> QED BY <2>7 DEF d, eid
<1> QED BY <1>3, <1>4, <1>5, <1>6

\* A call: a frame above the others, and a child of the top if it is tracked.
LEMMA CallStep ==
  ASSUME DistinctTicks, IInv, NEW fn \in Function, Call(fn)
  PROVE  \E fr \in Frame, tracked \in BOOLEAN :
           /\ frames' = [frames EXCEPT ![running] = Append(@, fr)]
           /\ fr.call = made + 1
           /\ \A f \in Fiber : \A d \in DOMAIN frames[f] : frames[f][d].addr # fr.addr
           /\ \A a \in Address : a # fr.addr => table'[a] = table[a]
           /\ IF tracked
              THEN /\ profiling
                   /\ fr.id = clock + 1
                   /\ collector' = EnterFunction(collector, clock + 1, made + 1)
                   /\ fr.stage # "probe" => table'[fr.addr].id = clock + 1
              ELSE collector' = collector
           /\ UNCHANGED <<profiling, running>>
<1> DEFINE observed == "general" \in InstalledFor(fn) /\ Observing
           probes   == observed /\ KindOf[fn] = "redis"
           tracked  == observed /\ KindOf[fn] # "curl_info"
<1>1. PICK addr \in Address \ UNION {LiveAt(f) : f \in Fiber}, id \in NextIds :
        /\ frames' = [frames EXCEPT ![running] = Append(@,
             [fn |-> fn, addr |-> addr, call |-> made + 1,
              id |-> IF tracked THEN id ELSE NoId, own |-> guard,
              hooked |-> profiling /\ KindOf[fn] \in Hooked,
              stage |-> IF probes THEN "probe" ELSE "body"])]
        /\ collector' = IF tracked THEN EnterFunction(collector, id, made + 1) ELSE collector
        /\ table' = IF observed /\ ~probes
             THEN [table EXCEPT ![addr] = Entry(IF tracked THEN id ELSE NoId, made + 1, fn)]
             ELSE table
  BY DEF Call
<1>2. TypeOK BY DEF IInv
<1>3. id = clock + 1 /\ made \in Nat /\ clock \in Nat
  BY <1>2 DEF NextIds, TypeOK
<1>4. addr \in Address /\ \A f \in Fiber : \A d \in DOMAIN frames[f] : frames[f][d].addr # addr
  <2>1. \A f \in Fiber : addr \notin LiveAt(f) OBVIOUS
  <2>2. \A f \in Fiber : frames[f] \in Seq(Frame) BY <1>2 DEF TypeOK
  <2> QED BY <2>1, <2>2 DEF LiveAt, Depth
<1>5. (tracked => profiling /\ observed) /\ tracked \in BOOLEAN
  BY DEF Observing
<1>6. UNCHANGED <<profiling, running>>
  BY DEF Call
<1> HIDE DEF observed, probes, tracked
<1> DEFINE node == IF tracked THEN id ELSE NoId
           hk   == profiling /\ KindOf[fn] \in Hooked
           st   == IF probes THEN "probe" ELSE "body"
           fr   == [fn |-> fn, addr |-> addr, call |-> made + 1, id |-> node, own |-> guard,
                    hooked |-> hk, stage |-> st]
<1>7. fr \in Frame
  <2>1. node \in Nat /\ hk \in BOOLEAN /\ st \in {"probe", "body"} BY <1>3 DEF NoId
  <2>2. addr \in Address /\ made + 1 \in Nat \ {NoCall} /\ guard \in BOOLEAN
    BY <1>2, <1>3, <1>4 DEF TypeOK, NoCall
  <2> HIDE DEF node, hk, st
  <2> QED BY <2>1, <2>2 DEF Frame
<1>8. fr.addr = addr /\ fr.call = made + 1 /\ fr.id = node /\ fr.stage = st
  OBVIOUS
<1>9. frames' = [frames EXCEPT ![running] = Append(@, fr)] BY <1>1
<1> HIDE DEF fr, hk
<1>10. ~probes => st # "probe" OBVIOUS
<1>11. st # "probe" => ~probes OBVIOUS
<1>12. tracked => node = clock + 1 BY <1>3
<1> HIDE DEF st
<1>13. \A a \in Address : a # addr => table'[a] = table[a]
  <2> HIDE DEF node
  <2> QED BY <1>1, <1>2 DEF TypeOK
<1>14. tracked /\ ~probes => table'[addr].id = clock + 1
  <2>1. tracked /\ ~probes => table' = [table EXCEPT ![addr] = Entry(node, made + 1, fn)]
    BY <1>1, <1>5
  <2>2. Entry(node, made + 1, fn).id = node BY DEF Entry
  <2> HIDE DEF node
  <2> QED BY <1>2, <1>4, <1>12, <2>1, <2>2 DEF TypeOK
<1>15. collector' = IF tracked THEN EnterFunction(collector, clock + 1, made + 1) ELSE collector
  BY <1>1, <1>3
<1> QED BY <1>4, <1>5, <1>6, <1>7, <1>8, <1>9, <1>11, <1>12, <1>13, <1>14, <1>15
-----------------------------------------------------------------------------
(* The invariant behind ReturnEndsNode. *)

\* What returns with a node finds its entry in the table and the id of the node
\* in the entry.
LEMMA TrackedTopEnds ==
  ASSUME IInv, ProfileInv, profiling, frames[running] # <<>>, Top.stage # "probe",
         NEW i \in DOMAIN collector.calls, collector.calls[i].call = Top.call
  PROVE  Ends(Top) /\ TopId = collector.calls[i].id /\ TopId # NoId
<1>1. TypeOK BY DEF IInv
<1>2. /\ Top \in Frame /\ Depth(running) \in DOMAIN frames[running]
      /\ Top = frames[running][Depth(running)] /\ running \in Fiber
  BY <1>1, TopType DEF TypeOK
<1>3. collector.calls[i].id # NoId
  <2>1. WellFormed(collector) BY <1>1 DEF TypeOK, WellFormed, CollectorType
  <2> QED BY <2>1, CollectorFields
<1>4. Top.id = collector.calls[i].id
  BY <1>2 DEF ProfileInv, CallIds
<1>5. table[Top.addr].id = collector.calls[i].id
  BY <1>2 DEF ProfileInv, EntriesKept
<1>6. "general" \in handlers[Top.fn]
  BY <1>2, <1>3, <1>4 DEF IInv, TrackedObserved
<1>7. ~guard
  <2>1. guard => Top.own BY <1>1, GuardedTop DEF IInv
  <2>2. ~Top.own BY <1>2 DEF IInv, OwnUntracked
  <2> QED BY <2>1, <2>2
<1>8. Ends(Top)
  BY <1>3, <1>5, <1>6, <1>7 DEF Ends, Observing, IInv, NoEntry
<1> QED BY <1>3, <1>5, <1>8 DEF TopId


\* The calls and frames of a state of the invariant are numbered.
LEMMA Numbered ==
  ASSUME IInv
  PROVE  /\ WellFormed(collector)
         /\ clock \in Nat /\ made \in Nat
         /\ \A i \in DOMAIN collector.calls :
              /\ collector.calls[i].id \in Nat \ {NoId} /\ collector.calls[i].id <= clock
              /\ collector.calls[i].call \in Nat /\ collector.calls[i].call <= made
         /\ \A f \in Fiber : \A d \in DOMAIN frames[f] :
              /\ frames[f][d].addr \in Address
              /\ frames[f][d].call \in Nat \ {NoCall} /\ frames[f][d].call <= made
         /\ running \in Fiber
<1>1. TypeOK BY DEF IInv
<1>2. WellFormed(collector) BY <1>1 DEF TypeOK, WellFormed, CollectorType
<1>3. \A f \in Fiber : \A d \in DOMAIN frames[f] : frames[f][d] \in Frame
  <2>1. \A f \in Fiber : frames[f] \in Seq(Frame) BY <1>1 DEF TypeOK
  <2> QED BY <2>1
<1>4. \A f \in Fiber : \A d \in DOMAIN frames[f] :
        /\ frames[f][d].addr \in Address
        /\ frames[f][d].call \in Nat \ {NoCall} /\ frames[f][d].call <= made
  BY <1>3 DEF Frame, IInv, Bounded
<1>5. \A i \in DOMAIN collector.calls :
        /\ collector.calls[i].id \in Nat \ {NoId} /\ collector.calls[i].id <= clock
        /\ collector.calls[i].call \in Nat /\ collector.calls[i].call <= made
  BY <1>2, CollectorFields DEF IInv, Bounded
<1> QED BY <1>1, <1>2, <1>4, <1>5 DEF TypeOK

\* A call adds the newest frame and, if tracked, the newest node, with its id.
LEMMA CallProfileInv ==
  ASSUME DistinctTicks, IInv, ProfileInv, NEW fn \in Function, Call(fn)
  PROVE  ProfileInv'
<1>1. TypeOK BY DEF IInv
<1>2. PICK fr \in Frame, tracked \in BOOLEAN :
        /\ frames' = [frames EXCEPT ![running] = Append(@, fr)]
        /\ fr.call = made + 1
        /\ \A f \in Fiber : \A d \in DOMAIN frames[f] : frames[f][d].addr # fr.addr
        /\ \A a \in Address : a # fr.addr => table'[a] = table[a]
        /\ IF tracked
           THEN /\ profiling
                /\ fr.id = clock + 1
                /\ collector' = EnterFunction(collector, clock + 1, made + 1)
                /\ fr.stage # "probe" => table'[fr.addr].id = clock + 1
           ELSE collector' = collector
        /\ UNCHANGED <<profiling, running>>
  BY CallStep
<1> HIDE DEF Call
<1> DEFINE new == Depth(running) + 1
           n   == Len(collector.calls) + 1
<1>3. /\ \A f \in Fiber : \A d \in DOMAIN frames[f] :
             d \in DOMAIN frames'[f] /\ frames'[f][d] = frames[f][d]
      /\ Depth(running) \in Nat /\ DOMAIN frames[running] = 1..Depth(running)
      /\ \A f \in Fiber : \A d \in DOMAIN frames'[f] :
           \/ d \in DOMAIN frames[f] /\ frames'[f][d] = frames[f][d]
           \/ f = running /\ d = new /\ frames'[f][d] = fr
  BY <1>1, <1>2, PushedFrames
<1>4. /\ WellFormed(collector)
      /\ clock \in Nat /\ made \in Nat
      /\ \A i \in DOMAIN collector.calls :
           /\ collector.calls[i].id \in Nat \ {NoId} /\ collector.calls[i].id <= clock
           /\ collector.calls[i].call \in Nat /\ collector.calls[i].call <= made
      /\ \A f \in Fiber : \A d \in DOMAIN frames[f] :
           /\ frames[f][d].addr \in Address
           /\ frames[f][d].call \in Nat \ {NoCall} /\ frames[f][d].call <= made
  BY Numbered
<1>5. /\ Len(collector.calls) \in Nat /\ DOMAIN collector.calls = 1..Len(collector.calls)
  BY <1>4, CollectorFields
<1>6. /\ \A i \in DOMAIN collector.calls :
           i \in DOMAIN collector'.calls /\ collector'.calls[i] = collector.calls[i]
      /\ \A i \in DOMAIN collector'.calls :
           \/ i \in DOMAIN collector.calls
           \/ /\ tracked /\ i = n
              /\ collector'.calls[i].id = clock + 1 /\ collector'.calls[i].call = made + 1
  <2> DEFINE id == clock + 1
             k  == made + 1
             e  == EnterFunction(collector, id, k)
  <2>1. id \in Nat \ {NoId} /\ k \in Nat BY <1>4 DEF NoId
  <2>2. collector' = IF tracked THEN e ELSE collector BY <1>2
  <2> HIDE DEF id, k
  <2>0. WellFormed(collector) BY <1>4
  <2>3. /\ DOMAIN e.calls = DOMAIN collector.calls \cup {n}
        /\ \A i \in DOMAIN collector.calls : e.calls[i] = collector.calls[i]
        /\ e.calls[n].id = id /\ e.calls[n].call = k
    BY <2>0, <2>1, EnterFunctionType
  <2> HIDE DEF e, n
  <2> QED BY <2>2, <2>3 DEF id, k
<1>7. Ordered(collector')
  <2> SUFFICES ASSUME NEW i \in DOMAIN collector'.calls, NEW j \in DOMAIN collector'.calls, i < j
               PROVE  collector'.calls[i].id < collector'.calls[j].id
    BY DEF Ordered
  <2>1. i \in DOMAIN collector.calls BY <1>5, <1>6
  <2>2. CASE j \in DOMAIN collector.calls BY <1>6, <2>1, <2>2 DEF ProfileInv, Ordered
  <2>3. CASE j \notin DOMAIN collector.calls BY <1>4, <1>6, <2>1, <2>3
  <2> QED BY <2>2, <2>3
<1>8. CallsOrdered(collector')
  <2> SUFFICES ASSUME NEW i \in DOMAIN collector'.calls, NEW j \in DOMAIN collector'.calls, i < j,
                      collector'.calls[i].call # NoCall, collector'.calls[j].call # NoCall
               PROVE  collector'.calls[i].call < collector'.calls[j].call
    BY DEF CallsOrdered
  <2>1. i \in DOMAIN collector.calls BY <1>5, <1>6
  <2>2. CASE j \in DOMAIN collector.calls BY <1>6, <2>1, <2>2 DEF ProfileInv, CallsOrdered
  <2>3. CASE j \notin DOMAIN collector.calls BY <1>4, <1>6, <2>1, <2>3
  <2> QED BY <2>2, <2>3
<1>9. CallIds' /\ EntriesKept'
  <2> SUFFICES ASSUME NEW i \in DOMAIN collector'.calls, NEW f \in Fiber,
                      NEW d \in DOMAIN frames'[f],
                      frames'[f][d].call = collector'.calls[i].call
               PROVE  /\ frames'[f][d].id = collector'.calls[i].id
                      /\ profiling' /\ frames'[f][d].stage # "probe"
                           => table'[frames'[f][d].addr].id = collector'.calls[i].id
    BY DEF CallIds, EntriesKept
  <2>1. CASE i \in DOMAIN collector.calls
    <3>1. collector'.calls[i] = collector.calls[i] /\ collector.calls[i].call <= made
          /\ collector.calls[i].call \in Nat
      BY <1>4, <1>6, <2>1
    <3>2. frames'[f][d] # fr BY <1>2, <1>4, <3>1
    <3>3. d \in DOMAIN frames[f] /\ frames'[f][d] = frames[f][d] BY <1>3, <3>2
    <3>4. table'[frames[f][d].addr] = table[frames[f][d].addr] BY <1>2, <1>4, <3>3
    <3> QED BY <1>2, <2>1, <3>1, <3>3, <3>4 DEF ProfileInv, CallIds, EntriesKept
  <2>2. CASE i \notin DOMAIN collector.calls
    <3>1. tracked /\ collector'.calls[i].id = clock + 1 /\ collector'.calls[i].call = made + 1
      BY <1>6, <2>2
    <3>2. ~(d \in DOMAIN frames[f] /\ frames'[f][d] = frames[f][d]) BY <1>4, <3>1
    <3>3. frames'[f][d] = fr BY <1>3, <3>2
    <3> QED BY <1>2, <3>1, <3>3
  <2> QED BY <2>1, <2>2
<1>10. FramesOrdered'
  <2> SUFFICES ASSUME NEW f \in Fiber, NEW d \in DOMAIN frames'[f], NEW e \in DOMAIN frames'[f],
                      d < e
               PROVE  frames'[f][d].call < frames'[f][e].call
    BY DEF FramesOrdered
  <2>1. CASE e \in DOMAIN frames[f] /\ frames'[f][e] = frames[f][e]
    <3>1. d \in DOMAIN frames[f] /\ frames'[f][d] = frames[f][d]
      <4>1. ~(f = running /\ d = new) BY <1>3, <2>1
      <4> QED BY <1>3, <4>1
    <3> QED BY <2>1, <3>1 DEF ProfileInv, FramesOrdered
  <2>2. CASE f = running /\ e = new /\ frames'[f][e] = fr
    <3>1. d # new BY <1>3, <2>2
    <3>2. d \in DOMAIN frames[f] /\ frames'[f][d] = frames[f][d] BY <1>3, <3>1
    <3> QED BY <1>2, <1>4, <2>2, <3>2
  <2> QED BY <1>3, <2>1, <2>2
<1> QED BY <1>7, <1>8, <1>9, <1>10 DEF ProfileInv

\* A return drops a frame and its entry, and adds at most a node for no call.
LEMMA ReturnProfileInv ==
  ASSUME DistinctTicks, IInv, ProfileInv, Return
  PROVE  ProfileInv'
<1>1. TypeOK /\ Ordered(collector) BY DEF IInv, ProfileInv
<1>2. /\ frames[running] # <<>> /\ Top.stage # "probe"
      /\ profiling => Returned(collector, collector', clock + 1, TopId)
      /\ ~profiling => collector' = collector
      /\ table' = IF Ends(Top) THEN [table EXCEPT ![Top.addr] = NoEntry] ELSE table
      /\ frames' = [frames EXCEPT ![running] = SubSeq(@, 1, Len(@) - 1)]
      /\ UNCHANGED <<profiling, running>>
  BY <1>1, ReturnStep
<1>3. /\ \A f \in Fiber : \A d \in DOMAIN frames'[f] :
           /\ d \in DOMAIN frames[f]
           /\ frames'[f][d] = frames[f][d]
           /\ f = running => d # Depth(running)
  BY <1>1, <1>2, PoppedFrames
<1>4. /\ WellFormed(collector)
      /\ clock \in Nat /\ made \in Nat
      /\ \A i \in DOMAIN collector.calls :
           /\ collector.calls[i].id \in Nat \ {NoId} /\ collector.calls[i].id <= clock
           /\ collector.calls[i].call \in Nat /\ collector.calls[i].call <= made
      /\ \A f \in Fiber : \A d \in DOMAIN frames[f] :
           /\ frames[f][d].addr \in Address
           /\ frames[f][d].call \in Nat \ {NoCall} /\ frames[f][d].call <= made
      /\ running \in Fiber
  BY Numbered
<1>5. Len(collector.calls) \in Nat /\ DOMAIN collector.calls = 1..Len(collector.calls)
  BY <1>4, CollectorFields
<1> DEFINE n == Len(collector.calls) + 1
<1>6. /\ \A i \in DOMAIN collector.calls : /\ collector'.calls[i].id = collector.calls[i].id
                                           /\ collector'.calls[i].call = collector.calls[i].call
      /\ \A i \in DOMAIN collector'.calls :
           \/ i \in DOMAIN collector.calls
           \/ /\ i = n
              /\ collector'.calls[i].id = clock + 1 /\ collector'.calls[i].call = NoCall
  <2>1. CASE profiling
    <3>1. Returned(collector, collector', clock + 1, TopId) BY <1>2, <2>1
    <3> QED BY <3>1 DEF Returned
  <2>2. CASE ~profiling BY <1>2, <2>2
  <2> QED BY <2>1, <2>2
<1>7. Ordered(collector')
  <2> SUFFICES ASSUME NEW i \in DOMAIN collector'.calls, NEW j \in DOMAIN collector'.calls, i < j
               PROVE  collector'.calls[i].id < collector'.calls[j].id
    BY DEF Ordered
  <2>1. i \in DOMAIN collector.calls BY <1>5, <1>6
  <2>2. CASE j \in DOMAIN collector.calls BY <1>1, <1>6, <2>1, <2>2 DEF Ordered
  <2>3. CASE j \notin DOMAIN collector.calls BY <1>4, <1>6, <2>1, <2>3
  <2> QED BY <2>2, <2>3
<1>8. CallsOrdered(collector')
  BY <1>6 DEF ProfileInv, CallsOrdered
<1>9. CallIds' /\ EntriesKept'
  <2> SUFFICES ASSUME NEW i \in DOMAIN collector'.calls, NEW f \in Fiber,
                      NEW d \in DOMAIN frames'[f],
                      frames'[f][d].call = collector'.calls[i].call
               PROVE  /\ frames'[f][d].id = collector'.calls[i].id
                      /\ profiling' /\ frames'[f][d].stage # "probe"
                           => table'[frames'[f][d].addr].id = collector'.calls[i].id
    BY DEF CallIds, EntriesKept
  <2>1. d \in DOMAIN frames[f] /\ frames'[f][d] = frames[f][d] /\ (f = running => d # Depth(running))
    BY <1>3
  <2>2. i \in DOMAIN collector.calls
    BY <1>4, <1>6, <2>1
  <2>3. frames[f][d].addr # Top.addr
    <3>1. Top = frames[running][Depth(running)] /\ Depth(running) \in DOMAIN frames[running]
      BY <1>1, <1>2, TopType
    <3> QED BY <1>4, <2>1, <3>1 DEF IInv, DistinctAddresses
  <2>4. table'[frames[f][d].addr] = table[frames[f][d].addr]
    BY <1>2, <1>4, <2>1, <2>3
  <2>5. frames[f][d].call = collector.calls[i].call /\ collector'.calls[i].id = collector.calls[i].id
    BY <1>6, <2>1, <2>2
  <2>6. frames[f][d].id = collector.calls[i].id BY <2>1, <2>2, <2>5 DEF ProfileInv, CallIds
  <2>7. profiling /\ frames[f][d].stage # "probe" => table[frames[f][d].addr].id = collector.calls[i].id
    BY <2>1, <2>2, <2>5 DEF ProfileInv, EntriesKept
  <2>8. profiling' = profiling BY <1>2
  <2> QED BY <2>1, <2>4, <2>5, <2>6, <2>7, <2>8
<1>10. FramesOrdered'
  BY <1>3 DEF ProfileInv, FramesOrdered
<1> QED BY <1>7, <1>8, <1>9, <1>10 DEF ProfileInv


\* opa_enable and opa_disable change a stage only, besides the profile.
LEMMA ToggleStep ==
  ASSUME IInv, OpaEnable \/ OpaDisable
  PROVE  /\ \A f \in Fiber : DOMAIN frames'[f] = DOMAIN frames[f]
         /\ \A f \in Fiber : \A d \in DOMAIN frames[f] :
              /\ frames'[f][d].call = frames[f][d].call
              /\ frames'[f][d].id = frames[f][d].id
         /\ \/ OpaEnable /\ profiling' /\ collector' = Started
            \/ /\ OpaDisable /\ ~profiling'
               /\ collector'.calls = collector.calls /\ collector'.stack = collector.stack
         /\ UNCHANGED <<clock, running>>
<1>1. TypeOK BY DEF IInv
<1> DEFINE fr == [Top EXCEPT !.stage = "exit"]
<1>2. /\ frames[running] # <<>> /\ frames' = SetTop(fr)
      /\ UNCHANGED <<clock, running>>
  BY DEF OpaEnable, OpaDisable
<1>3. Top \in Frame /\ Top = frames[running][Depth(running)]
  BY <1>1, <1>2, TopType
<1>4. fr \in Frame /\ fr.call = Top.call /\ fr.id = Top.id
  BY <1>3 DEF Frame
<1> HIDE DEF fr
<1>5. /\ \A f \in Fiber : DOMAIN frames'[f] = DOMAIN frames[f]
      /\ \A f \in Fiber : \A d \in DOMAIN frames[f] :
           frames'[f][d] = IF f = running /\ d = Depth(running) THEN fr ELSE frames[f][d]
  BY <1>1, <1>2, <1>4, ChangedTop
<1>6. Stopped(collector).calls = collector.calls /\ Stopped(collector).stack = collector.stack
  BY <1>1 DEF TypeOK, Stopped
<1>7. \/ OpaEnable /\ profiling' /\ collector' = Started
      \/ /\ OpaDisable /\ ~profiling'
         /\ collector'.calls = collector.calls /\ collector'.stack = collector.stack
  BY <1>6 DEF OpaEnable, OpaDisable
<1> QED BY <1>2, <1>3, <1>4, <1>5, <1>7

\* The end of a probe changes a stage and stores the entry of the frame.
LEMMA FinishProbeStep ==
  ASSUME IInv, FinishProbe
  PROVE  /\ \A f \in Fiber : DOMAIN frames'[f] = DOMAIN frames[f]
         /\ \A f \in Fiber : \A d \in DOMAIN frames[f] :
              /\ frames'[f][d].call = frames[f][d].call
              /\ frames'[f][d].id = frames[f][d].id
              /\ frames'[f][d].addr = frames[f][d].addr
              /\ \/ frames'[f][d].stage = frames[f][d].stage
                    /\ table'[frames[f][d].addr] = table[frames[f][d].addr]
                 \/ table'[frames[f][d].addr].id = frames[f][d].id
         /\ UNCHANGED <<profiling, collector, running>>
<1>1. TypeOK BY DEF IInv
<1> DEFINE fr == [Top EXCEPT !.stage = "body"]
<1>2. /\ frames[running] # <<>> /\ frames' = SetTop(fr)
      /\ table' = [table EXCEPT ![Top.addr] = Entry(Top.id, Top.call, Top.fn)]
      /\ UNCHANGED <<profiling, collector, running>>
  BY DEF FinishProbe
<1>3. /\ Top \in Frame /\ Top = frames[running][Depth(running)] /\ running \in Fiber
      /\ Depth(running) \in DOMAIN frames[running]
  BY <1>1, <1>2, TopType DEF TypeOK
<1>4. fr \in Frame /\ fr.call = Top.call /\ fr.id = Top.id /\ fr.addr = Top.addr
  BY <1>3 DEF Frame
<1> HIDE DEF fr
<1>5. /\ \A f \in Fiber : DOMAIN frames'[f] = DOMAIN frames[f]
      /\ \A f \in Fiber : \A d \in DOMAIN frames[f] :
           frames'[f][d] = IF f = running /\ d = Depth(running) THEN fr ELSE frames[f][d]
  BY <1>1, <1>2, <1>4, ChangedTop
<1>6. Top.addr \in Address /\ table'[Top.addr].id = Top.id
  BY <1>1, <1>2, <1>3 DEF TypeOK, Entry, Frame
<1>7. ASSUME NEW f \in Fiber, NEW d \in DOMAIN frames[f], ~(f = running /\ d = Depth(running))
      PROVE  table'[frames[f][d].addr] = table[frames[f][d].addr]
  <2>1. frames[f][d].addr # Top.addr BY <1>3, <1>7 DEF IInv, DistinctAddresses
  <2>2. frames[f][d].addr \in Address BY Numbered
  <2> QED BY <1>1, <1>2, <2>1, <2>2 DEF TypeOK
<1>8. ASSUME NEW f \in Fiber, NEW d \in DOMAIN frames[f]
      PROVE  /\ frames'[f][d].call = frames[f][d].call
             /\ frames'[f][d].id = frames[f][d].id
             /\ frames'[f][d].addr = frames[f][d].addr
             /\ \/ frames'[f][d].stage = frames[f][d].stage
                   /\ table'[frames[f][d].addr] = table[frames[f][d].addr]
                \/ table'[frames[f][d].addr].id = frames[f][d].id
  <2>1. CASE f = running /\ d = Depth(running)
    <3>1. frames[f][d] = Top /\ frames'[f][d] = fr BY <1>3, <1>5, <2>1
    <3> QED BY <1>4, <1>6, <3>1
  <2>2. CASE ~(f = running /\ d = Depth(running))
    <3>1. frames'[f][d] = frames[f][d] BY <1>5, <2>2
    <3> QED BY <1>7, <2>2, <3>1
  <2> QED BY <2>1, <2>2
<1> QED BY <1>2, <1>5, <1>8

\* A request starts and ends without frames, and leaves no node.
LEMMA RequestStep ==
  ASSUME IInv, StartRequest \/ EndRequest
  PROVE  /\ \A f \in Fiber : frames[f] = <<>> /\ frames' = frames
         /\ DOMAIN frames[running] = {} /\ running' \in Fiber
         /\ \A f \in Fiber : DOMAIN frames[f] = {}
         /\ collector' \in {Started, Stopped(Started)}
<1>1. \A f \in Fiber : frames[f] = <<>> BY DEF StartRequest, EndRequest, IInv
<1>2. DOMAIN <<>> = {} BY EmptySeq
<1>3. running \in Fiber /\ running' \in Fiber
  BY ConstantsAssumption DEF StartRequest, EndRequest, IInv, TypeOK
<1>4. frames' = frames /\ collector' \in {Started, Stopped(Started)}
  BY DEF StartRequest, EndRequest
<1> QED BY <1>1, <1>2, <1>3, <1>4

\* Every step of the system preserves the invariant.
LEMMA ProfileInvNext == DistinctTicks /\ IInv /\ ProfileInv /\ [Next]_vars => ProfileInv'
<1> SUFFICES ASSUME DistinctTicks, IInv, ProfileInv, [Next]_vars PROVE ProfileInv' OBVIOUS
<1>1. ASSUME NEW fn \in Function, Call(fn) PROVE ProfileInv' BY <1>1, CallProfileInv
<1>2. CASE Return BY <1>2, ReturnProfileInv
<1>3. CASE FinishProbe
  <2>1. /\ \A f \in Fiber : DOMAIN frames'[f] = DOMAIN frames[f]
        /\ \A f \in Fiber : \A d \in DOMAIN frames[f] :
             /\ frames'[f][d].call = frames[f][d].call
             /\ frames'[f][d].id = frames[f][d].id
             /\ frames'[f][d].addr = frames[f][d].addr
             /\ \/ frames'[f][d].stage = frames[f][d].stage
                   /\ table'[frames[f][d].addr] = table[frames[f][d].addr]
                \/ table'[frames[f][d].addr].id = frames[f][d].id
        /\ UNCHANGED <<profiling, collector, running>>
    BY <1>3, FinishProbeStep
  <2>2. CallIds' BY <2>1 DEF ProfileInv, CallIds
  <2>3. EntriesKept'
    <3> SUFFICES ASSUME profiling, NEW i \in DOMAIN collector.calls, NEW f \in Fiber,
                        NEW d \in DOMAIN frames[f], frames[f][d].call = collector.calls[i].call,
                        frames'[f][d].stage # "probe"
                 PROVE  table'[frames[f][d].addr].id = collector.calls[i].id
      BY <2>1 DEF EntriesKept
    <3>1. frames[f][d].id = collector.calls[i].id BY DEF ProfileInv, CallIds
    <3>2. frames[f][d].stage # "probe" => table[frames[f][d].addr].id = collector.calls[i].id
      BY DEF ProfileInv, EntriesKept
    <3> QED BY <2>1, <3>1, <3>2
  <2>4. FramesOrdered' BY <2>1 DEF ProfileInv, FramesOrdered
  <2> QED BY <2>1, <2>2, <2>3, <2>4 DEF ProfileInv, Ordered, CallsOrdered
<1>4. CASE OpaEnable \/ OpaDisable
  <2>1. /\ \A f \in Fiber : DOMAIN frames'[f] = DOMAIN frames[f]
        /\ \A f \in Fiber : \A d \in DOMAIN frames[f] :
             /\ frames'[f][d].call = frames[f][d].call
             /\ frames'[f][d].id = frames[f][d].id
        /\ \/ OpaEnable /\ profiling' /\ collector' = Started
           \/ /\ OpaDisable /\ ~profiling'
              /\ collector'.calls = collector.calls /\ collector'.stack = collector.stack
    BY <1>4, ToggleStep
  <2>2. DOMAIN collector'.calls = {} \/ (~profiling' /\ collector'.calls = collector.calls)
    BY <2>1, StartedType
  <2>3. FramesOrdered' BY <2>1 DEF ProfileInv, FramesOrdered
  <2>4. CallIds' /\ EntriesKept' BY <2>1, <2>2 DEF ProfileInv, CallIds, EntriesKept
  <2>5. Ordered(collector') /\ CallsOrdered(collector')
    BY <2>2 DEF ProfileInv, Ordered, CallsOrdered
  <2> QED BY <2>3, <2>4, <2>5 DEF ProfileInv
<1>5. CASE StartRequest \/ EndRequest
  <2>1. (\A f \in Fiber : DOMAIN frames'[f] = {}) /\ DOMAIN collector'.calls = {}
    BY <1>5, RequestStep, StartedType
  <2> QED BY <2>1 DEF ProfileInv, Ordered, CallsOrdered, CallIds, EntriesKept, FramesOrdered
<1>6. ASSUME NEW f \in Fiber, Switch(f) PROVE ProfileInv'
  BY <1>6 DEF Switch, ProfileInv, Ordered, CallsOrdered, CallIds, EntriesKept, FramesOrdered
<1>7. CASE UNCHANGED vars
  BY <1>7 DEF vars, ProfileInv, Ordered, CallsOrdered, CallIds, EntriesKept, FramesOrdered
<1> QED BY <1>1, <1>2, <1>3, <1>4, <1>5, <1>6, <1>7 DEF Next, Finished

\* A process starts without calls and frames.
LEMMA ProfileInvInit == Init => ProfileInv
<1> SUFFICES ASSUME Init PROVE ProfileInv OBVIOUS
<1>1. (\A f \in Fiber : DOMAIN frames[f] = {}) /\ DOMAIN collector.calls = {}
  <2>1. DOMAIN <<>> = {} BY EmptySeq
  <2> QED BY <2>1, StartedType DEF Init
<1> QED BY <1>1 DEF ProfileInv, Ordered, CallsOrdered, CallIds, EntriesKept, FramesOrdered

\* With distinct ids, for any number of fibers: ids and calls of the nodes
\* increase, and a running call has kept the id of its node, in its frame and,
\* while profiling, in the table.
THEOREM ProfileInvariant == DistinctTicks /\ Spec => []ProfileInv
<1>1. CASE DistinctTicks
  <2>1. IInv /\ ProfileInv /\ [Next]_vars => ProfileInv' BY <1>1, ProfileInvNext
  <2>2. Spec => []ProfileInv BY <1>1, <2>1, ProfileInvInit, Invariant, PTL DEF Spec
  <2> QED BY <2>2
<1>2. CASE ~DistinctTicks BY <1>2
<1> QED BY <1>1, <1>2

\* The step form of ReturnEndsNode.
ReturnEnds ==
  \A i \in DOMAIN collector.calls :
       /\ profiling /\ ~guard
       /\ Depth(running) > 0
       /\ Len(frames'[running]) = Depth(running) - 1
       /\ collector.calls[i].call = Top.call
    => collector'.calls[i].ended

\* Only Return takes a frame away.
LEMMA PoppedByReturn ==
  ASSUME TypeOK, [Next]_vars, Depth(running) > 0, Len(frames'[running]) = Depth(running) - 1
  PROVE  Return
<1>2. Depth(running) \in Nat /\ Depth(running) = Len(frames[running]) /\ running \in Fiber
      /\ frames[running] \in Seq(Frame)
  BY DEF TypeOK, Depth
<1>3. Len(frames'[running]) # Len(frames[running])
  BY <1>2
<1>4. frames' # frames
  BY <1>3
<1>5. ASSUME NEW fn \in Function, Call(fn) PROVE FALSE
  <2>1. PICK fr : frames' = [frames EXCEPT ![running] = Append(@, fr)]
    BY <1>5 DEF Call
  <2>2. frames'[running] = Append(frames[running], fr)
    BY <1>2, <2>1 DEF TypeOK
  <2>3. Len(frames'[running]) = Len(frames[running]) + 1
    BY <1>2, <2>2
  <2> QED BY <1>2, <2>3
<1>6. ASSUME frames[running] # <<>>, NEW fr, frames' = SetTop(fr) PROVE FALSE
  <2>1. frames'[running] = [frames[running] EXCEPT ![Depth(running)] = fr]
    BY <1>2, <1>6 DEF SetTop, TypeOK
  <2>2. DOMAIN frames'[running] = 1..Len(frames[running])
    BY <1>2, <2>1
  <2>3. frames'[running] \in Seq(Frame) BY <1>2, TypeNext DEF TypeOK
  <2>4. Len(frames'[running]) = Len(frames[running])
    BY <1>2, <2>2, <2>3
  <2> QED BY <1>3, <2>4
<1>7. ~FinishProbe /\ ~OpaEnable /\ ~OpaDisable
  BY <1>6 DEF FinishProbe, OpaEnable, OpaDisable
<1>8. ~StartRequest /\ ~EndRequest /\ ~UNCHANGED vars /\ \A f \in Fiber : ~Switch(f)
  BY <1>4 DEF StartRequest, EndRequest, vars, Switch
<1> QED BY <1>5, <1>7, <1>8 DEF Next, Finished

\* From a state of the invariant, a return ends the node of its call.
LEMMA ReturnEndsStep == DistinctTicks /\ IInv /\ ProfileInv /\ [Next]_vars => ReturnEnds
<1> SUFFICES ASSUME DistinctTicks, IInv, ProfileInv, [Next]_vars,
                    NEW i \in DOMAIN collector.calls,
                    profiling, Depth(running) > 0, Len(frames'[running]) = Depth(running) - 1,
                    collector.calls[i].call = Top.call
             PROVE  collector'.calls[i].ended
  BY DEF ReturnEnds
<1>1. Return BY PoppedByReturn DEF IInv
<1>2. frames[running] # <<>> /\ Top.stage # "probe"
      /\ Returned(collector, collector', clock + 1, TopId)
  BY <1>1, ReturnStep DEF ProfileInv
<1>3. TopId = collector.calls[i].id
  BY <1>2, TrackedTopEnds
<1>4. collector'.calls[i].ended = (collector.calls[i].ended \/ collector.calls[i].id = TopId)
  BY <1>2 DEF Returned
<1> QED BY <1>3, <1>4

\* With distinct ids, a call with a node ends it when it returns, whatever the
\* fibers do and wherever its node is.
THEOREM ReturnEndsNodeHolds == DistinctTicks /\ Spec => ReturnEndsNode
<1>1. CASE DistinctTicks
  <2>1. IInv /\ ProfileInv /\ [Next]_vars => [ReturnEnds]_vars BY <1>1, ReturnEndsStep
  <2>2. Spec => [][ReturnEnds]_vars BY <1>1, <2>1, Invariant, ProfileInvariant, PTL DEF Spec
  <2> QED BY <2>2 DEF ReturnEndsNode, ReturnEnds
<1>2. CASE ~DistinctTicks BY <1>2
<1> QED BY <1>1, <1>2
-----------------------------------------------------------------------------
(* The call stack of a single fiber. *)

\* A new node is the child of the top and becomes the top.
LEMMA EnterStacked ==
  ASSUME NEW c, WellFormed(c), Stacked(c), NEW id \in Nat \ {NoId}, NEW k \in Nat \ {NoCall},
         NEW e, e = EnterFunction(c, id, k)
  PROVE  Stacked(e)
<1> DEFINE n == Len(c.calls) + 1
           m == Len(c.stack) + 1
<1>1. k \in Nat OBVIOUS
<1>2. /\ DOMAIN e.calls = DOMAIN c.calls \cup {n}
      /\ \A i \in DOMAIN c.calls : e.calls[i] = c.calls[i]
      /\ e.calls[n].id = id /\ e.calls[n].call = k /\ ~e.calls[n].ended
  BY EnterFunctionType
<1>3. /\ e.stack = Append(c.stack, n)
      /\ e.calls[n].parent = IF c.stack = <<>> THEN NoId ELSE c.calls[TopOf(c)].id
  BY EnterFunctionShape
<1>4. /\ Len(c.calls) \in Nat /\ DOMAIN c.calls = 1..Len(c.calls)
      /\ Len(c.stack) \in Nat /\ DOMAIN c.stack = 1..Len(c.stack)
      /\ c.stack \in Seq(Nat)
      /\ \A p \in DOMAIN c.stack : c.stack[p] \in DOMAIN c.calls
      /\ c.stack # <<>> => /\ Len(c.stack) \in DOMAIN c.stack
                           /\ TopOf(c) = c.stack[Len(c.stack)]
                           /\ TopOf(c) \in DOMAIN c.calls
  BY CollectorFields
<1>5. n \notin DOMAIN c.calls /\ \A i \in DOMAIN c.calls : i < n
  BY <1>4
<1>6. /\ DOMAIN e.stack = DOMAIN c.stack \cup {m}
      /\ \A p \in DOMAIN c.stack : e.stack[p] = c.stack[p] /\ p < m
      /\ e.stack[m] = n /\ m \notin DOMAIN c.stack
      /\ \A p \in DOMAIN c.stack : p # 1 => p - 1 \in DOMAIN c.stack
  <2> HIDE DEF n
  <2>1. DOMAIN e.stack = 1..m /\ e.stack[m] = n
        /\ \A p \in 1..Len(c.stack) : e.stack[p] = c.stack[p]
    BY <1>3, <1>4
  <2> DEFINE l == Len(c.stack)
  <2>2. l \in Nat /\ DOMAIN c.stack = 1..l /\ m = l + 1 BY <1>4
  <2> HIDE DEF l, m
  <2>3. 1..m = 1..l \cup {m} /\ m \notin 1..l /\ \A p \in 1..l : p < m /\ (p # 1 => p - 1 \in 1..l)
    BY <2>2
  <2> QED BY <2>1, <2>2, <2>3 DEF l
<1>7. c.stack = <<>> <=> m = 1
  BY <1>4
<1> HIDE DEF n, m
<1>8. \A p, q \in DOMAIN e.stack : p < q => e.stack[p] < e.stack[q]
  <2> SUFFICES ASSUME NEW p \in DOMAIN e.stack, NEW q \in DOMAIN e.stack, p < q
               PROVE  e.stack[p] < e.stack[q]
    OBVIOUS
  <2>1. p \in DOMAIN c.stack
    <3>1. \A r \in DOMAIN c.stack : ~(m < r) BY <1>4, <1>6 DEF m
    <3>2. ~(m < m) BY <1>4 DEF m
    <3> QED BY <1>6, <3>1, <3>2
  <2>2. CASE q \in DOMAIN c.stack BY <1>6, <2>1, <2>2 DEF Stacked
  <2>3. CASE q = m BY <1>4, <1>5, <1>6, <2>1, <2>3
  <2> QED BY <1>6, <2>2, <2>3
<1>9. ASSUME NEW i \in DOMAIN e.calls
      PROVE  ~e.calls[i].ended <=> \E p \in DOMAIN e.stack : e.stack[p] = i
  <2>1. CASE i \in DOMAIN c.calls
    <3>1. ~c.calls[i].ended <=> \E p \in DOMAIN c.stack : c.stack[p] = i BY <2>1 DEF Stacked
    <3>2. i # n /\ e.calls[i] = c.calls[i] BY <1>2, <1>5, <2>1
    <3> QED BY <1>6, <3>1, <3>2
  <2>2. CASE i = n BY <1>2, <1>6, <2>2
  <2> QED BY <1>2, <2>1, <2>2
<1>10. ASSUME NEW p \in DOMAIN e.stack
       PROVE  /\ e.calls[e.stack[p]].parent = IF p = 1 THEN NoId ELSE e.calls[e.stack[p - 1]].id
              /\ e.calls[e.stack[p]].call = NoCall => p = 1
  <2>1. CASE p \in DOMAIN c.stack
    <3>1. e.calls[e.stack[p]] = c.calls[c.stack[p]] BY <1>2, <1>4, <1>6, <2>1
    <3>2. p # 1 => e.calls[e.stack[p - 1]] = c.calls[c.stack[p - 1]] BY <1>2, <1>4, <1>6, <2>1
    <3> QED BY <2>1, <3>1, <3>2 DEF Stacked
  <2>2. CASE p = m
    <3>1. e.stack[p] = n BY <1>6, <2>2
    <3>2. m # 1 => e.stack[m - 1] = TopOf(c) /\ TopOf(c) \in DOMAIN c.calls
      BY <1>4, <1>6, <1>7 DEF m
    <3> QED BY <1>2, <1>3, <1>7, <2>2, <3>1, <3>2
  <2> QED BY <1>6, <2>1, <2>2
<1>11. ASSUME NEW i \in DOMAIN e.calls, e.calls[i].parent # NoId
       PROVE  \E j \in DOMAIN e.calls : j < i /\ e.calls[j].id = e.calls[i].parent
  <2>1. CASE i \in DOMAIN c.calls
    <3>1. PICK j \in DOMAIN c.calls : j < i /\ c.calls[j].id = c.calls[i].parent
      BY <1>2, <1>11, <2>1 DEF Stacked
    <3> QED BY <1>2, <2>1, <3>1
  <2>2. CASE i = n
    <3>1. c.stack # <<>> /\ e.calls[n].parent = c.calls[TopOf(c)].id BY <1>3, <1>11, <2>2
    <3> QED BY <1>2, <1>4, <1>5, <2>2, <3>1
  <2> QED BY <1>2, <2>1, <2>2
<1> QED BY <1>8, <1>9, <1>10, <1>11 DEF Stacked

\* If what ends is the top or nothing, the rest stays stacked.
LEMMA ReturnedStacked ==
  ASSUME NEW c, WellFormed(c), Ordered(c), Stacked(c), NEW d, NEW id, NEW eid,
         Returned(c, d, id, eid),
         \/ c.stack # <<>> /\ c.calls[TopOf(c)].id = eid
         \/ \A i \in DOMAIN c.calls : c.calls[i].id # eid
  PROVE  Stacked(d)
<1> DEFINE n  == Len(c.calls) + 1
           st == IF c.stack # <<>> /\ c.calls[TopOf(c)].id = eid
                 THEN SubSeq(c.stack, 1, Len(c.stack) - 1) ELSE c.stack
<1>1. /\ Len(c.calls) \in Nat /\ DOMAIN c.calls = 1..Len(c.calls)
      /\ Len(c.stack) \in Nat /\ DOMAIN c.stack = 1..Len(c.stack)
      /\ c.stack \in Seq(Nat)
      /\ \A p \in DOMAIN c.stack : c.stack[p] \in DOMAIN c.calls
      /\ c.stack # <<>> => /\ Len(c.stack) \in DOMAIN c.stack
                           /\ TopOf(c) = c.stack[Len(c.stack)]
                           /\ TopOf(c) \in DOMAIN c.calls
  BY CollectorFields
<1>2. \A i \in DOMAIN c.calls :
        /\ d.calls[i].id = c.calls[i].id /\ d.calls[i].parent = c.calls[i].parent
        /\ d.calls[i].call = c.calls[i].call
        /\ d.calls[i].ended = (c.calls[i].ended \/ c.calls[i].id = eid)
  BY DEF Returned
<1>3. \/ DOMAIN d.calls = DOMAIN c.calls /\ d.stack = st
      \/ /\ DOMAIN d.calls = DOMAIN c.calls \cup {n} /\ st = <<>> /\ d.stack = <<n>>
         /\ d.calls[n].parent = NoId /\ d.calls[n].call = NoCall /\ ~d.calls[n].ended
  BY DEF Returned
\* The stack without what ended: still increasing, the open nodes.
<1>4. /\ DOMAIN st \subseteq DOMAIN c.stack
      /\ \A p \in DOMAIN st : /\ st[p] = c.stack[p]
                              /\ p # 1 => p - 1 \in DOMAIN st
      /\ st \in Seq(Nat)
  <2>1. CASE c.stack # <<>> /\ c.calls[TopOf(c)].id = eid
    <3>1. st = SubSeq(c.stack, 1, Len(c.stack) - 1) BY <2>1
    <3> HIDE DEF st
    <3>2. Len(c.stack) - 1 \in Nat BY <1>1, <2>1
    <3>3. st \in Seq(Nat) /\ DOMAIN st = 1..Len(c.stack) - 1
          /\ \A p \in 1..Len(c.stack) - 1 : st[p] = c.stack[p]
      BY SMTT(30), <1>1, <3>1, <3>2
    <3> DEFINE l == Len(c.stack)
    <3>4. l \in Nat /\ l - 1 \in Nat BY <1>1, <3>2
    <3> HIDE DEF l
    <3>5. 1..l - 1 \subseteq 1..l /\ \A p \in 1..l - 1 : p # 1 => p - 1 \in 1..l - 1
      BY <3>4
    <3> QED BY <1>1, <3>3, <3>5 DEF l
  <2>2. CASE ~(c.stack # <<>> /\ c.calls[TopOf(c)].id = eid)
    <3>1. st = c.stack BY <2>2
    <3> HIDE DEF st
    <3> QED BY <1>1, <3>1
  <2> QED BY <2>1, <2>2
<1>5. \A i \in DOMAIN c.calls : ~d.calls[i].ended <=> \E p \in DOMAIN st : st[p] = i
  <2>1. CASE c.stack # <<>> /\ c.calls[TopOf(c)].id = eid
    <3>1. \A i \in DOMAIN c.calls : c.calls[i].id = eid <=> i = TopOf(c)
      <4>1. \A i \in DOMAIN c.calls : c.calls[i].id \in Nat BY CollectorFields
      <4>2. \A i, j \in DOMAIN c.calls : i < j \/ i = j \/ j < i BY <1>1
      <4>3. \A i, j \in DOMAIN c.calls : i # j => c.calls[i].id # c.calls[j].id
        BY <4>1, <4>2 DEF Ordered
      <4> QED BY <1>1, <2>1, <4>3
    <3>2. DOMAIN st = DOMAIN c.stack \ {Len(c.stack)}
      <4>1. st = SubSeq(c.stack, 1, Len(c.stack) - 1) BY <2>1
      <4>2. Len(c.stack) - 1 \in Nat BY <1>1, <2>1
      <4> HIDE DEF st
      <4>3. DOMAIN st = 1..Len(c.stack) - 1 BY SMTT(30), <1>1, <4>1, <4>2
      <4> QED BY <1>1, <4>2, <4>3
    <3> HIDE DEF st
    <3>3. \A p \in DOMAIN c.stack : c.stack[p] = TopOf(c) <=> p = Len(c.stack)
      <4>1. \A p \in DOMAIN c.stack : p < Len(c.stack) \/ p = Len(c.stack) BY <1>1
      <4>2. \A p \in DOMAIN c.stack : c.stack[p] \in Nat BY <1>1
      <4>3. Len(c.stack) \in DOMAIN c.stack /\ c.stack[Len(c.stack)] = TopOf(c) BY <1>1, <2>1
      <4>4. \A p \in DOMAIN c.stack : p < Len(c.stack) => c.stack[p] < c.stack[Len(c.stack)]
        BY <4>3 DEF Stacked
      <4> QED BY <4>1, <4>2, <4>3, <4>4
    <3> SUFFICES ASSUME NEW i \in DOMAIN c.calls
                 PROVE  ~d.calls[i].ended <=> \E p \in DOMAIN st : st[p] = i
      OBVIOUS
    <3>4. ~d.calls[i].ended <=> ~c.calls[i].ended /\ i # TopOf(c) BY <1>2, <3>1
    <3>5. ~c.calls[i].ended <=> \E p \in DOMAIN c.stack : c.stack[p] = i BY DEF Stacked
    <3>6. (\E p \in DOMAIN st : st[p] = i) <=>
            \E p \in DOMAIN c.stack : c.stack[p] = i /\ p # Len(c.stack)
      BY <1>4, <3>2
    <3> QED BY <3>3, <3>4, <3>5, <3>6
  <2>2. CASE ~(c.stack # <<>> /\ c.calls[TopOf(c)].id = eid)
    <3>1. st = c.stack BY <2>2
    <3> HIDE DEF st
    <3> QED BY <1>2, <2>2, <3>1 DEF Stacked
  <2> QED BY <2>1, <2>2
<1> HIDE DEF st
<1>6. CASE DOMAIN d.calls = DOMAIN c.calls /\ d.stack = st
  <2>1. \A p, q \in DOMAIN d.stack : p < q => d.stack[p] < d.stack[q]
    BY <1>4, <1>6 DEF Stacked
  <2>2. \A i \in DOMAIN d.calls : ~d.calls[i].ended <=> \E p \in DOMAIN d.stack : d.stack[p] = i
    BY <1>5, <1>6
  <2>3. ASSUME NEW p \in DOMAIN d.stack
        PROVE  /\ d.calls[d.stack[p]].parent = IF p = 1 THEN NoId ELSE d.calls[d.stack[p - 1]].id
               /\ d.calls[d.stack[p]].call = NoCall => p = 1
    <3>1. /\ p \in DOMAIN c.stack /\ d.stack[p] = c.stack[p] /\ c.stack[p] \in DOMAIN c.calls
          /\ p # 1 => /\ d.stack[p - 1] = c.stack[p - 1] /\ c.stack[p - 1] \in DOMAIN c.calls
      BY <1>1, <1>4, <1>6
    <3>2. /\ c.calls[c.stack[p]].parent = IF p = 1 THEN NoId ELSE c.calls[c.stack[p - 1]].id
          /\ c.calls[c.stack[p]].call = NoCall => p = 1
      BY <3>1 DEF Stacked
    <3> QED BY <1>2, <3>1, <3>2
  <2>4. ASSUME NEW i \in DOMAIN d.calls, d.calls[i].parent # NoId
        PROVE  \E j \in DOMAIN d.calls : j < i /\ d.calls[j].id = d.calls[i].parent
    <3>1. PICK j \in DOMAIN c.calls : j < i /\ c.calls[j].id = c.calls[i].parent
      BY <1>2, <1>6, <2>4 DEF Stacked
    <3> QED BY <1>2, <1>6, <2>4, <3>1
  <2> QED BY <2>1, <2>2, <2>3, <2>4 DEF Stacked
<1>7. CASE /\ DOMAIN d.calls = DOMAIN c.calls \cup {n} /\ st = <<>> /\ d.stack = <<n>>
           /\ d.calls[n].parent = NoId /\ d.calls[n].call = NoCall /\ ~d.calls[n].ended
  <2>1. DOMAIN d.stack = {1} /\ d.stack[1] = n
    <3> HIDE DEF n
    <3>1. DOMAIN <<n>> = {1} /\ <<n>>[1] = n OBVIOUS
    <3> QED BY <1>7, <3>1
  <2>2. DOMAIN st = {}
    BY <1>7, EmptySeq
  <2>3. n \notin DOMAIN c.calls
    BY <1>1
  <2> HIDE DEF n
  <2>4. \A p, q \in DOMAIN d.stack : p < q => d.stack[p] < d.stack[q]
    BY <2>1
  <2>5. \A i \in DOMAIN d.calls : ~d.calls[i].ended <=> \E p \in DOMAIN d.stack : d.stack[p] = i
    BY <1>5, <1>7, <2>1, <2>2, <2>3
  <2>6. \A p \in DOMAIN d.stack :
          /\ d.calls[d.stack[p]].parent = IF p = 1 THEN NoId ELSE d.calls[d.stack[p - 1]].id
          /\ d.calls[d.stack[p]].call = NoCall => p = 1
    BY <1>7, <2>1
  <2>7. ASSUME NEW i \in DOMAIN d.calls, d.calls[i].parent # NoId
        PROVE  \E j \in DOMAIN d.calls : j < i /\ d.calls[j].id = d.calls[i].parent
    <3>1. i \in DOMAIN c.calls BY <1>7, <2>7
    <3>2. PICK j \in DOMAIN c.calls : j < i /\ c.calls[j].id = c.calls[i].parent
      BY <1>2, <2>7, <3>1 DEF Stacked
    <3> QED BY <1>2, <1>7, <3>1, <3>2
  <2> QED BY <2>4, <2>5, <2>6, <2>7 DEF Stacked
<1> QED BY <1>3, <1>6, <1>7

\* What returns has the node on top of the stack and its id in the table, or no
\* node at all, and then no entry that leads to one.
LEMMA TopReturns ==
  ASSUME IInv, ProfileInv, StackInv, profiling, frames[running] # <<>>, Top.stage # "probe"
  PROVE  \/ /\ collector.stack # <<>>
            /\ collector.calls[TopOf(collector)].call = Top.call
            /\ collector.calls[TopOf(collector)].id = TopId
            /\ TopOf(collector) \in DOMAIN collector.calls
            /\ ~collector.calls[TopOf(collector)].ended
         \/ \A i \in DOMAIN collector.calls : /\ collector.calls[i].call # Top.call
                                              /\ collector.calls[i].id # TopId
<1> DEFINE c == collector
<1>1. TypeOK BY DEF IInv
<1>2. /\ Top = frames[running][Depth(running)] /\ running \in Fiber
      /\ Depth(running) \in DOMAIN frames[running]
      /\ \A d \in DOMAIN frames[running] : d < Depth(running) \/ d = Depth(running)
  <2>1. frames[running] \in Seq(Frame) BY <1>1 DEF TypeOK
  <2>2. \A d \in DOMAIN frames[running] : d < Depth(running) \/ d = Depth(running)
    BY <2>1 DEF Depth
  <2> QED BY <1>1, <2>2, TopType DEF TypeOK
<1>3. /\ WellFormed(c) /\ \A i \in DOMAIN c.calls : c.calls[i].call \in Nat /\ c.calls[i].id # NoId
      /\ \A d \in DOMAIN frames[running] : frames[running][d].call \in Nat \ {NoCall}
  BY <1>2, Numbered
<1>4. /\ DOMAIN c.calls = 1..Len(c.calls) /\ DOMAIN c.stack = 1..Len(c.stack)
      /\ Len(c.stack) \in Nat
      /\ \A p \in DOMAIN c.stack : c.stack[p] \in DOMAIN c.calls
      /\ c.stack # <<>> => /\ Len(c.stack) \in DOMAIN c.stack
                           /\ TopOf(c) = c.stack[Len(c.stack)]
                           /\ TopOf(c) \in DOMAIN c.calls
  BY <1>3, CollectorFields
<1>5. CASE \E i \in DOMAIN c.calls : c.calls[i].call = Top.call
  <2>1. PICK i \in DOMAIN c.calls : c.calls[i].call = Top.call BY <1>5
  <2>2. ~c.calls[i].ended BY <1>2, <2>1 DEF StackInv, RunningIsOpen
  <2>3. PICK p \in DOMAIN c.stack : c.stack[p] = i BY <2>1, <2>2 DEF StackInv, Stacked
  <2>4. c.stack # <<>> BY <2>3, EmptySeq
  <2>5. p = Len(c.stack)
    <3> SUFFICES ASSUME p # Len(c.stack) PROVE FALSE OBVIOUS
    <3> DEFINE q == Len(c.stack)
               j == c.stack[q]
    <3>1. q \in DOMAIN c.stack /\ p < q /\ q # 1 BY <1>4, <2>3, <2>4
    <3>2. j \in DOMAIN c.calls /\ i < j BY <1>4, <2>3, <3>1 DEF StackInv, Stacked
    <3>3. c.calls[j].call # NoCall BY <3>1 DEF StackInv, Stacked
    <3>4. PICK d \in DOMAIN frames[running] : frames[running][d].call = c.calls[j].call
      BY <3>1, <3>3 DEF StackInv, StackLives
    <3>5. c.calls[i].call < c.calls[j].call
      BY <1>2, <1>3, <2>1, <3>2, <3>3 DEF ProfileInv, CallsOrdered
    <3>6. frames[running][d].call < Top.call \/ frames[running][d].call = Top.call
      BY <1>2, <3>4 DEF ProfileInv, FramesOrdered
    <3> QED BY <1>2, <1>3, <2>1, <3>2, <3>4, <3>5, <3>6
  <2>6. i = TopOf(c) BY <1>4, <2>3, <2>4, <2>5
  <2>7. TopId = c.calls[i].id BY <2>1, TrackedTopEnds
  <2> QED BY <2>1, <2>2, <2>4, <2>6, <2>7
<1>6. CASE ~\E i \in DOMAIN c.calls : c.calls[i].call = Top.call
  <2> SUFFICES ASSUME NEW i \in DOMAIN c.calls, c.calls[i].id = TopId PROVE FALSE
    BY <1>6
  <2>1. table[Top.addr].id = c.calls[i].id BY <1>3 DEF TopId
  <2>2. c.calls[i].call = Top.call BY <2>1, TopEntryIsOwn
  <2> QED BY <1>6, <2>2
<1> QED BY <1>5, <1>6

\* A tracked call becomes the top of the stack, an untracked one has no node.
LEMMA CallStackInv ==
  ASSUME DistinctTicks, IInv, ProfileInv, StackInv, NEW fn \in Function, Call(fn)
  PROVE  StackInv'
<1>1. TypeOK BY DEF IInv
<1>2. PICK fr \in Frame, tracked \in BOOLEAN :
        /\ frames' = [frames EXCEPT ![running] = Append(@, fr)]
        /\ fr.call = made + 1
        /\ IF tracked
           THEN profiling /\ collector' = EnterFunction(collector, clock + 1, made + 1)
           ELSE collector' = collector
        /\ UNCHANGED <<profiling, running>>
  BY CallStep
<1> HIDE DEF Call
<1> DEFINE new == Depth(running) + 1
           n   == Len(collector.calls) + 1
<1>3. /\ \A d \in DOMAIN frames[running] :
             d \in DOMAIN frames'[running] /\ frames'[running][d] = frames[running][d]
      /\ new \in DOMAIN frames'[running] /\ frames'[running][new] = fr
      /\ \A d \in DOMAIN frames'[running] :
           \/ d \in DOMAIN frames[running] /\ frames'[running][d] = frames[running][d]
           \/ frames'[running][d] = fr
  <2>1. running \in Fiber BY <1>1 DEF TypeOK
  <2> QED BY <1>1, <1>2, <2>1, PushedFrames
<1> HIDE DEF new
<1>4. /\ WellFormed(collector) /\ clock \in Nat /\ made \in Nat
      /\ \A i \in DOMAIN collector.calls : /\ collector.calls[i].call \in Nat
                                           /\ collector.calls[i].call <= made
      /\ \A d \in DOMAIN frames[running] : /\ frames[running][d].call \in Nat
                                           /\ frames[running][d].call <= made
  BY Numbered
<1>5. \A p \in DOMAIN collector.stack : collector.stack[p] \in DOMAIN collector.calls
  BY <1>4, CollectorFields
<1>6. /\ Stacked(collector')
      /\ \A i \in DOMAIN collector.calls : collector'.calls[i] = collector.calls[i]
      /\ \A i \in DOMAIN collector'.calls :
           \/ i \in DOMAIN collector.calls
           \/ /\ i = n /\ ~collector'.calls[i].ended
              /\ collector'.calls[i].call = made + 1
      /\ \A p \in DOMAIN collector'.stack :
           \/ p \in DOMAIN collector.stack /\ collector'.stack[p] = collector.stack[p]
           \/ collector'.stack[p] = n /\ collector'.calls[n].call = made + 1
  <2>1. CASE tracked
    <3> DEFINE id == clock + 1
               k  == made + 1
               c  == collector
               e  == EnterFunction(c, id, k)
    <3>1. id \in Nat \ {NoId} /\ k \in Nat \ {NoCall} BY <1>4 DEF NoId, NoCall
    <3>2. collector' = e BY <1>2, <2>1
    <3>3. WellFormed(c) /\ Stacked(c) BY <1>4 DEF StackInv
    <3> HIDE DEF id, k, c
    <3>4. Stacked(e) BY <3>1, <3>3, EnterStacked
    <3>5. k \in Nat BY <3>1
    <3>6. /\ DOMAIN e.calls = DOMAIN c.calls \cup {Len(c.calls) + 1}
          /\ \A i \in DOMAIN c.calls : e.calls[i] = c.calls[i]
          /\ e.calls[Len(c.calls) + 1].call = k
          /\ ~e.calls[Len(c.calls) + 1].ended
      BY <3>1, <3>3, <3>5, EnterFunctionType
    <3>7. e.stack = Append(c.stack, Len(c.calls) + 1)
      BY <3>1, <3>3, <3>5, EnterFunctionShape
    <3>8. \A p \in DOMAIN e.stack :
            \/ p \in DOMAIN c.stack /\ e.stack[p] = c.stack[p]
            \/ e.stack[p] = Len(c.calls) + 1
      <4>1. c.stack \in Seq(Nat) BY <3>3, CollectorFields
      <4> HIDE DEF e
      <4> QED BY <3>7, <4>1
    <3> HIDE DEF e
    <3> QED BY <3>2, <3>4, <3>6, <3>8 DEF c, k
  <2>2. CASE ~tracked
    BY <1>2, <2>2 DEF StackInv
  <2> QED BY <2>1, <2>2
<1> HIDE DEF n
<1>7. StackLives'
  <2> SUFFICES ASSUME profiling, NEW p \in DOMAIN collector'.stack,
                      collector'.calls[collector'.stack[p]].call # NoCall
               PROVE  \E d \in DOMAIN frames'[running] :
                        frames'[running][d].call = collector'.calls[collector'.stack[p]].call
    BY <1>2 DEF StackLives
  <2>1. CASE p \in DOMAIN collector.stack /\ collector'.stack[p] = collector.stack[p]
    <3>1. collector'.calls[collector.stack[p]] = collector.calls[collector.stack[p]]
      BY <1>5, <1>6, <2>1
    <3>2. PICK d \in DOMAIN frames[running] :
            frames[running][d].call = collector.calls[collector.stack[p]].call
      BY <2>1, <3>1 DEF StackInv, StackLives
    <3> QED BY <1>3, <2>1, <3>1, <3>2
  <2>2. CASE collector'.stack[p] = n /\ collector'.calls[n].call = made + 1
    BY <1>2, <1>3, <2>2
  <2> QED BY <1>6, <2>1, <2>2
<1>8. RunningIsOpen'
  <2> SUFFICES ASSUME profiling, NEW i \in DOMAIN collector'.calls,
                      NEW d \in DOMAIN frames'[running],
                      frames'[running][d].call = collector'.calls[i].call
               PROVE  ~collector'.calls[i].ended
    BY <1>2 DEF RunningIsOpen
  <2>1. CASE i \in DOMAIN collector.calls
    <3>1. collector'.calls[i] = collector.calls[i] /\ collector.calls[i].call # made + 1
      BY <1>4, <1>6, <2>1
    <3>2. d \in DOMAIN frames[running] /\ frames'[running][d] = frames[running][d]
      BY <1>2, <1>3, <3>1
    <3> QED BY <2>1, <3>1, <3>2 DEF StackInv, RunningIsOpen
  <2>2. CASE i \notin DOMAIN collector.calls BY <1>6, <2>2
  <2> QED BY <2>1, <2>2
<1> QED BY <1>6, <1>7, <1>8 DEF StackInv

\* A return takes its node off the stack, if it has one.
LEMMA ReturnStackInv ==
  ASSUME DistinctTicks, IInv, ProfileInv, StackInv, Return
  PROVE  StackInv'
<1>1. TypeOK /\ Ordered(collector) BY DEF IInv, ProfileInv
<1>2. /\ frames[running] # <<>> /\ Top.stage # "probe"
      /\ profiling => Returned(collector, collector', clock + 1, TopId)
      /\ ~profiling => collector' = collector
      /\ frames' = [frames EXCEPT ![running] = SubSeq(@, 1, Len(@) - 1)]
      /\ UNCHANGED <<profiling, running>>
  BY <1>1, ReturnStep
<1>3. CASE ~profiling
  BY <1>2, <1>3 DEF StackInv, StackLives, RunningIsOpen
<1>4. CASE profiling
  <2> DEFINE c == collector
             d == collector'
             n == Len(c.calls) + 1
  <2>1. /\ \A e \in DOMAIN frames'[running] : /\ e \in DOMAIN frames[running]
                                              /\ frames'[running][e] = frames[running][e]
                                              /\ e # Depth(running)
        /\ \A e \in DOMAIN frames[running] : e # Depth(running) =>
             e \in DOMAIN frames'[running] /\ frames'[running][e] = frames[running][e]
        /\ Top = frames[running][Depth(running)] /\ Depth(running) \in DOMAIN frames[running]
        /\ running \in Fiber
    <3>1. running \in Fiber BY <1>1 DEF TypeOK
    <3> QED BY <1>1, <1>2, <3>1, PoppedFrames, TopType
  <2>2. /\ WellFormed(c)
        /\ \A e \in DOMAIN frames[running] : frames[running][e].call \in Nat \ {NoCall}
    BY <2>1, Numbered
  <2>3. /\ \A i \in DOMAIN c.calls : c.calls[i].id \in Nat /\ c.calls[i].call \in Nat
        /\ \A p \in DOMAIN c.stack : c.stack[p] \in DOMAIN c.calls
        /\ Len(c.stack) \in Nat /\ DOMAIN c.stack = 1..Len(c.stack) /\ c.stack \in Seq(Nat)
        /\ Len(c.calls) \in Nat /\ DOMAIN c.calls = 1..Len(c.calls)
        /\ c.stack # <<>> => /\ TopOf(c) = c.stack[Len(c.stack)]
                             /\ Len(c.stack) \in DOMAIN c.stack
    BY <2>2, CollectorFields
  <2>4. \/ /\ c.stack # <<>> /\ c.calls[TopOf(c)].call = Top.call
           /\ c.calls[TopOf(c)].id = TopId /\ TopOf(c) \in DOMAIN c.calls
        \/ \A i \in DOMAIN c.calls : c.calls[i].call # Top.call /\ c.calls[i].id # TopId
    BY <1>2, <1>4, TopReturns
  <2>5. Returned(c, d, clock + 1, TopId)
    BY <1>2, <1>4
  <2>6. Stacked(d)
    <3>1. Ordered(c) /\ Stacked(c) BY <1>1 DEF StackInv
    <3>2. \/ c.stack # <<>> /\ c.calls[TopOf(c)].id = TopId
          \/ \A i \in DOMAIN c.calls : c.calls[i].id # TopId
      BY <2>4
    <3> DEFINE eid == TopId
               id  == clock + 1
    <3> HIDE DEF eid, c, d, id
    <3>3. Returned(c, d, id, eid) BY <2>5 DEF eid, id
    <3>4. \/ c.stack # <<>> /\ c.calls[TopOf(c)].id = eid
          \/ \A i \in DOMAIN c.calls : c.calls[i].id # eid
      BY <3>2 DEF eid
    <3> QED BY <2>2, <3>1, <3>3, <3>4, ReturnedStacked
\* A node of a call that has not returned is not the one that ended.
  <2>7. \A i \in DOMAIN c.calls : \A e \in DOMAIN frames'[running] :
          frames'[running][e].call = c.calls[i].call => c.calls[i].id # TopId
    <3> SUFFICES ASSUME NEW i \in DOMAIN c.calls, NEW e \in DOMAIN frames'[running],
                        frames'[running][e].call = c.calls[i].call, c.calls[i].id = TopId
                 PROVE  FALSE
      OBVIOUS
    <3>1. c.calls[TopOf(c)].call = Top.call /\ c.calls[TopOf(c)].id = TopId
          /\ TopOf(c) \in DOMAIN c.calls
      BY <2>4
    <3>2. i = TopOf(c)
      <4>1. i < TopOf(c) \/ i = TopOf(c) \/ TopOf(c) < i BY <2>3, <3>1
      <4> QED BY <1>1, <2>3, <3>1, <4>1 DEF Ordered
    <3>3. frames[running][e].call = Top.call /\ e \in DOMAIN frames[running] /\ e # Depth(running)
      BY <2>1, <3>1, <3>2
    <3>4. e < Depth(running) \/ Depth(running) < e
      <4>1. frames[running] \in Seq(Frame) BY <1>1, <2>1 DEF TypeOK
      <4> QED BY <2>1, <3>3, <4>1
    <3> QED BY <2>1, <2>2, <3>3, <3>4 DEF ProfileInv, FramesOrdered
  <2>8. \A i \in DOMAIN c.calls :
          /\ d.calls[i].call = c.calls[i].call
          /\ d.calls[i].ended = (c.calls[i].ended \/ c.calls[i].id = TopId)
    BY <2>5 DEF Returned
  <2>9. \A i \in DOMAIN d.calls :
          \/ i \in DOMAIN c.calls
          \/ i = n /\ d.calls[n].call = NoCall /\ ~d.calls[n].ended
    BY <2>5 DEF Returned
  <2>10. RunningIsOpen'
    <3> SUFFICES ASSUME NEW i \in DOMAIN d.calls, NEW e \in DOMAIN frames'[running],
                        frames'[running][e].call = d.calls[i].call
                 PROVE  ~d.calls[i].ended
      BY <1>2 DEF RunningIsOpen
    <3>1. CASE i \in DOMAIN c.calls
      <4>1. c.calls[i].id # TopId BY <2>7, <2>8, <3>1
      <4>2. ~c.calls[i].ended BY <1>4, <2>1, <2>8, <3>1 DEF StackInv, RunningIsOpen
      <4> QED BY <2>8, <3>1, <4>1, <4>2
    <3>2. CASE i \notin DOMAIN c.calls BY <2>9, <3>2
    <3> QED BY <3>1, <3>2
  <2>11. StackLives'
    <3> SUFFICES ASSUME NEW p \in DOMAIN d.stack, d.calls[d.stack[p]].call # NoCall
                 PROVE  \E e \in DOMAIN frames'[running] :
                          frames'[running][e].call = d.calls[d.stack[p]].call
      BY <1>2 DEF StackLives
    <3> DEFINE i == d.stack[p]
    <3>1. i \in DOMAIN c.calls /\ ~d.calls[i].ended
      <4>1. /\ DOMAIN d.calls = DOMAIN c.calls \/ DOMAIN d.calls = DOMAIN c.calls \cup {n}
            /\ \A q \in DOMAIN d.stack : d.stack[q] \in DOMAIN d.calls
        <5>1. TypeOK' BY <1>1, TypeNext DEF Next
        <5> QED BY <2>5, <5>1 DEF Returned, TypeOK
      <4>2. i \in DOMAIN d.calls /\ ~d.calls[i].ended BY <2>6, <4>1 DEF Stacked
      <4> QED BY <2>9, <4>2
    <3>2. ~c.calls[i].ended /\ c.calls[i].id # TopId /\ d.calls[i].call = c.calls[i].call
      BY <2>8, <3>1
    <3>3. PICK q \in DOMAIN c.stack : c.stack[q] = i
      BY <3>1, <3>2 DEF StackInv, Stacked
    <3>4. PICK e \in DOMAIN frames[running] : frames[running][e].call = c.calls[i].call
      BY <1>4, <3>2, <3>3 DEF StackInv, StackLives
    <3>5. e # Depth(running)
      <4> SUFFICES ASSUME e = Depth(running) PROVE FALSE OBVIOUS
      <4>1. c.calls[i].call = Top.call BY <2>1, <3>4
      <4>2. TopId = c.calls[i].id BY <1>2, <1>4, <3>1, <4>1, TrackedTopEnds
      <4> QED BY <3>2, <4>2
    <3> QED BY <2>1, <3>2, <3>4, <3>5
  <2> QED BY <2>6, <2>10, <2>11 DEF StackInv
<1> QED BY <1>3, <1>4

\* Every step of one fiber preserves the invariant of the stack.
LEMMA StackInvNext ==
  DistinctTicks /\ OneFiber /\ IInv /\ ProfileInv /\ StackInv /\ [Next]_vars => StackInv'
<1> SUFFICES ASSUME DistinctTicks, OneFiber, IInv, ProfileInv, StackInv, [Next]_vars
             PROVE  StackInv'
  OBVIOUS
<1>1. running \in Fiber BY Numbered
<1>2. ASSUME NEW fn \in Function, Call(fn) PROVE StackInv' BY <1>2, CallStackInv
<1>3. CASE Return BY <1>3, ReturnStackInv
<1>4. CASE FinishProbe
  <2>1. /\ DOMAIN frames'[running] = DOMAIN frames[running]
        /\ \A d \in DOMAIN frames[running] : frames'[running][d].call = frames[running][d].call
        /\ UNCHANGED <<profiling, collector, running>>
    BY <1>1, <1>4, FinishProbeStep
  <2> QED BY <2>1 DEF StackInv, Stacked, StackLives, RunningIsOpen
<1>5. CASE OpaEnable \/ OpaDisable
  <2>1. \/ profiling' /\ collector' = Started
        \/ ~profiling' /\ collector'.calls = collector.calls /\ collector'.stack = collector.stack
    BY <1>5, ToggleStep
  <2>2. CASE collector' = Started
    BY <2>2, StartedType DEF StackInv, Stacked, StackLives, RunningIsOpen
  <2>3. CASE ~profiling' /\ collector'.calls = collector.calls /\ collector'.stack = collector.stack
    BY <2>3 DEF StackInv, Stacked, StackLives, RunningIsOpen
  <2> QED BY <2>1, <2>2, <2>3
<1>6. CASE StartRequest \/ EndRequest
  <2>1. DOMAIN collector'.calls = {} /\ DOMAIN collector'.stack = {}
    BY <1>6, RequestStep, StartedType
  <2> QED BY <2>1 DEF StackInv, Stacked, StackLives, RunningIsOpen
<1>7. ASSUME NEW f \in Fiber, Switch(f) PROVE FALSE
  BY <1>1, <1>7 DEF Switch, OneFiber
<1>8. CASE UNCHANGED vars
  BY <1>8 DEF vars, StackInv, Stacked, StackLives, RunningIsOpen
<1> QED BY <1>2, <1>3, <1>4, <1>5, <1>6, <1>7, <1>8 DEF Next, Finished

\* A process starts with an empty stack.
LEMMA StackInvInit == Init => StackInv
<1> SUFFICES ASSUME Init PROVE StackInv OBVIOUS
<1>1. DOMAIN collector.calls = {} /\ DOMAIN collector.stack = {}
  BY StartedType DEF Init
<1> QED BY <1>1 DEF StackInv, Stacked, StackLives, RunningIsOpen

\* With distinct ids and one fiber: the stack holds the nodes that have not
\* ended, each the child of the one below it, and while profiling they are those
\* of the calls that still run.
THEOREM StackInvariant == DistinctTicks /\ OneFiber /\ Spec => []StackInv
<1>1. CASE DistinctTicks /\ OneFiber
  <2>1. IInv /\ ProfileInv /\ StackInv /\ [Next]_vars => StackInv' BY <1>1, StackInvNext
  <2>2. DistinctTicks BY <1>1
  <2>3. Spec => []StackInv BY <2>1, <2>2, StackInvInit, Invariant, ProfileInvariant, PTL DEF Spec
  <2> QED BY <2>3
<1>2. CASE ~(DistinctTicks /\ OneFiber) BY <1>2
<1> QED BY <1>1, <1>2

\* Positions of the stack lead to frames, in their order.
LEMMA StackMatches == IInv /\ ProfileInv /\ StackInv => StackMatchesFrames
<1> SUFFICES ASSUME IInv, ProfileInv, StackInv, profiling PROVE StackMatchesFrames
  BY DEF StackMatchesFrames
<1> DEFINE c    == collector
           fs   == frames[running]
           own  == (HeldBelow + 1)..Len(c.stack)
           at   == [p \in own |-> CHOOSE d \in DOMAIN fs : fs[d].call = c.calls[c.stack[p]].call]
<1>1. /\ WellFormed(c) /\ running \in Fiber
      /\ \A i \in DOMAIN c.calls : c.calls[i].call \in Nat
      /\ \A d \in DOMAIN fs : fs[d].call \in Nat \ {NoCall}
  BY Numbered
<1>2. /\ \A p \in DOMAIN c.stack : c.stack[p] \in DOMAIN c.calls
      /\ Len(c.stack) \in Nat /\ DOMAIN c.stack = 1..Len(c.stack)
  BY <1>1, CollectorFields
<1>3. \A d, e \in DOMAIN fs : d < e \/ d = e \/ e < d
  <2>1. fs \in Seq(Frame) BY <1>1 DEF IInv, TypeOK
  <2> QED BY <2>1
<1>4. \A p \in DOMAIN c.stack : p \in own <=> c.calls[c.stack[p]].call # NoCall
  <2> SUFFICES ASSUME NEW p \in DOMAIN c.stack
               PROVE  p \in own <=> c.calls[c.stack[p]].call # NoCall
    OBVIOUS
  <2>1. c.stack # <<>> BY EmptySeq
  <2>2. c.calls[c.stack[p]].call = NoCall => p = 1 BY DEF StackInv, Stacked
  <2>3. HeldBelow = IF c.calls[c.stack[1]].call = NoCall THEN 1 ELSE 0
    BY <2>1 DEF HeldBelow, NodeAt
  <2> HIDE DEF c
  <2> QED BY <1>2, <2>2, <2>3
<1>5. own \subseteq DOMAIN c.stack
  <2>1. HeldBelow \in {0, 1} BY DEF HeldBelow
  <2> QED BY <1>2, <2>1
<1> HIDE DEF own
<1>6. ASSUME NEW p \in own
      PROVE  at[p] \in Tracked /\ fs[at[p]].call = c.calls[c.stack[p]].call
  <2>1. \E d \in DOMAIN fs : fs[d].call = c.calls[c.stack[p]].call
    BY <1>4, <1>5 DEF StackInv, StackLives
  <2>2. at[p] \in DOMAIN fs /\ fs[at[p]].call = c.calls[c.stack[p]].call BY <2>1
  <2>3. c.calls[c.stack[p]] \in Nodes BY <1>2, <1>5 DEF Nodes
  <2> QED BY <2>2, <2>3 DEF Tracked
<1>7. at \in [own -> Tracked] BY <1>6
<1> HIDE DEF at
<1>8. ASSUME NEW d \in Tracked PROVE \E p \in own : at[p] = d
  <2>1. PICK i \in DOMAIN c.calls : c.calls[i].call = fs[d].call BY DEF Tracked, Nodes
  <2>2. d \in DOMAIN fs BY DEF Tracked
  <2>3. ~c.calls[i].ended BY <2>1, <2>2 DEF StackInv, RunningIsOpen
  <2>4. PICK p \in DOMAIN c.stack : c.stack[p] = i BY <2>3 DEF StackInv, Stacked
  <2>5. p \in own BY <1>1, <1>4, <2>1, <2>2, <2>4
  <2>6. fs[at[p]].call = fs[d].call /\ at[p] \in DOMAIN fs BY <1>6, <2>1, <2>4, <2>5 DEF Tracked
  <2>7. at[p] = d
    <3>1. at[p] < d \/ at[p] = d \/ d < at[p] BY <1>3, <2>2, <2>6
    <3> QED BY <1>1, <2>2, <2>6, <3>1 DEF ProfileInv, FramesOrdered
  <2> QED BY <2>5, <2>7
<1>9. ASSUME NEW p \in own, NEW q \in own, p < q PROVE at[p] < at[q]
  <2>1. /\ fs[at[p]].call = c.calls[c.stack[p]].call /\ fs[at[q]].call = c.calls[c.stack[q]].call
        /\ at[p] \in DOMAIN fs /\ at[q] \in DOMAIN fs
    BY <1>6 DEF Tracked
  <2>2. c.stack[p] < c.stack[q] BY <1>5, <1>9 DEF StackInv, Stacked
  <2>3. c.calls[c.stack[p]].call < c.calls[c.stack[q]].call
    BY <1>2, <1>4, <1>5, <2>2 DEF ProfileInv, CallsOrdered
  <2>4. at[p] < at[q] \/ at[p] = at[q] \/ at[q] < at[p] BY <1>3, <2>1
  <2>5. fs[at[p]].call < fs[at[q]].call BY <2>1, <2>3
  <2> QED BY <1>1, <2>1, <2>4, <2>5 DEF ProfileInv, FramesOrdered
<1>10. /\ \A d \in Tracked : \E p \in own : at[p] = d
       /\ \A p, q \in own : p < q => at[p] < at[q]
       /\ \A p \in own : NodeAt(c, c.stack[p]).call = fs[at[p]].call
  BY <1>6, <1>8, <1>9 DEF NodeAt
<1> QED BY <1>7, <1>10 DEF StackMatchesFrames, own

\* With distinct ids and one fiber, the call stack is that of the tracked calls
\* that run, whenever the program switches profiling.
THEOREM StackMatchesFramesHolds == DistinctTicks /\ OneFiber /\ Spec => []StackMatchesFrames
<1>1. CASE DistinctTicks /\ OneFiber
  <2>1. DistinctTicks /\ OneFiber BY <1>1
  <2> QED BY <2>1, StackMatches, Invariant, ProfileInvariant, StackInvariant, PTL
<1>2. CASE ~(DistinctTicks /\ OneFiber) BY <1>2
<1> QED BY <1>1, <1>2

\* The step form of ChargedToRunningCall.
Charged ==
  \A i \in DOMAIN collector.calls \cap DOMAIN collector'.calls :
    Len(collector'.calls[i].ops) > Len(collector.calls[i].ops)
      => collector.calls[i].call \in
           {NoCall} \cup {frames[running][d].call : d \in DOMAIN frames[running]}

\* Operations go to nodes of the stack, which are those of running calls.
LEMMA ChargedStep ==
  DistinctTicks /\ IInv /\ ProfileInv /\ StackInv /\ [Next]_vars => Charged
<1> SUFFICES ASSUME DistinctTicks, IInv, ProfileInv, StackInv, [Next]_vars,
                    NEW i \in DOMAIN collector.calls, i \in DOMAIN collector'.calls,
                    Len(collector'.calls[i].ops) > Len(collector.calls[i].ops)
             PROVE  collector.calls[i].call \in
                      {NoCall} \cup {frames[running][d].call : d \in DOMAIN frames[running]}
  BY DEF Charged
<1>1. WellFormed(collector) /\ clock \in Nat /\ made \in Nat BY Numbered
<1>2. collector'.calls[i].ops # collector.calls[i].ops
  <2>1. Len(collector.calls[i].ops) \in Nat BY <1>1, CollectorFields
  <2> QED BY <2>1
<1>3. CASE Return
  <2>1. profiling /\ Returned(collector, collector', clock + 1, TopId)
    BY <1>2, <1>3, ReturnStep DEF ProfileInv
  <2>2. OnStack(collector, i) BY <1>2, <2>1 DEF Returned
  <2> QED BY <2>1, <2>2 DEF OnStack, StackInv, StackLives
<1>4. ASSUME NEW fn \in Function, Call(fn) PROVE FALSE
  <2>1. collector' \in {EnterFunction(collector, clock + 1, made + 1), collector}
    <3>1. \E tracked \in BOOLEAN :
            IF tracked THEN collector' = EnterFunction(collector, clock + 1, made + 1)
            ELSE collector' = collector
      BY <1>4, CallStep
    <3> QED BY <3>1
  <2>2. clock + 1 \in Nat \ {NoId} /\ made + 1 \in Nat BY <1>1 DEF NoId
  <2> DEFINE id == clock + 1
             k  == made + 1
  <2> HIDE DEF id, k
  <2>3. EnterFunction(collector, id, k).calls[i] = collector.calls[i]
    BY <1>1, <2>2, EnterFunctionType DEF id, k
  <2> QED BY <1>2, <2>1, <2>3 DEF id, k
<1>5. CASE OpaEnable \/ OpaDisable
  <2>1. DOMAIN collector'.calls = {} \/ collector'.calls = collector.calls
    BY <1>5, ToggleStep, StartedType
  <2> QED BY <1>2, <2>1
<1>6. CASE StartRequest \/ EndRequest
  <2>1. DOMAIN collector'.calls = {} BY <1>6, RequestStep, StartedType
  <2> QED BY <2>1
<1>7. CASE FinishProbe \/ UNCHANGED vars BY <1>2, <1>7 DEF FinishProbe, vars
<1>8. ASSUME NEW f \in Fiber, Switch(f) PROVE FALSE BY <1>2, <1>8 DEF Switch
<1> QED BY <1>3, <1>4, <1>5, <1>6, <1>7, <1>8 DEF Next, Finished

\* With distinct ids and one fiber, an operation is charged to a call that runs,
\* or to the node for operations outside any call.
THEOREM ChargedToRunningCallHolds == DistinctTicks /\ OneFiber /\ Spec => ChargedToRunningCall
<1>1. CASE DistinctTicks /\ OneFiber
  <2>1. IInv /\ ProfileInv /\ StackInv /\ [Next]_vars => [Charged]_vars BY <1>1, ChargedStep
  <2>2. DistinctTicks /\ OneFiber BY <1>1
  <2>3. Spec => [][Charged]_vars
    BY <2>1, <2>2, Invariant, ProfileInvariant, StackInvariant, PTL DEF Spec
  <2> QED BY <2>3 DEF ChargedToRunningCall, Charged
<1>2. CASE ~(DistinctTicks /\ OneFiber) BY <1>2
<1> QED BY <1>1, <1>2
-----------------------------------------------------------------------------
(* The calls of the collector implement the tree of CallTree. *)

TreeNode == [parent : Nat, open : BOOLEAN]

\* The id of a parent leads to one node, an older one.
LEMMA ParentFound ==
  ASSUME NEW c, WellFormed(c), Ordered(c), NEW n, n.parent # NoId,
         NEW j \in DOMAIN c.calls, c.calls[j].id = n.parent
  PROVE  ParentOf(c, n) = j
<1>1. /\ DOMAIN c.calls = 1..Len(c.calls) /\ \A i \in DOMAIN c.calls : c.calls[i].id \in Nat
  BY CollectorFields
<1>2. \A i \in DOMAIN c.calls : NodeAt(c, i).id = n.parent <=> i = j
  <2>1. \A i \in DOMAIN c.calls : i < j \/ i = j \/ j < i BY <1>1
  <2> QED BY <1>1, <2>1 DEF Ordered, NodeAt
<1> QED BY <1>2 DEF ParentOf

LEMMA TreeParts ==
  ASSUME NEW c, WellFormed(c), Ordered(c), Stacked(c)
  PROVE  /\ TreeOf(c) \in Seq(TreeNode)
         /\ DOMAIN TreeOf(c) = DOMAIN c.calls /\ Len(TreeOf(c)) = Len(c.calls)
         /\ \A i \in DOMAIN c.calls :
              /\ TreeOf(c)[i] \in TreeNode
              /\ TreeOf(c)[i].open = ~c.calls[i].ended
              /\ TreeOf(c)[i].parent = ParentOf(c, c.calls[i])
              /\ c.calls[i].parent = NoId => TreeOf(c)[i].parent = 0
              /\ c.calls[i].parent # NoId =>
                   /\ TreeOf(c)[i].parent \in DOMAIN c.calls /\ TreeOf(c)[i].parent < i
                   /\ c.calls[TreeOf(c)[i].parent].id = c.calls[i].parent
<1> DEFINE t == TreeOf(c)
<1>1. DOMAIN c.calls = 1..Len(c.calls) /\ Len(c.calls) \in Nat
  BY CollectorFields
<1>2. ASSUME NEW i \in DOMAIN c.calls
      PROVE  /\ t[i].open = ~c.calls[i].ended
             /\ t[i].parent = ParentOf(c, c.calls[i])
             /\ t[i] = [parent |-> ParentOf(c, c.calls[i]), open |-> ~c.calls[i].ended]
  BY DEF TreeOf
<1>3. ASSUME NEW i \in DOMAIN c.calls, c.calls[i].parent = NoId
      PROVE  t[i].parent = 0
  BY <1>2, <1>3 DEF ParentOf
<1>4. ASSUME NEW i \in DOMAIN c.calls, c.calls[i].parent # NoId
      PROVE  /\ t[i].parent \in DOMAIN c.calls /\ t[i].parent < i
             /\ c.calls[t[i].parent].id = c.calls[i].parent
  <2>1. PICK j \in DOMAIN c.calls : j < i /\ c.calls[j].id = c.calls[i].parent
    BY <1>4 DEF Stacked
  <2>2. ParentOf(c, c.calls[i]) = j BY <1>4, <2>1, ParentFound
  <2> QED BY <1>2, <2>1, <2>2
<1>5. DOMAIN t = DOMAIN c.calls BY DEF TreeOf
<1>6. ASSUME NEW i \in DOMAIN c.calls PROVE t[i] \in TreeNode
  <2> DEFINE p == ParentOf(c, c.calls[i])
             o == ~c.calls[i].ended
  <2>1. t[i].parent = p /\ t[i] = [parent |-> p, open |-> o] BY <1>2
  <2>2. o \in BOOLEAN OBVIOUS
  <2> HIDE DEF t, p, o
  <2>3. p \in Nat
    <3>1. CASE c.calls[i].parent = NoId BY <1>3, <2>1, <3>1
    <3>2. CASE c.calls[i].parent # NoId BY <1>1, <1>4, <2>1, <3>2
    <3> QED BY <3>1, <3>2
  <2> QED BY <2>1, <2>2, <2>3 DEF TreeNode
<1>7. t \in [DOMAIN c.calls -> TreeNode] BY <1>6 DEF TreeOf
<1> HIDE DEF t
<1>8. t \in Seq(TreeNode) BY <1>1, <1>7, SeqDef
<1>9. Len(t) = Len(c.calls) BY <1>1, <1>5, <1>8
<1> QED BY <1>2, <1>3, <1>4, <1>5, <1>6, <1>8, <1>9 DEF t

\* No call of the tree outlives its parent.
LEMMA TreeWellNested == IInv /\ ProfileInv /\ StackInv => ParentsOutlive
<1> SUFFICES ASSUME IInv, ProfileInv, StackInv PROVE ParentsOutlive OBVIOUS
<1> DEFINE c == collector
           t == TreeOf(c)
<1>1. WellFormed(c) /\ Ordered(c) /\ Stacked(c)
  BY Numbered DEF ProfileInv, StackInv
<1>2. /\ \A p \in DOMAIN c.stack : c.stack[p] \in DOMAIN c.calls
      /\ DOMAIN c.stack = 1..Len(c.stack) /\ Len(c.stack) \in Nat
  BY <1>1, CollectorFields
<1>3. /\ DOMAIN t = DOMAIN c.calls
      /\ \A i \in DOMAIN c.calls :
           /\ t[i].open = ~c.calls[i].ended
           /\ t[i].parent = ParentOf(c, c.calls[i])
           /\ c.calls[i].parent = NoId => t[i].parent = 0
           /\ c.calls[i].parent # NoId => t[i].parent \in DOMAIN c.calls /\ t[i].parent < i
  BY <1>1, TreeParts
<1>4. ASSUME NEW i \in DOMAIN c.calls, c.calls[i].parent # NoId, t[i].open
      PROVE  t[t[i].parent].open
  <2>1. PICK p \in DOMAIN c.stack : c.stack[p] = i BY <1>1, <1>3, <1>4 DEF Stacked
  <2>2. p # 1 /\ c.calls[i].parent = c.calls[c.stack[p - 1]].id BY <1>1, <1>4, <2>1 DEF Stacked
  <2>3. p - 1 \in DOMAIN c.stack BY <1>2, <2>1, <2>2
  <2>4. t[i].parent = c.stack[p - 1]
    BY <1>1, <1>2, <1>3, <1>4, <2>2, <2>3, ParentFound
  <2>5. ~c.calls[c.stack[p - 1]].ended BY <1>1, <1>2, <2>3 DEF Stacked
  <2> QED BY <1>2, <1>3, <2>3, <2>4, <2>5
<1> HIDE DEF t
<1>5. Tree!WellNested <=> \A i \in DOMAIN t : t[i].parent # 0 =>
        /\ t[i].parent \in DOMAIN t /\ t[i].parent < i
        /\ t[i].open => t[t[i].parent].open
  BY DEF Tree!WellNested, t
<1> QED BY <1>3, <1>4, <1>5 DEF ParentsOutlive

\* With distinct ids and one fiber, no call of the profile outlives its parent.
THEOREM ParentsOutliveHolds == DistinctTicks /\ OneFiber /\ Spec => []ParentsOutlive
<1>1. CASE DistinctTicks /\ OneFiber
  <2>1. DistinctTicks /\ OneFiber BY <1>1
  <2> QED BY <2>1, TreeWellNested, Invariant, ProfileInvariant, StackInvariant, PTL
<1>2. CASE ~(DistinctTicks /\ OneFiber) BY <1>2
<1> QED BY <1>1, <1>2

LEMMA TreesEqual ==
  ASSUME NEW s \in Seq(TreeNode), NEW t \in Seq(TreeNode), DOMAIN s = DOMAIN t,
         \A i \in DOMAIN s : s[i].parent = t[i].parent /\ s[i].open = t[i].open
  PROVE  s = t
<1>1. ASSUME NEW i \in DOMAIN s PROVE s[i] = t[i]
  <2>1. s[i] \in TreeNode /\ t[i] \in TreeNode OBVIOUS
  <2>2. s[i] = [parent |-> s[i].parent, open |-> s[i].open] BY <2>1 DEF TreeNode
  <2>3. t[i] = [parent |-> t[i].parent, open |-> t[i].open] BY <2>1 DEF TreeNode
  <2> QED BY <2>2, <2>3
<1>2. Len(s) = Len(t) BY LenProperties
<1> QED BY <1>1, <1>2, SeqEqual

\* What the operations of CallTree do to a tree.
\* Tree a is t with an open node under p.
Added(t, p, a) ==
  /\ a \in Seq(TreeNode)
  /\ DOMAIN a = DOMAIN t \cup {Len(t) + 1}
  /\ \A i \in DOMAIN t : a[i] = t[i]
  /\ a[Len(t) + 1].parent = p
  /\ a[Len(t) + 1].open = TRUE

LEMMA AddToParts ==
  ASSUME NEW t \in Seq(TreeNode), NEW p \in Nat
  PROVE  Added(t, p, Tree!AddTo(t, p))
<1> DEFINE x == [parent |-> p, open |-> TRUE]
<1>1. x \in TreeNode /\ x.parent = p /\ x.open = TRUE BY DEF TreeNode
<1>2. Tree!AddTo(t, p) = Append(t, x) BY DEF Tree!AddTo
<1> HIDE DEF x
<1>3. /\ Append(t, x) \in Seq(TreeNode) /\ DOMAIN Append(t, x) = 1..Len(t) + 1
      /\ \A i \in 1..Len(t) : Append(t, x)[i] = t[i]
      /\ Append(t, x)[Len(t) + 1] = x
  BY <1>1
<1>4. DOMAIN t = 1..Len(t) /\ Len(t) \in Nat BY LenProperties
<1>5. 1..Len(t) + 1 = 1..Len(t) \cup {Len(t) + 1} BY <1>4
<1> QED BY <1>1, <1>2, <1>3, <1>4, <1>5 DEF Added

LEMMA CloseParts ==
  ASSUME NEW t \in Seq(TreeNode), NEW p \in DOMAIN t
  PROVE  /\ Tree!Close(t, p) \in Seq(TreeNode)
         /\ DOMAIN Tree!Close(t, p) = DOMAIN t
         /\ \A i \in DOMAIN t : /\ Tree!Close(t, p)[i].parent = t[i].parent
                                /\ Tree!Close(t, p)[i].open = (t[i].open /\ i # p)
<1> DEFINE x == [t[p] EXCEPT !.open = FALSE]
<1>1. \A i \in DOMAIN t : t[i] \in TreeNode OBVIOUS
<1>2. x \in TreeNode /\ x.parent = t[p].parent /\ x.open = FALSE BY <1>1 DEF TreeNode
<1>3. Tree!Close(t, p) = [t EXCEPT ![p] = x] BY DEF Tree!Close
<1> HIDE DEF x
<1>4. [t EXCEPT ![p] = x] \in Seq(TreeNode) BY <1>2, ExceptSeq
<1>5. \A i \in DOMAIN t : t[i].open \in BOOLEAN BY <1>1 DEF TreeNode
<1>6. DOMAIN [t EXCEPT ![p] = x] = DOMAIN t OBVIOUS
<1>7. \A i \in DOMAIN t : [t EXCEPT ![p] = x][i] = IF i = p THEN x ELSE t[i] OBVIOUS
<1> QED BY <1>2, <1>3, <1>4, <1>5, <1>6, <1>7

\* A node keeps its parent when others are added and end.
LEMMA ParentsStay ==
  ASSUME NEW c, WellFormed(c), Ordered(c), Stacked(c), NEW d, WellFormed(d), Ordered(d), Stacked(d),
         DOMAIN c.calls \subseteq DOMAIN d.calls,
         \A i \in DOMAIN c.calls : /\ d.calls[i].id = c.calls[i].id
                                   /\ d.calls[i].parent = c.calls[i].parent
  PROVE  \A i \in DOMAIN c.calls : TreeOf(d)[i].parent = TreeOf(c)[i].parent
<1> SUFFICES ASSUME NEW i \in DOMAIN c.calls
             PROVE  TreeOf(d)[i].parent = TreeOf(c)[i].parent
  OBVIOUS
<1>1. CASE c.calls[i].parent = NoId
  <2>1. TreeOf(c)[i].parent = 0 BY <1>1, TreeParts
  <2>2. TreeOf(d)[i].parent = 0 BY <1>1, TreeParts
  <2> QED BY <2>1, <2>2
<1>2. CASE c.calls[i].parent # NoId
  <2> DEFINE j == TreeOf(c)[i].parent
  <2>1. j \in DOMAIN c.calls /\ c.calls[j].id = c.calls[i].parent BY <1>2, TreeParts
  <2>2. TreeOf(d)[i].parent = ParentOf(d, d.calls[i]) BY TreeParts
  <2> HIDE DEF j
  <2>3. j \in DOMAIN d.calls /\ d.calls[j].id = d.calls[i].parent /\ d.calls[i].parent # NoId
    BY <1>2, <2>1
  <2>4. ParentOf(d, d.calls[i]) = j BY <2>3, ParentFound
  <2> QED BY <2>2, <2>4 DEF j
<1> QED BY <1>1, <1>2

\* The top of the stack is the innermost open node of the tree, if any is open.
LEMMA TopInnermost ==
  ASSUME NEW c, WellFormed(c), Ordered(c), Stacked(c)
  PROVE  /\ c.stack = <<>> => /\ Tree!Opened(TreeOf(c)) = {}
                              /\ Tree!IsInnermost(TreeOf(c), 0)
         /\ c.stack # <<>> => /\ Tree!IsInnermost(TreeOf(c), TopOf(c))
                              /\ TopOf(c) \in DOMAIN TreeOf(c)
                              /\ Len(c.stack) = 1 => Tree!Opened(TreeOf(c)) = {TopOf(c)}
<1> DEFINE t == TreeOf(c)
<1>1. DOMAIN t = DOMAIN c.calls /\ \A i \in DOMAIN c.calls : t[i].open = ~c.calls[i].ended
  BY TreeParts
<1>2. /\ Len(c.stack) \in Nat /\ DOMAIN c.stack = 1..Len(c.stack)
      /\ \A p \in DOMAIN c.stack : c.stack[p] \in DOMAIN c.calls
      /\ DOMAIN c.calls = 1..Len(c.calls)
      /\ c.stack # <<>> => /\ Len(c.stack) \in DOMAIN c.stack
                           /\ TopOf(c) = c.stack[Len(c.stack)]
                           /\ TopOf(c) \in DOMAIN c.calls
  BY CollectorFields
<1> HIDE DEF t
<1>3. \A i : i \in Tree!Opened(t) <=> \E p \in DOMAIN c.stack : c.stack[p] = i
  <2>1. Tree!Opened(t) = {i \in DOMAIN t : t[i].open} BY DEF Tree!Opened
  <2>2. \A i : i \in Tree!Opened(t) <=> i \in DOMAIN c.calls /\ ~c.calls[i].ended BY <1>1, <2>1
  <2>3. \A i \in DOMAIN c.calls : ~c.calls[i].ended <=> \E p \in DOMAIN c.stack : c.stack[p] = i
    BY DEF Stacked
  <2> QED BY <1>2, <2>2, <2>3
<1>4. \A p : Tree!IsInnermost(t, p) <=>
               p \in Tree!Opened(t) \cup {0} /\ \A i \in Tree!Opened(t) : i <= p
  BY DEF Tree!IsInnermost
<1>5. CASE c.stack = <<>>
  <2>1. Tree!Opened(t) = {} BY <1>3, <1>5, EmptySeq
  <2> QED BY <1>4, <1>5, <2>1 DEF t
<1>6. CASE c.stack # <<>>
  <2>1. ASSUME NEW i \in Tree!Opened(t) PROVE i <= TopOf(c)
    <3>1. PICK p \in DOMAIN c.stack : c.stack[p] = i BY <1>3
    <3>2. p < Len(c.stack) \/ p = Len(c.stack) BY <1>2
    <3>3. \A q \in DOMAIN c.stack : p < q => c.stack[p] < c.stack[q] BY DEF Stacked
    <3>4. i < TopOf(c) \/ i = TopOf(c) BY <1>2, <1>6, <3>1, <3>2, <3>3
    <3>5. i \in Nat /\ TopOf(c) \in Nat BY <1>2, <1>6, <3>1
    <3> QED BY <3>4, <3>5
  <2>2. TopOf(c) \in Tree!Opened(t) BY <1>2, <1>3, <1>6
  <2>3. Len(c.stack) = 1 => Tree!Opened(t) = {TopOf(c)}
    <3> SUFFICES ASSUME Len(c.stack) = 1, NEW i \in Tree!Opened(t) PROVE i = TopOf(c)
      BY <2>2
    <3>1. PICK p \in DOMAIN c.stack : c.stack[p] = i BY <1>3
    <3> QED BY <1>2, <1>6, <3>1
  <2> QED BY <1>1, <1>2, <1>4, <1>6, <2>1, <2>2, <2>3 DEF t
<1> QED BY <1>5, <1>6

\* A call adds a node under the innermost open one.
LEMMA TreeEntered ==
  ASSUME NEW c, WellFormed(c), Ordered(c), Stacked(c), NEW id \in Nat \ {NoId},
         NEW k \in Nat \ {NoCall}, NEW e, e = EnterFunction(c, id, k),
         WellFormed(e), Ordered(e), Stacked(e)
  PROVE  \E p \in DOMAIN TreeOf(c) \cup {0} :
           Tree!IsInnermost(TreeOf(c), p) /\ TreeOf(e) = Tree!AddTo(TreeOf(c), p)
<1> DEFINE t == TreeOf(c)
           u == TreeOf(e)
           n == Len(c.calls) + 1
           p == IF c.stack = <<>> THEN 0 ELSE TopOf(c)
<1>1. k \in Nat OBVIOUS
<1>2. /\ DOMAIN e.calls = DOMAIN c.calls \cup {n}
      /\ \A i \in DOMAIN c.calls : e.calls[i] = c.calls[i]
      /\ ~e.calls[n].ended
  BY <1>1, EnterFunctionType
<1>3. e.calls[n].parent = IF c.stack = <<>> THEN NoId ELSE c.calls[TopOf(c)].id
  BY <1>1, EnterFunctionShape
<1>4. /\ t \in Seq(TreeNode) /\ DOMAIN t = DOMAIN c.calls /\ Len(t) = Len(c.calls)
      /\ \A i \in DOMAIN c.calls : t[i].open = ~c.calls[i].ended
  BY TreeParts
<1>5. /\ u \in Seq(TreeNode) /\ DOMAIN u = DOMAIN e.calls
      /\ \A i \in DOMAIN e.calls : /\ u[i].open = ~e.calls[i].ended
                                   /\ u[i].parent = ParentOf(e, e.calls[i])
                                   /\ e.calls[i].parent = NoId => u[i].parent = 0
  BY TreeParts
<1>6. /\ DOMAIN c.calls = 1..Len(c.calls) /\ Len(c.calls) \in Nat
      /\ \A i \in DOMAIN c.calls : c.calls[i].id # NoId
      /\ c.stack # <<>> => TopOf(c) \in DOMAIN c.calls
  BY CollectorFields
<1>7. Tree!IsInnermost(t, p) /\ p \in DOMAIN t \cup {0} BY TopInnermost
<1>8. \A i \in DOMAIN c.calls : u[i].parent = t[i].parent
  BY <1>2, ParentsStay
<1> HIDE DEF t, u
<1>9. u[n].parent = p
  <2>1. n \in DOMAIN e.calls BY <1>2
  <2> HIDE DEF n
  <2>2. CASE c.stack = <<>> BY <1>3, <1>5, <2>1, <2>2
  <2>3. CASE c.stack # <<>>
    <3> DEFINE j == TopOf(c)
    <3>1. j \in DOMAIN c.calls BY <1>6, <2>3
    <3> HIDE DEF j
    <3>2. e.calls[n].parent = c.calls[j].id BY <1>3, <2>3 DEF j
    <3>3. e.calls[n].parent # NoId /\ j \in DOMAIN e.calls /\ e.calls[j].id = e.calls[n].parent
      BY <1>2, <1>6, <3>1, <3>2
    <3>4. ParentOf(e, e.calls[n]) = j BY <3>3, ParentFound
    <3> QED BY <1>5, <2>1, <2>3, <3>4 DEF j
  <2> QED BY <2>2, <2>3
<1>10. p \in Nat BY <1>6
<1> HIDE DEF p
<1> DEFINE a == Tree!AddTo(t, p)
<1>11. /\ a \in Seq(TreeNode) /\ DOMAIN a = DOMAIN t \cup {n}
       /\ \A i \in DOMAIN t : a[i] = t[i]
       /\ a[n].parent = p /\ a[n].open = TRUE
  <2>1. t \in Seq(TreeNode) /\ n = Len(t) + 1 BY <1>4
  <2>2. Added(t, p, a) BY <1>10, <2>1, AddToParts
  <2> HIDE DEF n, a
  <2> QED BY <2>1, <2>2 DEF Added
<1> HIDE DEF a, n
<1>12. DOMAIN u = DOMAIN a BY <1>2, <1>4, <1>5, <1>11
<1>13. ASSUME NEW i \in DOMAIN u
       PROVE  u[i].parent = a[i].parent /\ u[i].open = a[i].open
  <2>1. CASE i \in DOMAIN c.calls
    <3>1. u[i].open = t[i].open BY <1>2, <1>4, <1>5, <1>13, <2>1
    <3> QED BY <1>4, <1>8, <1>11, <2>1, <3>1
  <2>2. CASE i = n
    <3>1. u[n].open = TRUE
      <4>1. n \in DOMAIN e.calls /\ e.calls[n].ended \in BOOLEAN
        BY <1>2, CollectorFields
      <4> QED BY <1>2, <1>5, <4>1
    <3> QED BY <1>9, <1>11, <2>2, <3>1
  <2> QED BY <1>2, <1>5, <2>1, <2>2
<1>14. u = a BY <1>5, <1>11, <1>12, <1>13, TreesEqual
<1> QED BY <1>7, <1>14 DEF a, t, u

\* A return closes the innermost open node or none; operations outside any call
\* may add one.
LEMMA TreeReturned ==
  ASSUME NEW c, WellFormed(c), Ordered(c), Stacked(c), NEW id, NEW eid,
         NEW d, WellFormed(d), Ordered(d), Stacked(d), Returned(c, d, id, eid),
         \/ c.stack # <<>> /\ c.calls[TopOf(c)].id = eid
         \/ \A i \in DOMAIN c.calls : c.calls[i].id # eid
  PROVE  \/ TreeOf(d) = TreeOf(c)
         \/ Tree!IsInnermost(TreeOf(c), 0) /\ TreeOf(d) = Tree!AddTo(TreeOf(c), 0)
         \/ \E p \in DOMAIN TreeOf(c) :
              /\ Tree!IsInnermost(TreeOf(c), p)
              /\ \/ TreeOf(d) = Tree!Close(TreeOf(c), p)
                 \/ /\ Tree!Opened(TreeOf(c)) = {p}
                    /\ TreeOf(d) = Tree!AddTo(Tree!Close(TreeOf(c), p), 0)
<1> DEFINE t == TreeOf(c)
           u == TreeOf(d)
           n == Len(c.calls) + 1
           p == TopOf(c)
           v == IF c.stack # <<>> /\ c.calls[p].id = eid THEN Tree!Close(t, p) ELSE t
           a == Tree!AddTo(v, 0)
<1>1. \A i \in DOMAIN c.calls :
        /\ d.calls[i].id = c.calls[i].id /\ d.calls[i].parent = c.calls[i].parent
        /\ d.calls[i].ended = (c.calls[i].ended \/ c.calls[i].id = eid)
  BY DEF Returned
<1>2. \/ DOMAIN d.calls = DOMAIN c.calls
      \/ /\ DOMAIN d.calls = DOMAIN c.calls \cup {n}
         /\ c.stack = <<>> \/ (c.calls[TopOf(c)].id = eid /\ Len(c.stack) = 1)
         /\ d.calls[n].parent = NoId /\ ~d.calls[n].ended
  <2>1. c.stack # <<>> /\ SubSeq(c.stack, 1, Len(c.stack) - 1) = <<>> => Len(c.stack) = 1
    <3>1. c.stack \in Seq(Nat) BY CollectorFields
    <3> SUFFICES ASSUME c.stack # <<>>, SubSeq(c.stack, 1, Len(c.stack) - 1) = <<>>
                 PROVE  Len(c.stack) = 1
      OBVIOUS
    <3>2. Len(c.stack) \in Nat \ {0} BY <3>1, EmptySeq
    <3> DEFINE l == Len(c.stack)
               r == SubSeq(c.stack, 1, l - 1)
    <3>3. \A i \in 1..(l - 1) : c.stack[i] \in Nat BY <3>1, <3>2, ElementOfSeq
    <3>4. Len(r) = l - 1 BY <3>1, <3>2, SubSeqProperties
    <3>5. Len(r) = 0 BY EmptySeq
    <3> HIDE DEF r, l
    <3>6. l = 1 BY <3>2, <3>4, <3>5 DEF l
    <3> QED BY <3>6 DEF l
  <2> QED BY <2>1 DEF Returned
<1>3. /\ t \in Seq(TreeNode) /\ DOMAIN t = DOMAIN c.calls /\ Len(t) = Len(c.calls)
      /\ \A i \in DOMAIN c.calls : t[i].open = ~c.calls[i].ended
  BY TreeParts
<1>4. /\ u \in Seq(TreeNode) /\ DOMAIN u = DOMAIN d.calls
      /\ \A i \in DOMAIN d.calls : /\ u[i].open = ~d.calls[i].ended
                                   /\ d.calls[i].parent = NoId => u[i].parent = 0
  BY TreeParts
<1>5. /\ DOMAIN c.calls = 1..Len(c.calls) /\ Len(c.calls) \in Nat
      /\ \A i \in DOMAIN c.calls : /\ c.calls[i].id \in Nat
                                   /\ c.calls[i].ended \in BOOLEAN
      /\ c.stack # <<>> => p \in DOMAIN c.calls
  BY CollectorFields
<1>6. \A i \in DOMAIN c.calls : u[i].parent = t[i].parent
  BY <1>1, <1>2, ParentsStay
<1>7. /\ c.stack = <<>> => Tree!IsInnermost(t, 0)
      /\ c.stack # <<>> => /\ Tree!IsInnermost(t, p) /\ p \in DOMAIN t
                           /\ Len(c.stack) = 1 => Tree!Opened(t) = {p}
  BY TopInnermost
<1>8. c.stack # <<>> /\ c.calls[p].id = eid => \A i \in DOMAIN c.calls : c.calls[i].id = eid <=> i = p
  <2> SUFFICES ASSUME c.stack # <<>>, c.calls[p].id = eid, NEW i \in DOMAIN c.calls
               PROVE  c.calls[i].id = eid <=> i = p
    OBVIOUS
  <2>1. p \in DOMAIN c.calls BY <1>5
  <2> HIDE DEF p
  <2>2. i < p \/ i = p \/ p < i BY <1>5, <2>1
  <2> QED BY <1>5, <2>1, <2>2 DEF Ordered
<1> HIDE DEF t, u, p
<1>9. /\ v \in Seq(TreeNode) /\ DOMAIN v = DOMAIN t
      /\ \A i \in DOMAIN t : /\ v[i].parent = t[i].parent
                             /\ v[i].open = ~d.calls[i].ended
  <2>1. CASE c.stack # <<>> /\ c.calls[p].id = eid
    <3>1. v = Tree!Close(t, p) BY <2>1
    <3>2. /\ Tree!Close(t, p) \in Seq(TreeNode)
          /\ DOMAIN Tree!Close(t, p) = DOMAIN t
          /\ \A i \in DOMAIN t : /\ Tree!Close(t, p)[i].parent = t[i].parent
                                 /\ Tree!Close(t, p)[i].open = (t[i].open /\ i # p)
      BY <1>3, <1>7, <2>1, CloseParts
    <3> HIDE DEF v
    <3>3. \A i \in DOMAIN t : v[i].open = ~d.calls[i].ended
      BY <1>1, <1>3, <1>5, <1>8, <2>1, <3>1, <3>2
    <3> QED BY <3>1, <3>2, <3>3
  <2>2. CASE ~(c.stack # <<>> /\ c.calls[p].id = eid)
    <3>1. v = t BY <2>2
    <3>2. \A i \in DOMAIN c.calls : c.calls[i].id # eid BY <2>2 DEF p
    <3> HIDE DEF v
    <3>3. \A i \in DOMAIN t : v[i].open = ~d.calls[i].ended BY <1>1, <1>3, <1>5, <3>1, <3>2
    <3> QED BY <1>3, <3>1, <3>3
  <2> QED BY <2>1, <2>2
<1>10. v = IF c.stack # <<>> /\ c.calls[p].id = eid THEN Tree!Close(t, p) ELSE t
  OBVIOUS
<1> HIDE DEF v
<1>11. CASE DOMAIN d.calls = DOMAIN c.calls
  <2>1. DOMAIN u = DOMAIN v /\ \A i \in DOMAIN u : u[i].parent = v[i].parent /\ u[i].open = v[i].open
    BY <1>3, <1>4, <1>6, <1>9, <1>11
  <2>2. u = v BY <1>4, <1>9, <2>1, TreesEqual
  <2>3. CASE c.stack # <<>> /\ c.calls[p].id = eid
    BY <1>7, <1>10, <2>2, <2>3 DEF t, u
  <2>4. CASE ~(c.stack # <<>> /\ c.calls[p].id = eid)
    BY <1>10, <2>2, <2>4 DEF t, u
  <2> QED BY <2>3, <2>4
<1>12. CASE /\ DOMAIN d.calls = DOMAIN c.calls \cup {n}
            /\ c.stack = <<>> \/ (c.calls[p].id = eid /\ Len(c.stack) = 1)
            /\ d.calls[n].parent = NoId /\ ~d.calls[n].ended
  <2>1. Len(v) = Len(c.calls)
    <3>1. DOMAIN v = 1..Len(v) /\ Len(v) \in Nat BY <1>9, LenProperties
    <3> QED BY <1>3, <1>5, <1>9, <3>1
  <2>2. /\ a \in Seq(TreeNode) /\ DOMAIN a = DOMAIN v \cup {n}
        /\ \A i \in DOMAIN v : a[i] = v[i]
        /\ a[n].parent = 0 /\ a[n].open = TRUE
    <3>1. v \in Seq(TreeNode) /\ n = Len(v) + 1 BY <1>9, <2>1
    <3>2. Added(v, 0, a) BY <3>1, AddToParts
    <3> HIDE DEF n, a
    <3> QED BY <3>1, <3>2 DEF Added
  <2> HIDE DEF a
  <2>3. n \in DOMAIN d.calls /\ n \notin DOMAIN c.calls BY <1>5, <1>12
  <2> HIDE DEF n
  <2>4. DOMAIN u = DOMAIN a BY <1>3, <1>4, <1>9, <1>12, <2>2
  <2>5. ASSUME NEW i \in DOMAIN u
        PROVE  u[i].parent = a[i].parent /\ u[i].open = a[i].open
    <3>1. CASE i \in DOMAIN c.calls
      <4>1. a[i] = v[i] BY <1>3, <1>9, <2>2, <3>1
      <4>2. u[i].open = ~d.calls[i].ended BY <1>4, <2>5
      <4>3. v[i].open = ~d.calls[i].ended BY <1>3, <1>9, <3>1
      <4>4. u[i].parent = v[i].parent BY <1>3, <1>6, <1>9, <3>1
      <4> QED BY <4>1, <4>2, <4>3, <4>4
    <3>2. CASE i = n
      <4>1. u[n].open = TRUE /\ u[n].parent = 0
        <5>1. d.calls[n].ended \in BOOLEAN BY <2>3, CollectorFields
        <5> QED BY <1>4, <1>12, <2>3, <5>1
      <4> QED BY <2>2, <3>2, <4>1
    <3> QED BY <1>4, <1>12, <3>1, <3>2
  <2>6. u = a BY <1>4, <2>2, <2>4, <2>5, TreesEqual
  <2>7. CASE c.stack = <<>>
    BY <1>7, <1>10, <2>6, <2>7 DEF t, u, a
  <2>8. CASE c.stack # <<>> /\ c.calls[p].id = eid /\ Len(c.stack) = 1
    BY <1>7, <1>10, <2>6, <2>8 DEF t, u, a
  <2> QED BY <1>12, <2>7, <2>8
<1> QED BY <1>2, <1>11, <1>12 DEF p

\* The operations of CallTree in terms of the collector.
LEMMA TreeSteps ==
  ASSUME NEW t, t = TreeOf(collector), NEW u, u = TreeOf(collector')
  PROVE  /\ profiling /\ UNCHANGED profiling
            /\ (\E p \in DOMAIN t \cup {0} : Tree!IsInnermost(t, p) /\ u = Tree!AddTo(t, p))
              => Tree!Next
         /\ profiling /\ UNCHANGED profiling
            /\ (\E p \in DOMAIN t : Tree!IsInnermost(t, p) /\ u = Tree!Close(t, p))
              => Tree!Next
         /\ profiling /\ UNCHANGED profiling
            /\ (\E p \in DOMAIN t : /\ Tree!IsInnermost(t, p) /\ Tree!Opened(t) = {p}
                                    /\ u = Tree!AddTo(Tree!Close(t, p), 0))
              => Tree!Next
         /\ u = <<>> /\ profiling' \in BOOLEAN => Tree!Next
         /\ profiling' = FALSE /\ u = t => Tree!Next
         /\ UNCHANGED profiling /\ u = t => UNCHANGED Tree!vars
<1>1. Tree!Enter \/ Tree!Leave \/ Tree!LeaveAndHold \/ Tree!Restart \/ Tree!Stop => Tree!Next
  BY DEF Tree!Next
<1>2. profiling /\ UNCHANGED profiling
      /\ (\E p \in DOMAIN t \cup {0} : Tree!IsInnermost(t, p) /\ u = Tree!AddTo(t, p))
        => Tree!Enter
  BY DEF Tree!Enter
<1>3. profiling /\ UNCHANGED profiling
      /\ (\E p \in DOMAIN t : Tree!IsInnermost(t, p) /\ u = Tree!Close(t, p))
        => Tree!Leave
  BY DEF Tree!Leave
<1>4. profiling /\ UNCHANGED profiling
      /\ (\E p \in DOMAIN t : /\ Tree!IsInnermost(t, p) /\ Tree!Opened(t) = {p}
                              /\ u = Tree!AddTo(Tree!Close(t, p), 0))
        => Tree!LeaveAndHold
  BY DEF Tree!LeaveAndHold
<1>5. u = <<>> /\ profiling' \in BOOLEAN => Tree!Restart BY DEF Tree!Restart
<1>6. profiling' = FALSE /\ u = t => Tree!Stop BY DEF Tree!Stop
<1>7. UNCHANGED profiling /\ u = t => UNCHANGED Tree!vars BY DEF Tree!vars
<1> QED BY <1>1, <1>2, <1>3, <1>4, <1>5, <1>6, <1>7

\* A collector without calls is the empty tree.
LEMMA EmptyTree ==
  ASSUME NEW c, DOMAIN c.calls = {}
  PROVE  TreeOf(c) = <<>>
<1>1. DOMAIN TreeOf(c) = {} /\ TreeOf(c) = [i \in {} |-> TreeOf(c)[i]] BY DEF TreeOf
<1>2. TreeOf(c) \in [{} -> {}] BY <1>1
<1>3. 1..0 = {} OBVIOUS
<1>4. TreeOf(c) \in Seq({}) BY <1>2, <1>3, SeqDef
<1>5. Len(TreeOf(c)) = 0 BY <1>1, <1>3, <1>4, LenProperties
<1> QED BY <1>4, <1>5, EmptySeq

\* The shape of the collector before and after a step, for the lemmas above.
LEMMA Shapes ==
  ASSUME DistinctTicks, OneFiber, IInv, ProfileInv, StackInv, [Next]_vars
  PROVE  /\ WellFormed(collector) /\ Ordered(collector) /\ Stacked(collector)
         /\ WellFormed(collector') /\ Ordered(collector') /\ Stacked(collector')
<1>1. WellFormed(collector) /\ Ordered(collector) /\ Stacked(collector)
  BY Numbered DEF ProfileInv, StackInv
<1>2. IInv' BY IInvNext
<1>3. WellFormed(collector') BY <1>2 DEF IInv, TypeOK, WellFormed, CollectorType
<1>4. Ordered(collector') BY ProfileInvNext DEF ProfileInv
<1>5. Stacked(collector') BY StackInvNext DEF StackInv
<1> QED BY <1>1, <1>3, <1>4, <1>5

\* Each step of the tracker is a step of the tree or leaves it alone.
LEMMA CallSimulated ==
  ASSUME DistinctTicks, OneFiber, IInv, ProfileInv, StackInv, NEW fn \in Function, Call(fn)
  PROVE  [Tree!Next]_(Tree!vars)
<1>1. PICK tracked \in BOOLEAN :
        /\ IF tracked
           THEN profiling /\ collector' = EnterFunction(collector, clock + 1, made + 1)
           ELSE collector' = collector
        /\ UNCHANGED profiling
  BY CallStep
<1>2. [Next]_vars BY DEF Next
<1> HIDE DEF Call
<1>3. CASE ~tracked
  <2>1. TreeOf(collector') = TreeOf(collector) BY <1>1, <1>3
  <2> QED BY <1>1, <2>1, TreeSteps
<1>4. CASE tracked
  <2> DEFINE c  == collector
             e  == collector'
             id == clock + 1
             k  == made + 1
  <2>1. /\ WellFormed(c) /\ Ordered(c) /\ Stacked(c)
        /\ WellFormed(e) /\ Ordered(e) /\ Stacked(e)
    BY <1>2, Shapes
  <2>2. id \in Nat \ {NoId} /\ k \in Nat \ {NoCall} BY Numbered DEF NoId, NoCall
  <2>3. e = EnterFunction(c, id, k) BY <1>1, <1>4
  <2> HIDE DEF c, e, id, k
  <2>4. \E p \in DOMAIN TreeOf(c) \cup {0} :
          Tree!IsInnermost(TreeOf(c), p) /\ TreeOf(e) = Tree!AddTo(TreeOf(c), p)
    BY <2>1, <2>2, <2>3, TreeEntered
  <2>5. profiling /\ UNCHANGED profiling BY <1>1, <1>4
  <2> QED BY <2>4, <2>5, TreeSteps DEF c, e
<1> QED BY <1>3, <1>4

LEMMA ReturnSimulated ==
  ASSUME DistinctTicks, OneFiber, IInv, ProfileInv, StackInv, Return
  PROVE  [Tree!Next]_(Tree!vars)
<1>1. /\ frames[running] # <<>> /\ Top.stage # "probe"
      /\ profiling => Returned(collector, collector', clock + 1, TopId)
      /\ ~profiling => collector' = collector
      /\ UNCHANGED profiling
  BY ReturnStep DEF ProfileInv
<1>2. [Next]_vars BY DEF Next
<1> HIDE DEF Return
<1>3. CASE ~profiling
  <2>1. TreeOf(collector') = TreeOf(collector) BY <1>1, <1>3
  <2> QED BY <1>1, <2>1, TreeSteps
<1>4. CASE profiling
  <2> DEFINE c   == collector
             d   == collector'
             id  == clock + 1
             eid == TopId
  <2>1. /\ WellFormed(c) /\ Ordered(c) /\ Stacked(c)
        /\ WellFormed(d) /\ Ordered(d) /\ Stacked(d)
    BY <1>2, Shapes
  <2>2. \/ c.stack # <<>> /\ c.calls[TopOf(c)].id = eid
        \/ \A i \in DOMAIN c.calls : c.calls[i].id # eid
    BY <1>1, <1>4, TopReturns
  <2>3. Returned(c, d, id, eid) BY <1>1, <1>4
  <2> HIDE DEF c, d, id, eid
  <2>4. \/ TreeOf(d) = TreeOf(c)
        \/ Tree!IsInnermost(TreeOf(c), 0) /\ TreeOf(d) = Tree!AddTo(TreeOf(c), 0)
        \/ \E p \in DOMAIN TreeOf(c) :
             /\ Tree!IsInnermost(TreeOf(c), p)
             /\ \/ TreeOf(d) = Tree!Close(TreeOf(c), p)
                \/ /\ Tree!Opened(TreeOf(c)) = {p}
                   /\ TreeOf(d) = Tree!AddTo(Tree!Close(TreeOf(c), p), 0)
    BY <2>1, <2>2, <2>3, TreeReturned
  <2>5. profiling /\ UNCHANGED profiling BY <1>1, <1>4
  <2> DEFINE t == TreeOf(c)
             u == TreeOf(d)
  <2>6. /\ (\E p \in DOMAIN t \cup {0} : Tree!IsInnermost(t, p) /\ u = Tree!AddTo(t, p))
            => Tree!Next
        /\ (\E p \in DOMAIN t : Tree!IsInnermost(t, p) /\ u = Tree!Close(t, p)) => Tree!Next
        /\ (\E p \in DOMAIN t : /\ Tree!IsInnermost(t, p) /\ Tree!Opened(t) = {p}
                                /\ u = Tree!AddTo(Tree!Close(t, p), 0)) => Tree!Next
        /\ u = t => UNCHANGED Tree!vars
    BY <2>5, TreeSteps DEF c, d
  <2>7. \/ u = t
        \/ Tree!IsInnermost(t, 0) /\ u = Tree!AddTo(t, 0)
        \/ \E p \in DOMAIN t :
             /\ Tree!IsInnermost(t, p)
             /\ \/ u = Tree!Close(t, p)
                \/ Tree!Opened(t) = {p} /\ u = Tree!AddTo(Tree!Close(t, p), 0)
    BY <2>4
  <2> HIDE DEF t, u
  <2> QED BY <2>6, <2>7
<1> QED BY <1>3, <1>4

LEMMA Simulation ==
  ASSUME DistinctTicks, OneFiber, IInv, ProfileInv, StackInv, [Next]_vars
  PROVE  [Tree!Next]_(Tree!vars)
<1>1. profiling \in BOOLEAN /\ profiling' \in BOOLEAN
  BY IInvNext DEF IInv, TypeOK
<1>2. ASSUME NEW fn \in Function, Call(fn) PROVE [Tree!Next]_(Tree!vars)
  BY <1>2, CallSimulated
<1>3. CASE Return BY <1>3, ReturnSimulated
<1>4. ASSUME UNCHANGED <<profiling, collector>> PROVE [Tree!Next]_(Tree!vars)
  <2>1. TreeOf(collector') = TreeOf(collector) BY <1>4
  <2> QED BY <1>4, <2>1, TreeSteps
<1>5. ASSUME DOMAIN collector'.calls = {} PROVE [Tree!Next]_(Tree!vars)
  <2>1. TreeOf(collector') = <<>> BY <1>5, EmptyTree
  <2> QED BY <1>1, <2>1, TreeSteps
<1>6. CASE FinishProbe BY <1>4, <1>6 DEF FinishProbe
<1>7. CASE OpaEnable BY <1>5, <1>7, StartedType DEF OpaEnable
<1>8. CASE OpaDisable
  <2>1. profiling' = FALSE /\ collector'.calls = collector.calls
    BY <1>8, ToggleStep DEF OpaDisable
  <2>2. TreeOf(collector') = TreeOf(collector) BY <2>1 DEF TreeOf, ParentOf, NodeAt
  <2> QED BY <2>1, <2>2, TreeSteps
<1>9. CASE StartRequest \/ EndRequest BY <1>5, <1>9, RequestStep, StartedType
<1>10. ASSUME NEW f \in Fiber, Switch(f) PROVE [Tree!Next]_(Tree!vars)
  BY <1>4, <1>10 DEF Switch
<1>11. CASE UNCHANGED vars BY <1>4, <1>11 DEF vars
<1> QED BY <1>2, <1>3, <1>6, <1>7, <1>8, <1>9, <1>10, <1>11 DEF Next, Finished

\* With one fiber and distinct ids, for any program: the list, the stack and the
\* ids of the collector implement a tree in which calls nest (call_node.c 13-138,
\* opa.c 3592-4252).
THEOREM ImplementsCallTreeHolds == DistinctTicks /\ OneFiber /\ Spec => ImplementsCallTree
<1>1. Init => Tree!Init
  <2> SUFFICES ASSUME Init PROVE Tree!Init OBVIOUS
  <2>1. profiling = FALSE /\ DOMAIN collector.calls = {} BY StartedType DEF Init
  <2>2. TreeOf(collector) = <<>> BY <2>1, EmptyTree
  <2> QED BY <2>1, <2>2 DEF Tree!Init
<1>2. CASE DistinctTicks /\ OneFiber
  <2>1. IInv /\ ProfileInv /\ StackInv /\ [Next]_vars => [Tree!Next]_(Tree!vars)
    BY <1>2, Simulation
  <2>2. DistinctTicks /\ OneFiber BY <1>2
  <2>3. Spec => ImplementsCallTree
    BY <1>1, <2>1, <2>2, Invariant, ProfileInvariant, StackInvariant, PTL
    DEF Spec, ImplementsCallTree, Tree!Spec
  <2> QED BY <2>3
<1>3. CASE ~(DistinctTicks /\ OneFiber) BY <1>3
<1> QED BY <1>2, <1>3
=============================================================================
