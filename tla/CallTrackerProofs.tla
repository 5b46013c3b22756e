------------------------- MODULE CallTrackerProofs -------------------------
(* Theorems about CallTracker. *)
EXTENDS CallTracker, SequenceTheorems, TLAPS

CollectorType ==
  [active : BOOLEAN, calls : Seq(Node), stack : Seq(Nat), sql : Seq(Op)]

\* What TypeOK says of the collector.
WellFormed(c) ==
  /\ c \in CollectorType
  /\ \A p \in DOMAIN c.stack : c.stack[p] \in DOMAIN c.calls

\* d is c after some records, all with new id id, and the end of node eid.
Extends(c, d, id, eid) ==
  /\ d.active = c.active
  /\ DOMAIN c.calls \subseteq DOMAIN d.calls
  /\ \A i \in DOMAIN c.calls :
       /\ d.calls[i].id = c.calls[i].id
       /\ d.calls[i].call = c.calls[i].call
       /\ d.calls[i].ended => c.calls[i].ended \/ c.calls[i].id = eid
  /\ \A i \in DOMAIN d.calls \ DOMAIN c.calls : /\ d.calls[i].id = id
                                                /\ d.calls[i].call = NoCall

\* Growing a collector twice grows it.
LEMMA ExtendsTransitive ==
  ASSUME NEW c, NEW d, NEW e, NEW id, NEW eid,
         Extends(c, d, id, eid), Extends(d, e, id, eid)
  PROVE  Extends(c, e, id, eid)
BY DEF Extends

\* opa_enter_function keeps the structures well formed.
LEMMA EnterFunctionType ==
  ASSUME NEW c, WellFormed(c), NEW id \in Nat \ {NoId}, NEW k \in Nat
  PROVE  /\ WellFormed(EnterFunction(c, id, k))
         /\ DOMAIN EnterFunction(c, id, k).calls = DOMAIN c.calls \cup {Len(c.calls) + 1}
         /\ EnterFunction(c, id, k).active = c.active
         /\ \A i \in DOMAIN c.calls : EnterFunction(c, id, k).calls[i] = c.calls[i]
         /\ EnterFunction(c, id, k).calls[Len(c.calls) + 1].id = id
         /\ EnterFunction(c, id, k).calls[Len(c.calls) + 1].call = k
         /\ ~EnterFunction(c, id, k).calls[Len(c.calls) + 1].ended
<1> DEFINE parent == IF c.stack = <<>> THEN NoId ELSE NodeAt(c, TopOf(c)).id
           node   == [id |-> id, parent |-> parent, call |-> k, ended |-> FALSE, ops |-> <<>>]
           e      == EnterFunction(c, id, k)
<1>1. c \in CollectorType BY DEF WellFormed
<1>2. c.calls \in Seq(Node) /\ c.stack \in Seq(Nat) /\ c.sql \in Seq(Op) /\ c.active \in BOOLEAN
  BY <1>1 DEF CollectorType
<1>3. parent \in Nat
  <2>1. CASE c.stack = <<>> BY <2>1 DEF NoId
  <2>2. CASE c.stack # <<>>
    <3>1. Len(c.stack) \in DOMAIN c.stack BY <1>2, <2>2
    <3>2. TopOf(c) \in DOMAIN c.calls BY <3>1 DEF WellFormed, TopOf
    <3>3. c.calls[TopOf(c)] \in Node BY <1>2, <3>2
    <3> QED BY <2>2, <3>3 DEF NodeAt, Node
  <2> QED BY <2>1, <2>2
<1>4. node \in Node BY <1>3 DEF Node
<1>0. e = [c EXCEPT !.calls = Append(@, node), !.stack = Append(@, Len(c.calls) + 1)]
  BY Zenon DEF EnterFunction
<1> HIDE DEF node, parent, e
<1>5. e = [active |-> c.active, calls |-> Append(c.calls, node),
           stack |-> Append(c.stack, Len(c.calls) + 1), sql |-> c.sql]
  BY <1>0, <1>1 DEF CollectorType
<1>6. Append(c.calls, node) \in Seq(Node) /\ Append(c.stack, Len(c.calls) + 1) \in Seq(Nat)
  BY <1>2, <1>4
<1>7. e \in CollectorType BY <1>2, <1>5, <1>6 DEF CollectorType
<1>8. DOMAIN e.calls = DOMAIN c.calls \cup {Len(c.calls) + 1} BY <1>2, <1>4, <1>5
<1>9. \A p \in DOMAIN e.stack : e.stack[p] \in DOMAIN e.calls
  BY SMTT(30), <1>2, <1>5, <1>8 DEF WellFormed
<1>10. \A i \in DOMAIN c.calls : e.calls[i] = c.calls[i] BY <1>2, <1>4, <1>5
<1>11. e.calls[Len(c.calls) + 1] = node BY <1>2, <1>4, <1>5
<1>12. node.id = id /\ node.call = k /\ ~node.ended BY DEF node
<1> QED BY <1>5, <1>7, <1>8, <1>9, <1>10, <1>11, <1>12 DEF WellFormed, e

\* opa_exit_function ends the nodes with the given id only.
LEMMA ExitFunctionType ==
  ASSUME NEW c, WellFormed(c), NEW eid, NEW id
  PROVE  /\ WellFormed(ExitFunction(c, eid))
         /\ Extends(c, ExitFunction(c, eid), id, eid)
<1> DEFINE d == ExitFunction(c, eid)
           ended == [i \in DOMAIN c.calls |-> IF IsFound(c, eid, i)
                       THEN [c.calls[i] EXCEPT !.ended = TRUE] ELSE c.calls[i]]
<1>1. c \in CollectorType BY DEF WellFormed
<1>2. c.calls \in Seq(Node) /\ c.stack \in Seq(Nat) /\ c.sql \in Seq(Op) /\ c.active \in BOOLEAN
  BY <1>1 DEF CollectorType
<1>3. CASE ~\E i \in DOMAIN c.calls : NodeAt(c, i).id = eid
  <2>1. d = c BY <1>3 DEF ExitFunction
  <2> QED BY <2>1 DEF Extends
<1>4. CASE \E i \in DOMAIN c.calls : NodeAt(c, i).id = eid
  <2>1. PICK st : /\ d = [active |-> c.active, calls |-> ended, stack |-> st, sql |-> c.sql]
                  /\ \/ st = c.stack
                     \/ c.stack # <<>> /\ st = SubSeq(c.stack, 1, Len(c.stack) - 1)
    BY <1>1, <1>4 DEF ExitFunction, CollectorType
  <2>2. ASSUME NEW i \in DOMAIN c.calls
        PROVE  /\ ended[i] \in Node
               /\ ended[i].id = c.calls[i].id
               /\ ended[i].call = c.calls[i].call
               /\ ended[i].ended => c.calls[i].ended \/ c.calls[i].id = eid
    <3>1. c.calls[i] \in Node BY <1>2, <2>2
    <3>2. CASE IsFound(c, eid, i)
      <4>1. ended[i] = [c.calls[i] EXCEPT !.ended = TRUE] BY <3>2, <2>2
      <4>2. c.calls[i].id = eid BY <3>2 DEF IsFound, NodeAt
      <4> QED BY <3>1, <4>1, <4>2 DEF Node
    <3>3. CASE ~IsFound(c, eid, i)
      <4>1. ended[i] = c.calls[i] BY <3>3, <2>2
      <4> QED BY <3>1, <4>1
    <3> QED BY <3>2, <3>3
  <2>3. DOMAIN ended = DOMAIN c.calls OBVIOUS
  <2>4. ended \in [DOMAIN c.calls -> Node] BY <2>2
  <2> HIDE DEF ended
  <2>41. ended \in Seq(Node)
    <3>1. DOMAIN c.calls = 1..Len(c.calls) /\ Len(c.calls) \in Nat BY <1>2
    <3> QED BY <2>4, <3>1, SeqDef
  <2>5. st \in Seq(Nat) /\ \A p \in DOMAIN st : st[p] \in DOMAIN c.calls
    <3>1. CASE st = c.stack BY <3>1, <1>2 DEF WellFormed
    <3>2. CASE c.stack # <<>> /\ st = SubSeq(c.stack, 1, Len(c.stack) - 1)
      <4>1. Len(c.stack) \in Nat \ {0} BY <1>2, <3>2
      <4>2. st \in Seq(Nat) /\ DOMAIN st \subseteq DOMAIN c.stack
            /\ \A p \in DOMAIN st : st[p] = c.stack[p] BY SMTT(30), <1>2, <3>2, <4>1
      <4> QED BY <4>2 DEF WellFormed
    <3> QED BY <2>1, <3>1, <3>2
  <2>6. WellFormed(d) BY <2>1, <2>3, <2>41, <2>5, <1>2 DEF WellFormed, CollectorType
  <2>7. Extends(c, d, id, eid) BY <2>1, <2>2, <2>3 DEF Extends
  <2> QED BY <2>6, <2>7
<1> QED BY <1>3, <1>4

\* A record_* function appends at most one node, for no call, and one operation.
LEMMA RecordType ==
  ASSUME NEW c, WellFormed(c), NEW kind \in {"sql", "http", "cache", "redis"},
         NEW k \in Nat, NEW id \in Nat \ {NoId}, NEW eid
  PROVE  /\ WellFormed(Record(c, kind, k, id))
         /\ Extends(c, Record(c, kind, k, id), id, eid)
<1> DEFINE d  == IF c.stack = <<>> /\ kind \in Stack THEN EnterFunction(c, id, NoCall) ELSE c
           op == [kind |-> kind, call |-> k]
           e  == [d EXCEPT !.calls[TopOf(d)].ops = Append(@, op),
                           !.sql = IF kind = "sql" THEN Append(@, op) ELSE @]
<1>1. Record(c, kind, k, id) = IF ~Recording(c) THEN c ELSE IF d.stack = <<>> THEN d ELSE e
  BY Zenon DEF Record
<1>2. op \in Op BY DEF Op
<1>3. WellFormed(d) /\ Extends(c, d, id, eid)
  <2>1. CASE d = c BY <2>1 DEF Extends
  <2>2. CASE d = EnterFunction(c, id, NoCall)
    <3> DEFINE g == EnterFunction(c, id, NoCall)
    <3>1. NoCall \in Nat BY DEF NoCall
    <3>2. /\ WellFormed(g)
          /\ DOMAIN g.calls = DOMAIN c.calls \cup {Len(c.calls) + 1}
          /\ g.active = c.active
          /\ \A i \in DOMAIN c.calls : g.calls[i] = c.calls[i]
          /\ g.calls[Len(c.calls) + 1].id = id
          /\ g.calls[Len(c.calls) + 1].call = NoCall
      BY <3>1, EnterFunctionType
    <3> HIDE DEF g
    <3>3. Extends(c, g, id, eid) BY <3>2 DEF Extends
    <3> QED BY <2>2, <3>2, <3>3 DEF g
  <2> QED BY <2>1, <2>2
<1> HIDE DEF d, op
<1>4. CASE d.stack # <<>>
  <2>1. d \in CollectorType BY <1>3 DEF WellFormed
  <2>2. d.calls \in Seq(Node) /\ d.stack \in Seq(Nat) /\ d.sql \in Seq(Op) /\ d.active \in BOOLEAN
    BY <2>1 DEF CollectorType
  <2>3. TopOf(d) \in DOMAIN d.calls
    <3>1. Len(d.stack) \in DOMAIN d.stack BY <2>2, <1>4
    <3> QED BY <3>1, <1>3 DEF WellFormed, TopOf
  <2> DEFINE t    == TopOf(d)
             node == [d.calls[t] EXCEPT !.ops = Append(@, op)]
             cs   == [d.calls EXCEPT ![t] = node]
             sql  == IF kind = "sql" THEN Append(d.sql, op) ELSE d.sql
  <2>4. e = [active |-> d.active, calls |-> cs, stack |-> d.stack, sql |-> sql]
    <3>1. e = [d EXCEPT !.calls = cs, !.sql = sql]
      <4>1. DOMAIN d = {"active", "calls", "stack", "sql"} BY <2>1 DEF CollectorType
      <4> QED BY <4>1, SMT
    <3> HIDE DEF cs, sql, e
    <3> QED BY <2>1, <3>1 DEF CollectorType
  <2>5. d.calls[t] \in Node BY <2>2, <2>3
  <2>6. d.calls[t].ops \in Seq(Op) BY <2>5 DEF Node
  <2>7. Append(d.calls[t].ops, op) \in Seq(Op) BY <2>6, <1>2
  <2>8. /\ node \in Node /\ node.id = d.calls[t].id /\ node.call = d.calls[t].call
        /\ node.ended = d.calls[t].ended
    BY <2>5, <2>7 DEF Node
  <2>9. sql \in Seq(Op) BY <2>2, <1>2
  <2> HIDE DEF node, sql, t
  <2>10. cs \in Seq(Node) /\ DOMAIN cs = DOMAIN d.calls
         /\ \A i \in DOMAIN d.calls : cs[i] = IF i = t THEN node ELSE d.calls[i]
    BY <2>2, <2>3, <2>8 DEF t
  <2> HIDE DEF cs, e
  <2>11. WellFormed(e) BY <1>3, <2>2, <2>4, <2>9, <2>10 DEF WellFormed, CollectorType
  <2>12. Extends(d, e, id, eid) BY <2>4, <2>8, <2>10 DEF Extends
  <2>13. Extends(c, e, id, eid) BY <1>3, <2>12, ExtendsTransitive
  <2>14. Extends(c, c, id, eid) BY DEF Extends
  <2> QED BY <1>1, <1>4, <2>11, <2>13, <2>14
<1>5. CASE d.stack = <<>>
  <2>1. Extends(c, c, id, eid) BY DEF Extends
  <2> HIDE DEF e
  <2> QED BY <1>1, <1>3, <1>5, <2>1
<1> QED BY <1>4, <1>5

\* The operations of a hooked function.
LEMMA HookRecordsType ==
  ASSUME NEW c, WellFormed(c), NEW fr \in Frame, NEW id \in Nat \ {NoId}, NEW eid
  PROVE  /\ WellFormed(HookRecords(c, fr, id))
         /\ Extends(c, HookRecords(c, fr, id), id, eid)
<1> DEFINE r1 == Record(c, "http", fr.call, id)
           r2 == Record(r1, "http", fr.call, id)
           asked == IF CollectInternal /\ Observing THEN r2 ELSE c
<1>1. fr.call \in Nat BY DEF Frame
<1>2. WellFormed(r1) /\ Extends(c, r1, id, eid) BY <1>1, RecordType
<1>3. WellFormed(r2) /\ Extends(r1, r2, id, eid) BY <1>1, <1>2, RecordType
<1>4. Extends(c, r2, id, eid) BY <1>2, <1>3, ExtendsTransitive
<1>5. Extends(c, c, id, eid) BY DEF Extends
<1>6. WellFormed(asked) /\ Extends(c, asked, id, eid) BY <1>3, <1>4, <1>5
<1>7. HookRecords(c, fr, id) = IF KindOf[fr.fn] = "mysqli" THEN Record(c, "sql", fr.call, id)
                               ELSE Record(asked, "http", fr.call, id)
  BY Zenon DEF HookRecords, MysqliRecords
<1> HIDE DEF asked
<1>8. WellFormed(Record(c, "sql", fr.call, id)) /\ Extends(c, Record(c, "sql", fr.call, id), id, eid)
  BY <1>1, RecordType
<1>9. /\ WellFormed(Record(asked, "http", fr.call, id))
      /\ Extends(asked, Record(asked, "http", fr.call, id), id, eid)
  BY <1>1, <1>6, RecordType
<1>10. Extends(c, Record(asked, "http", fr.call, id), id, eid) BY <1>6, <1>9, ExtendsTransitive
<1> QED BY <1>7, <1>8, <1>9, <1>10

\* The end callback of the general observer.
LEMMA FcallEndType ==
  ASSUME NEW c, WellFormed(c), NEW fr, NEW e, e.call \in Nat, NEW id \in Nat \ {NoId}
  PROVE  /\ WellFormed(FcallEnd(c, e, fr, id))
         /\ Extends(c, FcallEnd(c, e, fr, id), id, e.id)
<1> DEFINE x == IF e.id = NoId THEN c ELSE ExitFunction(c, e.id)
           d == IF e.kind \in Curl \/ KindOf[fr.fn] = "curl_exec"
                THEN Record(x, "http", e.call, id) ELSE x
<1>1. Extends(c, c, id, e.id) BY DEF Extends
<1>2. WellFormed(ExitFunction(c, e.id)) /\ Extends(c, ExitFunction(c, e.id), id, e.id)
  BY ExitFunctionType
<1>3. WellFormed(x) /\ Extends(c, x, id, e.id) BY <1>1, <1>2
<1> HIDE DEF x
<1>4. Extends(x, x, id, e.id) BY DEF Extends
<1>5. WellFormed(Record(x, "http", e.call, id)) /\ Extends(x, Record(x, "http", e.call, id), id, e.id)
  BY <1>3, RecordType
<1>6. WellFormed(d) /\ Extends(x, d, id, e.id) BY <1>3, <1>4, <1>5
<1>7. EndRecords(x, e, fr, id) = CASE e.kind = "apcu"  -> Record(d, "cache", e.call, id)
                                   [] e.kind = "redis" -> Record(d, "redis", e.call, id)
                                   [] OTHER            -> d
  BY Zenon DEF EndRecords
<1>8. Extends(c, d, id, e.id) BY <1>3, <1>6, ExtendsTransitive
<1> HIDE DEF d
<1>9. ASSUME NEW kind \in {"cache", "redis"}
      PROVE  /\ WellFormed(Record(d, kind, e.call, id))
             /\ Extends(c, Record(d, kind, e.call, id), id, e.id)
  <2>1. WellFormed(Record(d, kind, e.call, id)) /\ Extends(d, Record(d, kind, e.call, id), id, e.id)
    BY <1>6, RecordType
  <2> QED BY <1>8, <2>1, ExtendsTransitive
<1>10. WellFormed(EndRecords(x, e, fr, id)) /\ Extends(c, EndRecords(x, e, fr, id), id, e.id)
  BY <1>6, <1>7, <1>8, <1>9
<1>11. FcallEnd(c, e, fr, id) = EndRecords(x, e, fr, id) BY Zenon DEF FcallEnd, x
<1> QED BY <1>10, <1>11

TopId == IF Ends(Top) THEN table[Top.addr].id ELSE NoId

\* What all the callbacks around a return do to the collector.
LEMMA AfterReturnType ==
  ASSUME TypeOK, frames[running] # <<>>, NEW id \in Nat \ {NoId}
  PROVE  /\ WellFormed(AfterReturn(id))
         /\ (profiling => collector.active) => Extends(collector, AfterReturn(id), id, TopId)
<1> DEFINE hooked == IF Top.hooked THEN HookRecords(collector, Top, id) ELSE collector
           ended  == IF Ends(Top) THEN FcallEnd(hooked, table[Top.addr], Top, id) ELSE hooked
<1>1. WellFormed(collector) BY DEF TypeOK, WellFormed, CollectorType
<1>2. Top \in Frame
  <2>1. frames[running] \in Seq(Frame) BY DEF TypeOK
  <2> QED BY <2>1 DEF Top, Depth
<1>3. Extends(collector, collector, id, TopId) BY DEF Extends
<1>4. WellFormed(hooked) /\ Extends(collector, hooked, id, TopId)
  BY <1>1, <1>2, <1>3, HookRecordsType
<1> HIDE DEF hooked
<1>5. table[Top.addr].call \in Nat
  <2>1. Top.addr \in Address BY <1>2 DEF Frame
  <2> QED BY <2>1 DEF TypeOK
<1>6. WellFormed(ended) /\ Extends(collector, ended, id, TopId)
  <2>1. CASE Ends(Top)
    <3>1. /\ WellFormed(FcallEnd(hooked, table[Top.addr], Top, id))
          /\ Extends(hooked, FcallEnd(hooked, table[Top.addr], Top, id), id, table[Top.addr].id)
      BY <1>4, <1>5, FcallEndType
    <3>2. TopId = table[Top.addr].id BY <2>1 DEF TopId
    <3> QED BY <1>4, <2>1, <3>1, <3>2, ExtendsTransitive
  <2>2. CASE ~Ends(Top) BY <1>4, <2>2
  <2> QED BY <2>1, <2>2
<1> HIDE DEF ended
<1> DEFINE base == IF ended.active THEN ended ELSE Started
<1>7. AfterReturn(id) = IF "pdo" \in handlers[Top.fn] /\ profiling
                        THEN PdoEnd(ended, Top, id) ELSE ended
  BY Zenon DEF AfterReturn, ended, hooked
<1>8. WellFormed(Started) BY DEF WellFormed, CollectorType, Started
<1>9. WellFormed(base) BY <1>6, <1>8
<1>10. (profiling => collector.active) /\ profiling => base = ended BY <1>6 DEF Extends
<1> HIDE DEF base
<1>11. /\ WellFormed(Record(base, "sql", Top.call, id))
       /\ Extends(base, Record(base, "sql", Top.call, id), id, TopId)
  <2>1. Top.call \in Nat BY <1>2 DEF Frame
  <2> QED BY <1>9, <2>1, RecordType
<1>12. PdoEnd(ended, Top, id) = Record(base, "sql", Top.call, id) BY Zenon DEF PdoEnd, base
<1> QED BY <1>6, <1>7, <1>10, <1>11, <1>12, ExtendsTransitive

\* A collector that was just started, or freed, has no calls.
LEMMA StartedType ==
  \A c \in {Started, Stopped(Started)} :
    /\ c \in [active : BOOLEAN, calls : Seq(Node), stack : Seq(Nat), sql : Seq(Op)]
    /\ DOMAIN c.stack = {}
    /\ DOMAIN c.calls = {}
<1>1. /\ Started.calls = <<>> /\ Started.stack = <<>> /\ Started.sql = <<>>
      /\ Started.active = TRUE
  BY DEF Started
<1>2. <<>> \in Seq(Node) /\ <<>> \in Seq(Nat) /\ <<>> \in Seq(Op) /\ DOMAIN <<>> = {}
  BY EmptySeq
<1>3. Started \in [active : BOOLEAN, calls : Seq(Node), stack : Seq(Nat), sql : Seq(Op)]
  BY <1>2 DEF Started
<1>4. ASSUME NEW c \in [active : BOOLEAN, calls : Seq(Node), stack : Seq(Nat), sql : Seq(Op)]
      PROVE  /\ Stopped(c) \in [active : BOOLEAN, calls : Seq(Node), stack : Seq(Nat), sql : Seq(Op)]
             /\ Stopped(c).calls = c.calls /\ Stopped(c).stack = c.stack
  BY DEF Stopped
<1>5. /\ Stopped(Started) \in [active : BOOLEAN, calls : Seq(Node), stack : Seq(Nat), sql : Seq(Op)]
      /\ Stopped(Started).calls = <<>> /\ Stopped(Started).stack = <<>>
  BY <1>1, <1>3, <1>4
<1> QED BY <1>1, <1>2, <1>3, <1>5

\* generate_id returns an id, never one from the past.
LEMMA NextIdsType == TypeOK => \A id \in NextIds : id \in Nat \ {NoId} /\ id >= clock
BY DEF TypeOK, NextIds, NoId

\* The innermost frame is a frame.
LEMMA TopType == TypeOK /\ frames[running] # <<>> =>
                   /\ Top \in Frame
                   /\ Depth(running) \in DOMAIN frames[running]
                   /\ Top = frames[running][Depth(running)]
<1> SUFFICES ASSUME TypeOK, frames[running] # <<>>
             PROVE  /\ Top \in Frame
                    /\ Depth(running) \in DOMAIN frames[running]
                    /\ Top = frames[running][Depth(running)]
  OBVIOUS
<1>1. frames[running] \in Seq(Frame) BY DEF TypeOK
<1> QED BY <1>1 DEF Top, Depth

\* Changing the innermost frame keeps the others.
LEMMA SetTopType ==
  ASSUME TypeOK, frames[running] # <<>>, NEW fr \in Frame
  PROVE  SetTop(fr) \in [Fiber -> Seq(Frame)]
<1>1. frames[running] \in Seq(Frame) /\ running \in Fiber BY DEF TypeOK
<1>2. Depth(running) \in 1..Len(frames[running]) BY <1>1 DEF Depth
<1>3. [frames[running] EXCEPT ![Depth(running)] = fr] \in Seq(Frame) BY <1>1, <1>2, ExceptSeq
<1> QED BY <1>1, <1>3 DEF TypeOK, SetTop

\* The state keeps its shape: no step leaves a dangling stack entry.
LEMMA TypeNext == TypeOK /\ [Next]_vars => TypeOK'
<1> SUFFICES ASSUME TypeOK, [Next]_vars PROVE TypeOK' OBVIOUS
<1> USE ConstantsAssumption
<1>1. ASSUME NEW fn \in Function, Call(fn) PROVE TypeOK'
  <2> DEFINE observed == "general" \in InstalledFor(fn) /\ Observing
             probes   == observed /\ KindOf[fn] = "redis"
             tracked  == observed /\ KindOf[fn] # "curl_info"
  <2>1. PICK addr \in Address, id \in NextIds :
          /\ frames' = [frames EXCEPT ![running] = Append(@,
               [fn |-> fn, addr |-> addr, call |-> made + 1,
                id |-> IF tracked THEN id ELSE NoId, own |-> guard,
                hooked |-> profiling /\ KindOf[fn] \in Hooked,
                stage |-> IF probes THEN "probe" ELSE "body"])]
          /\ collector' = IF tracked THEN EnterFunction(collector, id, made + 1) ELSE collector
          /\ clock' = IF tracked THEN id ELSE clock
          /\ table' = IF observed /\ ~probes
               THEN [table EXCEPT ![addr] = Entry(IF tracked THEN id ELSE NoId, made + 1, fn)]
               ELSE table
    BY <1>1 DEF Call
  <2>2. id \in Nat \ {NoId} BY NextIdsType
  <2> HIDE DEF observed, probes, tracked
  <2> DEFINE node == IF tracked THEN id ELSE NoId
             hk   == profiling /\ KindOf[fn] \in Hooked
             st   == IF probes THEN "probe" ELSE "body"
             fr   == [fn |-> fn, addr |-> addr, call |-> made + 1, id |-> node, own |-> guard,
                      hooked |-> hk, stage |-> st]
  <2>3. node \in Nat /\ hk \in BOOLEAN /\ st \in {"probe", "body"} BY <2>2 DEF NoId
  <2>4. fr \in Frame
    <3> HIDE DEF node, hk, st
    <3> QED BY <2>3 DEF Frame, TypeOK, NoCall
  <2>5. frames' = [frames EXCEPT ![running] = Append(@, fr)] BY <2>1
  <2> HIDE DEF fr
  <2>6. frames' \in [Fiber -> Seq(Frame)] BY <2>4, <2>5 DEF TypeOK
  <2>7. WellFormed(collector) BY DEF TypeOK, WellFormed, CollectorType
  <2>8. WellFormed(EnterFunction(collector, id, made + 1)) BY <2>2, <2>7, EnterFunctionType DEF TypeOK
  <2>9. WellFormed(collector') BY <2>1, <2>7, <2>8
  <2>10. clock' \in Nat \ {0} BY <2>1, <2>2 DEF TypeOK, NoId
  <2>11. table' \in [Address -> [id : Nat, call : Nat, kind : Userland \cup Internal \cup {"none"}]]
    <3>1. KindOf[fn] \in Userland \cup Internal OBVIOUS
    <3>2. Entry(node, made + 1, fn) \in
            [id : Nat, call : Nat, kind : Userland \cup Internal \cup {"none"}]
      <4> HIDE DEF node
      <4> QED BY <2>3, <3>1 DEF Entry, TypeOK
    <3>3. table' \in {table, [table EXCEPT ![addr] = Entry(node, made + 1, fn)]} BY <2>1
    <3> HIDE DEF node
    <3> QED BY <3>2, <3>3 DEF TypeOK
  <2>12. handlers' \in [Function -> SUBSET {"general", "pdo", "unknown"}]
    <3>1. InstalledFor(fn) \in SUBSET {"general", "pdo", "unknown"}
      BY DEF InstalledFor, TypeOK
    <3>2. handlers' = [handlers EXCEPT ![fn] = InstalledFor(fn)] BY <1>1 DEF Call
    <3> QED BY <3>1, <3>2 DEF TypeOK
  <2>13. guard' \in BOOLEAN BY <1>1 DEF Call, TypeOK
  <2>14. made' \in Nat BY <1>1 DEF Call, TypeOK
  <2>15. UNCHANGED <<phase, requests, profiling, running>> BY <1>1 DEF Call
  <2> QED BY <2>6, <2>9, <2>10, <2>11, <2>12, <2>13, <2>14, <2>15
          DEF TypeOK, WellFormed, CollectorType
<1>2. CASE FinishProbe
  <2>1. Top \in Frame BY <1>2, TopType DEF FinishProbe
  <2>2. [Top EXCEPT !.stage = "body"] \in Frame BY <2>1 DEF Frame
  <2>3. frames' \in [Fiber -> Seq(Frame)] BY <1>2, <2>2, SetTopType DEF FinishProbe
  <2>4. table' \in [Address -> [id : Nat, call : Nat, kind : Userland \cup Internal \cup {"none"}]]
    <3>1. Top.id \in Nat /\ Top.call \in Nat /\ Top.fn \in Function BY <2>1 DEF Frame
    <3>2. KindOf[Top.fn] \in Userland \cup Internal BY <3>1
    <3>3. Entry(Top.id, Top.call, Top.fn) \in
            [id : Nat, call : Nat, kind : Userland \cup Internal \cup {"none"}]
      BY <3>1, <3>2 DEF Entry
    <3> QED BY <1>2, <3>3 DEF FinishProbe, TypeOK
  <2> QED BY <1>2, <2>3, <2>4 DEF FinishProbe, TypeOK
<1>3. CASE OpaEnable
  <2>1. Top \in Frame BY <1>3, TopType DEF OpaEnable
  <2>2. [Top EXCEPT !.stage = "exit"] \in Frame BY <2>1 DEF Frame
  <2>3. frames' \in [Fiber -> Seq(Frame)] BY <1>3, <2>2, SetTopType DEF OpaEnable
  <2> QED BY <1>3, <2>3, StartedType DEF OpaEnable, TypeOK
<1>4. CASE OpaDisable
  <2>1. Top \in Frame BY <1>4, TopType DEF OpaDisable
  <2>2. [Top EXCEPT !.stage = "exit"] \in Frame BY <2>1 DEF Frame
  <2>3. frames' \in [Fiber -> Seq(Frame)] BY <1>4, <2>2, SetTopType DEF OpaDisable
  <2>4. /\ Stopped(collector) \in [active : BOOLEAN, calls : Seq(Node), stack : Seq(Nat), sql : Seq(Op)]
        /\ Stopped(collector).stack = collector.stack
        /\ Stopped(collector).calls = collector.calls
    BY DEF TypeOK, Stopped
  <2> QED BY <1>4, <2>3, <2>4 DEF OpaDisable, TypeOK
<1>5. CASE Return
  <2>1. PICK id \in NextIds : /\ collector' = AfterReturn(id)
                              /\ clock' \in {id, clock}
    BY <1>5 DEF Return
  <2>2. id \in Nat \ {NoId} BY NextIdsType
  <2>3. WellFormed(collector') BY <1>5, <2>1, <2>2, AfterReturnType DEF Return
  <2>4. clock' \in Nat \ {0} BY <2>1, <2>2 DEF TypeOK, NoId
  <2>5. table' \in [Address -> [id : Nat, call : Nat, kind : Userland \cup Internal \cup {"none"}]]
    BY <1>5 DEF Return, TypeOK, NoEntry, NoId, NoCall
  <2>6. frames' \in [Fiber -> Seq(Frame)]
    <3>1. frames[running] \in Seq(Frame) /\ Len(frames[running]) \in Nat \ {0}
      BY <1>5 DEF Return, TypeOK
    <3>2. SubSeq(frames[running], 1, Len(frames[running]) - 1) \in Seq(Frame) BY <3>1
    <3> QED BY <1>5, <3>2 DEF Return, TypeOK
  <2> QED BY <1>5, <2>3, <2>4, <2>5, <2>6 DEF Return, TypeOK, WellFormed, CollectorType
<1>6. ASSUME NEW f \in Fiber, Switch(f) PROVE TypeOK'
  BY <1>6 DEF Switch, TypeOK
<1>7. CASE StartRequest
  <2>1. /\ collector' \in [active : BOOLEAN, calls : Seq(Node), stack : Seq(Nat), sql : Seq(Op)]
        /\ DOMAIN collector'.stack = {}
    BY <1>7, StartedType DEF StartRequest
  <2>2. handlers' \in [Function -> SUBSET {"general", "pdo", "unknown"}]
    BY <1>7 DEF StartRequest, Unknown
  <2>3. /\ phase' = "running" /\ requests' \in Nat /\ profiling' \in BOOLEAN /\ running' \in Fiber
        /\ UNCHANGED <<guard, clock, table, frames, made>>
    BY <1>7 DEF StartRequest, TypeOK
  <2> QED BY <2>1, <2>2, <2>3 DEF TypeOK
<1>8. CASE EndRequest
  <2>1. /\ collector' = Stopped(Started)
        /\ table' \in [Address -> [id : Nat, call : Nat, kind : Userland \cup Internal \cup {"none"}]]
    BY <1>8 DEF EndRequest, NoEntry, NoId, NoCall
  <2>2. /\ phase' = "idle" /\ profiling' = FALSE
        /\ UNCHANGED <<requests, guard, clock, handlers, frames, running, made>>
    BY <1>8 DEF EndRequest
  <2>3. handlers \in [Function -> SUBSET {"general", "pdo", "unknown"}] BY DEF TypeOK
  <2>4. /\ collector' \in [active : BOOLEAN, calls : Seq(Node), stack : Seq(Nat), sql : Seq(Op)]
        /\ DOMAIN collector'.stack = {}
    BY <2>1, StartedType
  <2>5. \A p \in DOMAIN collector'.stack : collector'.stack[p] \in DOMAIN collector'.calls
    BY <2>4
  <2> QED BY <2>1, <2>2, <2>3, <2>4, <2>5 DEF TypeOK
<1>9. CASE UNCHANGED vars
  BY <1>9 DEF vars, TypeOK
<1> QED BY <1>1, <1>2, <1>3, <1>4, <1>5, <1>6, <1>7, <1>8, <1>9 DEF Next, Finished

\* A process starts with well-formed structures.
LEMMA InitType == Init => TypeOK
  <1> SUFFICES ASSUME Init PROVE TypeOK OBVIOUS
  <1>1. table \in [Address -> [id : Nat, call : Nat, kind : Userland \cup Internal \cup {"none"}]]
    BY DEF Init, NoEntry, NoId, NoCall
  <1>2. frames \in [Fiber -> Seq(Frame)] BY DEF Init
  <1>3. handlers \in [Function -> SUBSET {"general", "pdo", "unknown"}] BY DEF Init, Unknown
  <1>4. /\ collector \in [active : BOOLEAN, calls : Seq(Node), stack : Seq(Nat), sql : Seq(Op)]
        /\ DOMAIN collector.stack = {}
    BY StartedType DEF Init
  <1>5. /\ phase = "idle" /\ requests = 0 /\ profiling = FALSE /\ guard = FALSE
        /\ clock = 1 /\ running = Main /\ made = 0
    BY DEF Init
  <1>6. \A p \in DOMAIN collector.stack : collector.stack[p] \in DOMAIN collector.calls
    BY <1>4
  <1>7. running \in Fiber /\ clock \in Nat \ {0} BY <1>5, ConstantsAssumption
  <1> QED BY <1>1, <1>2, <1>3, <1>4, <1>5, <1>6, <1>7 DEF TypeOK

\* Whatever the program calls, however its fibers switch and however often it
\* turns profiling on and off, the structures keep their shape, and every entry
\* of the call stack is a node of the list of calls.
THEOREM TypeCorrect == Spec => []TypeOK
BY InitType, TypeNext, PTL DEF Spec
-----------------------------------------------------------------------------
(* The frames after a push, a pop and a change of the innermost frame. *)

\* A call adds one frame, at an address no other live frame has.
LEMMA PushedFrames ==
  ASSUME TypeOK, NEW fr \in Frame, frames' = [frames EXCEPT ![running] = Append(@, fr)]
  PROVE  /\ \A f \in Fiber : \A d \in DOMAIN frames[f] :
              d \in DOMAIN frames'[f] /\ frames'[f][d] = frames[f][d]
         /\ Depth(running) + 1 \in DOMAIN frames'[running]
         /\ frames'[running][Depth(running) + 1] = fr
         /\ Depth(running) \in Nat /\ DOMAIN frames[running] = 1..Depth(running)
         /\ \A f \in Fiber : \A d \in DOMAIN frames'[f] :
              \/ d \in DOMAIN frames[f] /\ frames'[f][d] = frames[f][d]
              \/ f = running /\ d = Depth(running) + 1 /\ frames'[f][d] = fr
<1>1. running \in Fiber /\ \A f \in Fiber : frames[f] \in Seq(Frame) BY DEF TypeOK
<1>2. \A f \in Fiber : frames'[f] = IF f = running THEN Append(frames[f], fr) ELSE frames[f]
  BY DEF TypeOK
<1> DEFINE s == frames[running]
<1>3. /\ Len(s) \in Nat /\ DOMAIN s = 1..Len(s)
      /\ DOMAIN Append(s, fr) = 1..Len(s) + 1
      /\ \A d \in 1..Len(s) : Append(s, fr)[d] = s[d]
      /\ Append(s, fr)[Len(s) + 1] = fr
  BY <1>1
<1>4. frames'[running] = Append(s, fr) /\ \A f \in Fiber : f # running => frames'[f] = frames[f]
  BY <1>1, <1>2
<1>5. Depth(running) = Len(s) BY DEF Depth
<1>6. \A f \in Fiber : f = running => frames[f] = s OBVIOUS
<1> HIDE DEF s
<1>7. ASSUME NEW f \in Fiber
      PROVE  /\ \A d \in DOMAIN frames[f] : d \in DOMAIN frames'[f] /\ frames'[f][d] = frames[f][d]
             /\ \A d \in DOMAIN frames'[f] :
                  \/ d \in DOMAIN frames[f] /\ frames'[f][d] = frames[f][d]
                  \/ f = running /\ d = Depth(running) + 1 /\ frames'[f][d] = fr
  <2>1. CASE f = running
    <3>1. \A d \in 1..Len(s) + 1 : d \in 1..Len(s) \/ d = Len(s) + 1 BY <1>3
    <3> QED BY <1>3, <1>4, <1>5, <1>6, <2>1, <3>1
  <2>2. CASE f # running BY <1>4, <2>2
  <2> QED BY <2>1, <2>2
<1>8. s = frames[running] BY DEF s
<1> QED BY <1>3, <1>4, <1>5, <1>7, <1>8

\* A return drops the innermost frame of the running fiber and no other.
LEMMA PoppedFrames ==
  ASSUME TypeOK, frames[running] # <<>>,
         frames' = [frames EXCEPT ![running] = SubSeq(@, 1, Len(@) - 1)]
  PROVE  /\ \A f \in Fiber : \A d \in DOMAIN frames'[f] :
              /\ d \in DOMAIN frames[f]
              /\ frames'[f][d] = frames[f][d]
              /\ f = running => d # Depth(running)
         /\ \A f \in Fiber : \A d \in DOMAIN frames[f] :
              (f = running => d # Depth(running)) =>
                d \in DOMAIN frames'[f] /\ frames'[f][d] = frames[f][d]
         /\ DOMAIN frames[running] = 1..Depth(running)
<1>1. running \in Fiber /\ \A f \in Fiber : frames[f] \in Seq(Frame) BY DEF TypeOK
<1>2. \A f \in Fiber : frames'[f] = IF f = running THEN SubSeq(frames[f], 1, Len(frames[f]) - 1)
                                    ELSE frames[f]
  BY DEF TypeOK
<1> DEFINE s == frames[running]
           t == SubSeq(s, 1, Len(s) - 1)
<1>3. Len(s) \in Nat \ {0} /\ DOMAIN s = 1..Len(s) BY <1>1
<1>4. DOMAIN t = 1..Len(s) - 1 /\ \A d \in 1..Len(s) - 1 : t[d] = s[d] BY <1>1, <1>3
<1>5. frames'[running] = t /\ \A f \in Fiber : f # running => frames'[f] = frames[f]
  BY <1>1, <1>2
<1>6. Depth(running) = Len(s) BY DEF Depth
<1>7. \A f \in Fiber : f = running => frames[f] = s OBVIOUS
<1> HIDE DEF s, t
<1>8. ASSUME NEW f \in Fiber
      PROVE  /\ \A d \in DOMAIN frames'[f] :
                  d \in DOMAIN frames[f] /\ frames'[f][d] = frames[f][d]
                  /\ (f = running => d # Depth(running))
             /\ \A d \in DOMAIN frames[f] :
                  (f = running => d # Depth(running)) =>
                    d \in DOMAIN frames'[f] /\ frames'[f][d] = frames[f][d]
  <2>1. CASE f = running
    <3>1. \A n \in Nat \ {0} : /\ \A d \in 1..n : d # n => d \in 1..n - 1
                               /\ \A d \in 1..n - 1 : d \in 1..n /\ d # n
      OBVIOUS
    <3> QED BY <1>3, <1>4, <1>5, <1>6, <1>7, <2>1, <3>1
  <2>2. CASE f # running BY <1>5, <2>2
  <2> QED BY <2>1, <2>2
<1>9. DOMAIN frames[running] = 1..Depth(running) BY <1>3, <1>6 DEF s
<1> QED BY <1>8, <1>9

\* Changing the stage of the innermost frame disturbs no other frame.
LEMMA ChangedTop ==
  ASSUME TypeOK, frames[running] # <<>>, NEW fr \in Frame, frames' = SetTop(fr)
  PROVE  /\ \A f \in Fiber : DOMAIN frames'[f] = DOMAIN frames[f]
         /\ \A f \in Fiber : \A d \in DOMAIN frames[f] :
              frames'[f][d] = IF f = running /\ d = Depth(running) THEN fr ELSE frames[f][d]
         /\ Depth(running) \in DOMAIN frames[running]
         /\ DOMAIN frames[running] = 1..Depth(running)
<1>1. running \in Fiber /\ \A f \in Fiber : frames[f] \in Seq(Frame) BY DEF TypeOK
<1>2. frames' = [frames EXCEPT ![running][Depth(running)] = fr] BY DEF SetTop
<1>3. Depth(running) \in DOMAIN frames[running] BY <1>1 DEF Depth
<1>4. \A f \in Fiber : frames'[f] = IF f = running THEN [frames[f] EXCEPT ![Depth(running)] = fr]
                                    ELSE frames[f]
  BY <1>2 DEF TypeOK
<1>5. DOMAIN frames[running] = 1..Depth(running) BY <1>1 DEF Depth
<1>6. ASSUME NEW f \in Fiber
      PROVE  /\ DOMAIN frames'[f] = DOMAIN frames[f]
             /\ \A d \in DOMAIN frames[f] :
                  frames'[f][d] = IF f = running /\ d = Depth(running) THEN fr ELSE frames[f][d]
  <2>1. CASE f = running
    <3>1. frames'[f] = [frames[f] EXCEPT ![Depth(running)] = fr] BY <1>4, <2>1
    <3> QED BY <2>1, <3>1, <1>1, <1>3
  <2>2. CASE f # running BY <1>4, <2>2
  <2> QED BY <2>1, <2>2
<1> QED BY <1>3, <1>5, <1>6
-----------------------------------------------------------------------------
(* The invariant behind EndsOwnNode. *)

\* While the guard is held, what may return is the extension's own.
LEMMA GuardedTop ==
  ASSUME TypeOK, GuardHeld, guard, frames[running] # <<>>, Top.stage # "probe"
  PROVE  Top.own
<1>1. PICK d \in DOMAIN frames[running] :
        /\ frames[running][d].stage = "probe"
        /\ \A e \in DOMAIN frames[running] : e > d => frames[running][e].own
  BY DEF GuardHeld
<1>2. frames[running] \in Seq(Frame) BY DEF TypeOK
<1>3. Depth(running) \in DOMAIN frames[running] /\ DOMAIN frames[running] = 1..Depth(running)
  BY <1>2 DEF Depth
<1>4. d # Depth(running) BY <1>1 DEF Top
<1>5. Depth(running) \in Nat BY <1>2 DEF Depth
<1>6. Depth(running) > d BY <1>3, <1>4, <1>5
<1> QED BY <1>1, <1>3, <1>6 DEF Top

\* How the guard goes with a call, a return and the end of a probe.
LEMMA GuardPushed ==
  ASSUME TypeOK, GuardHeld, NEW fr \in Frame,
         frames' = [frames EXCEPT ![running] = Append(@, fr)],
         NEW probes, probes => ~guard, guard' = (guard \/ probes), running' = running,
         fr.own = guard, fr.stage = IF probes THEN "probe" ELSE "body"
  PROVE  GuardHeld'
<1> DEFINE new == Depth(running) + 1
<1>1. /\ \A f \in Fiber : \A d \in DOMAIN frames[f] :
            d \in DOMAIN frames'[f] /\ frames'[f][d] = frames[f][d]
      /\ new \in DOMAIN frames'[running]
      /\ frames'[running][new] = fr
      /\ Depth(running) \in Nat /\ DOMAIN frames[running] = 1..Depth(running)
      /\ \A f \in Fiber : \A d \in DOMAIN frames'[f] :
           \/ d \in DOMAIN frames[f] /\ frames'[f][d] = frames[f][d]
           \/ f = running /\ d = new /\ frames'[f][d] = fr
  BY PushedFrames
<1> HIDE DEF new
<1>2. running \in Fiber BY DEF TypeOK
<1>3. CASE guard
  <2>1. guard' /\ fr.stage = "body" /\ fr.own BY <1>3
  <2>2. PICK d \in DOMAIN frames[running] :
          /\ frames[running][d].stage = "probe"
          /\ \A e \in DOMAIN frames[running] : e > d => frames[running][e].own
    BY <1>3 DEF GuardHeld
  <2>3. d \in DOMAIN frames'[running'] /\ frames'[running'][d].stage = "probe"
    BY <1>1, <1>2, <2>2
  <2>4. \A e \in DOMAIN frames'[running'] : e > d => frames'[running'][e].own
    BY <1>1, <1>2, <2>1, <2>2
  <2>5. \A f \in Fiber : \A e \in DOMAIN frames'[f] : frames'[f][e].stage = "probe" =>
          e \in DOMAIN frames[f] /\ frames[f][e].stage = "probe"
    BY <1>1, <2>1
  <2>6. \A f, g \in Fiber : \A a \in DOMAIN frames'[f], b \in DOMAIN frames'[g] :
          frames'[f][a].stage = "probe" /\ frames'[g][b].stage = "probe" => f = g /\ a = b
    BY <2>5 DEF GuardHeld
  <2> QED BY <2>1, <2>3, <2>4, <2>6 DEF GuardHeld
<1>4. CASE ~guard
  <2>1. \A f \in Fiber : \A d \in DOMAIN frames[f] : frames[f][d].stage # "probe"
    BY <1>4 DEF GuardHeld
  <2>2. CASE probes
    <3>1. guard' /\ fr.stage = "probe" BY <1>4, <2>2
    <3>2. \A e \in DOMAIN frames'[running'] : ~(e > new) BY <1>1, <1>2 DEF new
    <3>3. /\ new \in DOMAIN frames'[running'] /\ frames'[running'][new].stage = "probe"
          /\ \A f \in Fiber : \A d \in DOMAIN frames'[f] :
               frames'[f][d].stage = "probe" => f = running /\ d = new
      BY <1>1, <2>1, <3>1
    <3> QED BY <3>1, <3>2, <3>3 DEF GuardHeld
  <2>3. CASE ~probes
    <3>1. ~guard' /\ fr.stage = "body" BY <1>4, <2>3
    <3> QED BY <1>1, <2>1, <3>1 DEF GuardHeld
  <2> QED BY <2>2, <2>3
<1> QED BY <1>3, <1>4

LEMMA GuardPopped ==
  ASSUME TypeOK, GuardHeld, frames[running] # <<>>, Top.stage # "probe",
         frames' = [frames EXCEPT ![running] = SubSeq(@, 1, Len(@) - 1)],
         UNCHANGED <<guard, running>>
  PROVE  GuardHeld'
<1>1. /\ Depth(running) \in DOMAIN frames[running]
      /\ Top = frames[running][Depth(running)] /\ running \in Fiber
  BY TopType DEF TypeOK
<1>2. /\ \A f \in Fiber : \A d \in DOMAIN frames'[f] :
           /\ d \in DOMAIN frames[f]
           /\ frames'[f][d] = frames[f][d]
           /\ f = running => d # Depth(running)
      /\ \A f \in Fiber : \A d \in DOMAIN frames[f] :
           (f = running => d # Depth(running)) =>
             d \in DOMAIN frames'[f] /\ frames'[f][d] = frames[f][d]
  BY PoppedFrames
<1>3. CASE guard
  <2>1. PICK d \in DOMAIN frames[running] :
          /\ frames[running][d].stage = "probe"
          /\ \A e \in DOMAIN frames[running] : e > d => frames[running][e].own
    BY <1>3 DEF GuardHeld
  <2>2. d # Depth(running) BY <1>1, <2>1
  <2>3. d \in DOMAIN frames'[running'] /\ frames'[running'][d].stage = "probe"
    BY <1>1, <1>2, <2>1, <2>2
  <2>4. \A e \in DOMAIN frames'[running'] : e > d => frames'[running'][e].own
    BY <1>1, <1>2, <2>1
  <2> QED BY <1>2, <1>3, <2>3, <2>4 DEF GuardHeld
<1>4. CASE ~guard BY <1>2, <1>4 DEF GuardHeld
<1> QED BY <1>3, <1>4

LEMMA GuardReleased ==
  ASSUME TypeOK, GuardHeld, frames[running] # <<>>, Top.stage = "probe",
         NEW fr \in Frame, frames' = SetTop(fr), fr.stage = "body", guard' = FALSE
  PROVE  GuardHeld' /\ \A f \in Fiber : \A d \in DOMAIN frames[f] :
                         frames[f][d].stage = "probe" => f = running /\ d = Depth(running)
<1>1. /\ Depth(running) \in DOMAIN frames[running]
      /\ Top = frames[running][Depth(running)] /\ running \in Fiber
  BY TopType DEF TypeOK
<1>2. /\ \A f \in Fiber : DOMAIN frames'[f] = DOMAIN frames[f]
      /\ \A f \in Fiber : \A d \in DOMAIN frames[f] :
           frames'[f][d] = IF f = running /\ d = Depth(running) THEN fr ELSE frames[f][d]
  BY ChangedTop
<1>3. \A f \in Fiber : \A d \in DOMAIN frames[f] :
        frames[f][d].stage = "probe" => f = running /\ d = Depth(running)
  BY <1>1 DEF GuardHeld
<1>4. \A f \in Fiber : \A d \in DOMAIN frames'[f] : frames'[f][d].stage # "probe"
  BY <1>2, <1>3
<1> QED BY <1>3, <1>4 DEF GuardHeld

\* An id in the table that leads to a node is that of the frame at its address.
LEMMA TopEntryIsOwn ==
  ASSUME IInv, profiling, frames[running] # <<>>,
         NEW i \in DOMAIN collector.calls, table[Top.addr].id = collector.calls[i].id
  PROVE  Top.id = collector.calls[i].id /\ collector.calls[i].call = Top.call
<1>1. TypeOK BY DEF IInv
<1>2. Top \in Frame /\ Depth(running) \in DOMAIN frames[running]
      /\ Top = frames[running][Depth(running)]
  BY <1>1, TopType
<1>3. Top.addr \in Address /\ running \in Fiber BY <1>1, <1>2 DEF Frame, TypeOK
<1>4. PICK f \in Fiber : \E d \in DOMAIN frames[f] :
        frames[f][d].addr = Top.addr /\ frames[f][d].id = collector.calls[i].id
  BY <1>3 DEF IInv, TableIdsLeadHome
<1>5. PICK d \in DOMAIN frames[f] :
        frames[f][d].addr = Top.addr /\ frames[f][d].id = collector.calls[i].id
  BY <1>4
<1>6. f = running /\ d = Depth(running) BY <1>2, <1>3, <1>5 DEF IInv, DistinctAddresses
<1>7. Top.id = collector.calls[i].id BY <1>2, <1>5, <1>6
<1>8. collector.calls[i].call = Top.call BY <1>2, <1>3, <1>7 DEF IInv, FrameIdsLeadHome
<1> QED BY <1>7, <1>8

\* A call: the new id is on the new frame, its table entry and its node only.
LEMMA CallInv ==
  ASSUME DistinctTicks, IInv, NEW fn \in Function, Call(fn), TypeOK'
  PROVE  IInv'
<1> USE ConstantsAssumption
<1> DEFINE observed == "general" \in InstalledFor(fn) /\ Observing
           probes   == observed /\ KindOf[fn] = "redis"
           tracked  == observed /\ KindOf[fn] # "curl_info"
<1>1. PICK addr \in Address \ UNION {LiveAt(f) : f \in Fiber}, id \in NextIds :
        /\ frames' = [frames EXCEPT ![running] = Append(@,
             [fn |-> fn, addr |-> addr, call |-> made + 1,
              id |-> IF tracked THEN id ELSE NoId, own |-> guard,
              hooked |-> profiling /\ KindOf[fn] \in Hooked,
              stage |-> IF probes THEN "probe" ELSE "body"])]
        /\ collector' = IF tracked THEN EnterFunction(collector, id, made + 1) ELSE collector
        /\ clock' = IF tracked THEN id ELSE clock
        /\ table' = IF observed /\ ~probes
             THEN [table EXCEPT ![addr] = Entry(IF tracked THEN id ELSE NoId, made + 1, fn)]
             ELSE table
  BY DEF Call
<1>2. TypeOK BY DEF IInv
<1>3. id = clock + 1 /\ clock \in Nat \ {0} /\ made \in Nat /\ id \in Nat \ {NoId}
  BY <1>2 DEF NextIds, TypeOK, NoId
<1>4. observed => ~guard /\ profiling /\ collector.active /\ "general" \in handlers'[fn]
  BY <1>2 DEF Call, Observing, TypeOK
<1>5. /\ guard' = (guard \/ probes) /\ made' = made + 1
      /\ UNCHANGED <<phase, requests, profiling, running>> /\ phase = "running"
  BY DEF Call
<1>6. addr \in Address /\ \A f \in Fiber : \A d \in DOMAIN frames[f] : frames[f][d].addr # addr
  <2>1. \A f \in Fiber : addr \notin LiveAt(f) OBVIOUS
  <2>2. \A f \in Fiber : frames[f] \in Seq(Frame) BY <1>2 DEF TypeOK
  <2> QED BY <2>1, <2>2 DEF LiveAt, Depth
<1> DEFINE node == IF tracked THEN id ELSE NoId
           hk   == profiling /\ KindOf[fn] \in Hooked
           st   == IF probes THEN "probe" ELSE "body"
           fr   == [fn |-> fn, addr |-> addr, call |-> made + 1, id |-> node, own |-> guard,
                    hooked |-> hk, stage |-> st]
<1>7. probes => observed OBVIOUS
<1>8. tracked => observed OBVIOUS
<1> HIDE DEF observed, probes, tracked
<1>9. node \in Nat /\ hk \in BOOLEAN /\ st \in {"probe", "body"} BY <1>3 DEF NoId
<1>10. fr \in Frame
  <2> HIDE DEF node, hk, st
  <2>1. addr \in Address /\ made + 1 \in Nat \ {NoCall} /\ guard \in BOOLEAN
    BY <1>2, <1>3, <1>6 DEF TypeOK, NoCall
  <2> QED BY <1>9, <2>1 DEF Frame
<1>11. /\ fr.fn = fn /\ fr.addr = addr /\ fr.call = made + 1 /\ fr.id = node
       /\ fr.own = guard /\ fr.stage = st
  OBVIOUS
<1>12. frames' = [frames EXCEPT ![running] = Append(@, fr)] BY <1>1
<1> HIDE DEF fr, hk
<1> DEFINE new == Depth(running) + 1
<1>13. /\ \A f \in Fiber : \A d \in DOMAIN frames[f] :
             d \in DOMAIN frames'[f] /\ frames'[f][d] = frames[f][d]
       /\ new \in DOMAIN frames'[running]
       /\ frames'[running][new] = fr
       /\ Depth(running) \in Nat /\ DOMAIN frames[running] = 1..Depth(running)
       /\ \A f \in Fiber : \A d \in DOMAIN frames'[f] :
            \/ d \in DOMAIN frames[f] /\ frames'[f][d] = frames[f][d]
            \/ f = running /\ d = new /\ frames'[f][d] = fr
  BY <1>2, <1>10, <1>12, PushedFrames
<1> HIDE DEF new
<1>14. running \in Fiber /\ running' = running BY <1>2, <1>5 DEF TypeOK
<1>15. /\ DOMAIN collector.calls \subseteq DOMAIN collector'.calls
       /\ collector'.active = collector.active
       /\ \A i \in DOMAIN collector.calls : collector'.calls[i] = collector.calls[i]
       /\ \A i \in DOMAIN collector'.calls \ DOMAIN collector.calls :
            tracked /\ collector'.calls[i].id = id /\ collector'.calls[i].call = made + 1
  <2>1. WellFormed(collector) BY <1>2 DEF TypeOK, WellFormed, CollectorType
  <2> DEFINE k == made + 1
             e == EnterFunction(collector, id, k)
  <2>2. k \in Nat /\ id \in Nat \ {NoId} BY <1>3
  <2>5. collector' = IF tracked THEN e ELSE collector BY <1>1
  <2>6. k = made + 1 OBVIOUS
  <2> HIDE DEF k
  <2>3. /\ DOMAIN e.calls = DOMAIN collector.calls \cup {Len(collector.calls) + 1}
        /\ e.active = collector.active
        /\ \A i \in DOMAIN collector.calls : e.calls[i] = collector.calls[i]
        /\ e.calls[Len(collector.calls) + 1].id = id
        /\ e.calls[Len(collector.calls) + 1].call = k
    BY <2>1, <2>2, EnterFunctionType
  <2> HIDE DEF e
  <2> QED BY <2>3, <2>5, <2>6
<1>16. \A a \in Address :
         \/ table'[a] = table[a]
         \/ a = addr /\ table'[a].id = node /\ observed /\ ~probes
  BY <1>1, <1>2, <1>6 DEF TypeOK, Entry
<1>17. \A i \in DOMAIN collector.calls :
         /\ collector.calls[i].id \in Nat \ {NoId} /\ collector.calls[i].call \in Nat
  <2>1. collector.calls \in Seq(Node) BY <1>2 DEF TypeOK
  <2>2. \A i \in DOMAIN collector.calls : collector.calls[i] \in Node BY <2>1
  <2> QED BY <2>2 DEF Node
<1>18. \A f \in Fiber : \A d \in DOMAIN frames[f] : frames[f][d] \in Frame
  <2>1. \A f \in Fiber : frames[f] \in Seq(Frame) BY <1>2 DEF TypeOK
  <2> QED BY <2>1
<1>19. clock' = IF tracked THEN id ELSE clock BY <1>1
<1>20. node = IF tracked THEN id ELSE NoId OBVIOUS
<1>21. st = IF probes THEN "probe" ELSE "body" OBVIOUS
<1> HIDE DEF node, st
<1>22. (profiling => collector.active)' BY <1>5, <1>15 DEF IInv
<1>23. (phase = "idle" => \A f \in Fiber : frames[f] = <<>>)' BY <1>5
<1>24. Bounded'
  <2>1. \A i \in DOMAIN collector'.calls : /\ collector'.calls[i].id <= clock'
                                           /\ collector'.calls[i].call <= made'
    BY <1>3, <1>5, <1>15, <1>17, <1>19 DEF IInv, Bounded
  <2>2. \A a \in Address : table'[a].id <= clock'
    <3>1. \A a \in Address : table[a].id \in Nat BY <1>2 DEF TypeOK
    <3> QED BY <1>3, <1>16, <1>19, <1>20, <3>1 DEF IInv, Bounded, NoId
  <2>3. \A f \in Fiber : \A d \in DOMAIN frames'[f] : /\ frames'[f][d].id <= clock'
                                                      /\ frames'[f][d].call <= made'
    <3>1. \A f \in Fiber : \A d \in DOMAIN frames[f] :
            frames[f][d].id \in Nat /\ frames[f][d].call \in Nat
      BY <1>18 DEF Frame
    <3> QED BY <1>3, <1>5, <1>11, <1>13, <1>19, <1>20, <3>1 DEF IInv, Bounded, NoId
  <2> QED BY <2>1, <2>2, <2>3 DEF Bounded
<1>25. DistinctAddresses' BY <1>6, <1>11, <1>13 DEF IInv, DistinctAddresses
<1>26. GuardHeld'
  BY <1>2, <1>4, <1>5, <1>7, <1>10, <1>11, <1>12, <1>21, GuardPushed DEF IInv
<1>27. OwnUntracked'
  <2> SUFFICES ASSUME NEW f \in Fiber, NEW d \in DOMAIN frames'[f], frames'[f][d].own
               PROVE  /\ frames'[f][d].id = NoId
                      /\ \A i \in DOMAIN collector'.calls :
                           collector'.calls[i].call # frames'[f][d].call
    BY DEF OwnUntracked
  <2>1. CASE d \in DOMAIN frames[f] /\ frames'[f][d] = frames[f][d]
    <3>1. frames[f][d].call <= made /\ frames[f][d].call \in Nat
      BY <1>18, <2>1 DEF IInv, Bounded, Frame
    <3> QED BY <1>3, <1>15, <2>1, <3>1 DEF IInv, OwnUntracked
  <2>2. CASE frames'[f][d] = fr
    <3>1. guard BY <1>11, <2>2
    <3>2. ~tracked BY <1>4, <1>8, <3>1
    <3> QED BY <1>3, <1>11, <1>15, <1>17, <1>20, <2>2, <3>2 DEF IInv, Bounded
  <2> QED BY <1>13, <2>1, <2>2
<1>28. TrackedObserved'
  <2> SUFFICES ASSUME NEW f \in Fiber, NEW d \in DOMAIN frames'[f], frames'[f][d].id # NoId
               PROVE  "general" \in handlers'[frames'[f][d].fn]
    BY DEF TrackedObserved
  <2>1. CASE d \in DOMAIN frames[f] /\ frames'[f][d] = frames[f][d]
    <3>1. "general" \in handlers[frames[f][d].fn] BY <2>1 DEF IInv, TrackedObserved
    <3>2. handlers' = [handlers EXCEPT ![fn] = InstalledFor(fn)] BY DEF Call
    <3>3. frames[f][d].fn = fn => InstalledFor(fn) = handlers[fn]
      BY <3>1 DEF InstalledFor, Unknown
    <3>4. DOMAIN handlers = Function BY <1>2 DEF TypeOK
    <3>5. frames[f][d].fn \in Function BY <1>18, <2>1 DEF Frame
    <3> HIDE DEF Call
    <3>6. handlers'[frames[f][d].fn] = handlers[frames[f][d].fn] BY <3>2, <3>3, <3>4, <3>5
    <3> QED BY <2>1, <3>1, <3>6
  <2>2. CASE frames'[f][d] = fr
    BY <1>4, <1>8, <1>11, <1>20, <2>2
  <2> QED BY <1>13, <2>1, <2>2
<1>29. FrameIdsLeadHome'
  <2> SUFFICES ASSUME profiling, NEW i \in DOMAIN collector'.calls, NEW f \in Fiber,
                      NEW d \in DOMAIN frames'[f], frames'[f][d].id = collector'.calls[i].id
               PROVE  frames'[f][d].call = collector'.calls[i].call
    BY <1>5 DEF FrameIdsLeadHome
  <2>1. CASE i \in DOMAIN collector.calls
    <3>1. collector'.calls[i] = collector.calls[i] BY <1>15, <2>1
    <3>2. collector.calls[i].id <= clock /\ collector.calls[i].id \in Nat \ {NoId}
      BY <1>17, <2>1 DEF IInv, Bounded
    <3>3. frames'[f][d] # fr BY <1>3, <1>11, <1>20, <3>1, <3>2
    <3> QED BY <1>13, <2>1, <3>1, <3>3 DEF IInv, FrameIdsLeadHome
  <2>2. CASE i \notin DOMAIN collector.calls
    <3>1. collector'.calls[i].id = id /\ collector'.calls[i].call = made + 1 BY <1>15, <2>2
    <3>2. CASE d \in DOMAIN frames[f] /\ frames'[f][d] = frames[f][d]
      <4>1. frames[f][d].id <= clock /\ frames[f][d].id \in Nat
        BY <1>18, <3>2 DEF IInv, Bounded, Frame
      <4> QED BY <1>3, <3>1, <3>2, <4>1
    <3>3. CASE frames'[f][d] = fr BY <1>11, <3>1, <3>3
    <3> QED BY <1>13, <3>2, <3>3
  <2> QED BY <2>1, <2>2
<1>30. TableIdsLeadHome'
  <2> SUFFICES ASSUME profiling, NEW i \in DOMAIN collector'.calls, NEW a \in Address,
                      table'[a].id = collector'.calls[i].id
               PROVE  \E f \in Fiber : \E d \in DOMAIN frames'[f] :
                        frames'[f][d].addr = a /\ frames'[f][d].id = collector'.calls[i].id
    BY <1>5 DEF TableIdsLeadHome
  <2>1. CASE a = addr /\ table'[a].id = node
    BY <1>11, <1>13, <1>14, <2>1
  <2>2. CASE table'[a] = table[a]
    <3>1. table[a].id <= clock /\ table[a].id \in Nat BY <1>2 DEF IInv, Bounded, TypeOK
    <3>2. i \in DOMAIN collector.calls BY <1>3, <1>15, <2>2, <3>1
    <3>3. collector'.calls[i] = collector.calls[i] BY <1>15, <3>2
    <3>4. PICK f \in Fiber : \E d \in DOMAIN frames[f] :
            frames[f][d].addr = a /\ frames[f][d].id = collector.calls[i].id
      BY <2>2, <3>2, <3>3 DEF IInv, TableIdsLeadHome
    <3> QED BY <1>13, <3>3, <3>4
  <2> QED BY <1>16, <2>1, <2>2
<1> QED BY <1>22, <1>23, <1>24, <1>25, <1>26, <1>27, <1>28, <1>29, <1>30 DEF IInv

\* The frames keep all but their stage, and the collector its calls or none.
LEMMA FinishProbeInv ==
  ASSUME IInv, FinishProbe, TypeOK'
  PROVE  IInv'
<1>1. TypeOK BY DEF IInv
<1> DEFINE fr == [Top EXCEPT !.stage = "body"]
<1>2. /\ frames[running] # <<>> /\ Top.stage = "probe"
      /\ table' = [table EXCEPT ![Top.addr] = Entry(Top.id, Top.call, Top.fn)]
      /\ guard' = FALSE /\ phase = "running" /\ frames' = SetTop(fr)
      /\ UNCHANGED <<phase, requests, profiling, clock, collector, handlers, running, made>>
  BY DEF FinishProbe
<1>3. /\ Top \in Frame /\ Depth(running) \in DOMAIN frames[running]
      /\ Top = frames[running][Depth(running)] /\ running \in Fiber
  BY <1>1, <1>2, TopType DEF TypeOK
<1>4. /\ fr \in Frame /\ fr.fn = Top.fn /\ fr.addr = Top.addr /\ fr.call = Top.call
      /\ fr.id = Top.id /\ fr.own = Top.own /\ fr.stage = "body"
  BY <1>3 DEF Frame
<1> HIDE DEF fr
<1>5. /\ \A f \in Fiber : DOMAIN frames'[f] = DOMAIN frames[f]
      /\ \A f \in Fiber : \A d \in DOMAIN frames[f] :
           frames'[f][d] = IF f = running /\ d = Depth(running) THEN fr ELSE frames[f][d]
  BY <1>1, <1>2, <1>4, ChangedTop
<1>6. \A f \in Fiber : \A d \in DOMAIN frames[f] :
        /\ frames'[f][d].fn = frames[f][d].fn /\ frames'[f][d].addr = frames[f][d].addr
        /\ frames'[f][d].call = frames[f][d].call /\ frames'[f][d].id = frames[f][d].id
        /\ frames'[f][d].own = frames[f][d].own
  BY <1>3, <1>4, <1>5
<1>7. \A a \in Address : table'[a] = table[a] \/ (a = Top.addr /\ table'[a].id = Top.id)
  BY <1>1, <1>2, <1>3 DEF TypeOK, Entry, Frame
<1>8. Bounded' BY <1>2, <1>3, <1>5, <1>6, <1>7 DEF IInv, Bounded
<1>9. DistinctAddresses' BY <1>5, <1>6 DEF IInv, DistinctAddresses
<1>10. GuardHeld' BY <1>1, <1>2, <1>4, GuardReleased DEF IInv
<1>11. OwnUntracked' BY <1>2, <1>5, <1>6 DEF IInv, OwnUntracked
<1>12. TrackedObserved' BY <1>2, <1>5, <1>6 DEF IInv, TrackedObserved
<1>13. FrameIdsLeadHome' BY <1>2, <1>5, <1>6 DEF IInv, FrameIdsLeadHome
<1>14. TableIdsLeadHome'
  <2> SUFFICES ASSUME profiling, NEW i \in DOMAIN collector.calls, NEW a \in Address,
                      table'[a].id = collector.calls[i].id
               PROVE  \E f \in Fiber : \E d \in DOMAIN frames'[f] :
                        frames'[f][d].addr = a /\ frames'[f][d].id = collector.calls[i].id
    BY <1>2 DEF TableIdsLeadHome
  <2>1. CASE table'[a] = table[a]
    <3>1. PICK f \in Fiber : \E d \in DOMAIN frames[f] :
            frames[f][d].addr = a /\ frames[f][d].id = collector.calls[i].id
      BY <2>1 DEF IInv, TableIdsLeadHome
    <3> QED BY <1>5, <1>6, <3>1
  <2>2. CASE a = Top.addr /\ table'[a].id = Top.id BY <1>3, <1>5, <1>6, <2>2
  <2> QED BY <1>7, <2>1, <2>2
<1>15. (profiling => collector.active)' /\ (phase = "idle" => \A f \in Fiber : frames[f] = <<>>)'
  BY <1>2 DEF IInv
<1> QED BY <1>8, <1>9, <1>10, <1>11, <1>12, <1>13, <1>14, <1>15 DEF IInv

\* opa_enable and opa_disable: no id leads to a node of the running profile,
\* for there is no node, or no running profile.
LEMMA ToggleInv ==
  ASSUME IInv, OpaEnable \/ OpaDisable, TypeOK'
  PROVE  IInv'
<1>1. TypeOK BY DEF IInv
<1> DEFINE fr == [Top EXCEPT !.stage = "exit"]
<1>2. /\ frames[running] # <<>> /\ Top.stage = "body"
      /\ phase = "running" /\ frames' = SetTop(fr)
      /\ UNCHANGED <<phase, requests, guard, clock, table, handlers, running, made>>
      /\ \/ profiling' = TRUE /\ collector' = Started
         \/ profiling' = FALSE /\ collector' = Stopped(collector)
  BY DEF OpaEnable, OpaDisable
<1>3. /\ Top \in Frame /\ Depth(running) \in DOMAIN frames[running]
      /\ Top = frames[running][Depth(running)] /\ running \in Fiber
  BY <1>1, <1>2, TopType DEF TypeOK
<1>4. /\ fr \in Frame /\ fr.fn = Top.fn /\ fr.addr = Top.addr /\ fr.call = Top.call
      /\ fr.id = Top.id /\ fr.own = Top.own /\ fr.stage = "exit"
  BY <1>3 DEF Frame
<1> HIDE DEF fr
<1>5. /\ \A f \in Fiber : DOMAIN frames'[f] = DOMAIN frames[f]
      /\ \A f \in Fiber : \A d \in DOMAIN frames[f] :
           frames'[f][d] = IF f = running /\ d = Depth(running) THEN fr ELSE frames[f][d]
  BY <1>1, <1>2, <1>4, ChangedTop
<1>6. \A f \in Fiber : \A d \in DOMAIN frames[f] :
        /\ frames'[f][d].fn = frames[f][d].fn /\ frames'[f][d].addr = frames[f][d].addr
        /\ frames'[f][d].call = frames[f][d].call /\ frames'[f][d].id = frames[f][d].id
        /\ frames'[f][d].own = frames[f][d].own
        /\ frames'[f][d].stage = "probe" <=> frames[f][d].stage = "probe"
  BY <1>2, <1>3, <1>4, <1>5
<1>7. /\ DOMAIN collector'.calls \subseteq DOMAIN collector.calls
      /\ \A i \in DOMAIN collector'.calls : collector'.calls[i] = collector.calls[i]
      /\ profiling' => collector'.active /\ DOMAIN collector'.calls = {}
  <2>1. Started.active /\ DOMAIN Started.calls = {} BY StartedType DEF Started
  <2>2. Stopped(collector).calls = collector.calls BY <1>1 DEF TypeOK, Stopped
  <2> QED BY <1>2, <2>1, <2>2
<1>8. Bounded' BY <1>2, <1>5, <1>6, <1>7 DEF IInv, Bounded
<1>9. DistinctAddresses' BY <1>5, <1>6 DEF IInv, DistinctAddresses
<1>10. GuardHeld' BY <1>2, <1>3, <1>5, <1>6 DEF IInv, GuardHeld
<1>11. OwnUntracked' BY <1>5, <1>6, <1>7 DEF IInv, OwnUntracked
<1>12. TrackedObserved' BY <1>2, <1>5, <1>6 DEF IInv, TrackedObserved
<1>13. FrameIdsLeadHome' /\ TableIdsLeadHome' BY <1>7 DEF FrameIdsLeadHome, TableIdsLeadHome
<1>14. (profiling => collector.active)' /\ (phase = "idle" => \A f \in Fiber : frames[f] = <<>>)'
  BY <1>2, <1>7
<1> QED BY <1>8, <1>9, <1>10, <1>11, <1>12, <1>13, <1>14 DEF IInv

\* A return: no node gets an id of a live frame, no live frame loses its data.
LEMMA ReturnInv ==
  ASSUME DistinctTicks, IInv, Return, TypeOK'
  PROVE  IInv'
<1>1. TypeOK BY DEF IInv
<1>2. /\ frames[running] # <<>> /\ phase = "running"
      /\ Top.stage # "probe"
      /\ table' = IF Ends(Top) THEN [table EXCEPT ![Top.addr] = NoEntry] ELSE table
      /\ frames' = [frames EXCEPT ![running] = SubSeq(@, 1, Len(@) - 1)]
      /\ UNCHANGED <<phase, requests, profiling, guard, handlers, running, made>>
  BY DEF Return
<1>3. PICK id \in NextIds :
        /\ collector' = AfterReturn(id)
        /\ clock' = IF Len(collector'.calls) > Len(collector.calls) THEN id ELSE clock
  BY DEF Return
<1>4. id = clock + 1 /\ clock \in Nat \ {0} /\ made \in Nat /\ id \in Nat \ {NoId}
  BY <1>1 DEF NextIds, TypeOK, NoId
<1>5. /\ Top \in Frame /\ Depth(running) \in DOMAIN frames[running]
      /\ Top = frames[running][Depth(running)] /\ running \in Fiber
  BY <1>1, <1>2, TopType DEF TypeOK
<1>6. Extends(collector, collector', id, TopId)
  BY <1>1, <1>2, <1>3, <1>4, AfterReturnType DEF IInv
<1>7. \A i \in DOMAIN collector'.calls \ DOMAIN collector.calls : clock' = id
  <2>1. collector.calls \in Seq(Node) /\ collector'.calls \in Seq(Node) BY <1>1 DEF TypeOK
  <2> QED BY <1>3, <2>1
<1>8. clock' \in {clock, id} BY <1>3
<1>9. /\ \A f \in Fiber : \A d \in DOMAIN frames'[f] :
           /\ d \in DOMAIN frames[f]
           /\ frames'[f][d] = frames[f][d]
           /\ f = running => d # Depth(running)
      /\ \A f \in Fiber : \A d \in DOMAIN frames[f] :
           (f = running => d # Depth(running)) =>
             d \in DOMAIN frames'[f] /\ frames'[f][d] = frames[f][d]
      /\ DOMAIN frames[running] = 1..Depth(running)
  BY <1>1, <1>2, PoppedFrames
<1>10. \A i \in DOMAIN collector.calls :
         /\ collector.calls[i].id \in Nat \ {NoId} /\ collector.calls[i].call \in Nat
  <2>1. collector.calls \in Seq(Node) BY <1>1 DEF TypeOK
  <2>2. \A i \in DOMAIN collector.calls : collector.calls[i] \in Node BY <2>1
  <2> QED BY <2>2 DEF Node
<1>11. \A f \in Fiber : \A d \in DOMAIN frames[f] :
         frames[f][d].id \in Nat /\ frames[f][d].call \in Nat \ {NoCall}
  <2>1. \A f \in Fiber : frames[f] \in Seq(Frame) BY <1>1 DEF TypeOK
  <2>2. \A f \in Fiber : \A d \in DOMAIN frames[f] : frames[f][d] \in Frame BY <2>1
  <2> QED BY <2>2 DEF Frame
<1>12. \A a \in Address : table[a].id \in Nat BY <1>1 DEF TypeOK
<1>13. \A a \in Address : table'[a] = table[a] \/ table'[a].id = NoId
  BY <1>1, <1>2, <1>5 DEF TypeOK, NoEntry, Frame
<1>14. Bounded'
  <2>1. \A i \in DOMAIN collector'.calls : /\ collector'.calls[i].id <= clock'
                                           /\ collector'.calls[i].call <= made'
    <3>1. ASSUME NEW i \in DOMAIN collector'.calls, i \in DOMAIN collector.calls
          PROVE  collector'.calls[i].id <= clock' /\ collector'.calls[i].call <= made'
      <4>1. /\ collector'.calls[i].id = collector.calls[i].id
            /\ collector'.calls[i].call = collector.calls[i].call
        BY <1>6, <3>1 DEF Extends
      <4>2. collector.calls[i].id <= clock /\ collector.calls[i].call <= made
        BY <3>1 DEF IInv, Bounded
      <4> QED BY <1>2, <1>4, <1>8, <1>10, <3>1, <4>1, <4>2
    <3>2. ASSUME NEW i \in DOMAIN collector'.calls, i \notin DOMAIN collector.calls
          PROVE  collector'.calls[i].id <= clock' /\ collector'.calls[i].call <= made'
      <4>1. collector'.calls[i].id = id /\ collector'.calls[i].call = NoCall
        BY <1>6, <3>2 DEF Extends
      <4> QED BY <1>2, <1>4, <1>7, <3>2, <4>1 DEF NoCall
    <3> QED BY <3>1, <3>2
  <2>2. \A a \in Address : table'[a].id <= clock'
    BY <1>4, <1>8, <1>12, <1>13 DEF IInv, Bounded, NoId
  <2>3. \A f \in Fiber : \A d \in DOMAIN frames'[f] : /\ frames'[f][d].id <= clock'
                                                      /\ frames'[f][d].call <= made'
    <3> SUFFICES ASSUME NEW f \in Fiber, NEW d \in DOMAIN frames'[f]
                 PROVE  frames'[f][d].id <= clock' /\ frames'[f][d].call <= made'
      OBVIOUS
    <3>1. d \in DOMAIN frames[f] /\ frames'[f][d] = frames[f][d] BY <1>9
    <3>2. frames[f][d].id <= clock /\ frames[f][d].call <= made BY <3>1 DEF IInv, Bounded
    <3> QED BY <1>2, <1>4, <1>8, <1>11, <3>1, <3>2
  <2> QED BY <2>1, <2>2, <2>3 DEF Bounded
<1>15. DistinctAddresses' BY <1>9 DEF IInv, DistinctAddresses
<1>16. GuardHeld' BY <1>1, <1>2, GuardPopped DEF IInv
<1>17. OwnUntracked'
  <2> SUFFICES ASSUME NEW f \in Fiber, NEW d \in DOMAIN frames'[f], frames'[f][d].own
               PROVE  /\ frames'[f][d].id = NoId
                      /\ \A i \in DOMAIN collector'.calls :
                           collector'.calls[i].call # frames'[f][d].call
    BY DEF OwnUntracked
  <2>1. d \in DOMAIN frames[f] /\ frames'[f][d] = frames[f][d] BY <1>9
  <2>2. /\ frames[f][d].id = NoId
        /\ \A i \in DOMAIN collector.calls : collector.calls[i].call # frames[f][d].call
    BY <2>1 DEF IInv, OwnUntracked
  <2> QED BY <1>6, <1>11, <2>1, <2>2 DEF Extends
<1>18. TrackedObserved' BY <1>2, <1>9 DEF IInv, TrackedObserved
<1>19. FrameIdsLeadHome'
  <2> SUFFICES ASSUME profiling, NEW i \in DOMAIN collector'.calls, NEW f \in Fiber,
                      NEW d \in DOMAIN frames'[f], frames'[f][d].id = collector'.calls[i].id
               PROVE  frames'[f][d].call = collector'.calls[i].call
    BY <1>2 DEF FrameIdsLeadHome
  <2>1. d \in DOMAIN frames[f] /\ frames'[f][d] = frames[f][d] BY <1>9
  <2>2. i \in DOMAIN collector.calls
    <3>1. frames[f][d].id <= clock BY <2>1 DEF IInv, Bounded
    <3> QED BY <1>4, <1>6, <1>11, <2>1, <3>1 DEF Extends
  <2>3. /\ collector'.calls[i].id = collector.calls[i].id
        /\ collector'.calls[i].call = collector.calls[i].call
    BY <1>6, <2>2 DEF Extends
  <2> QED BY <2>1, <2>2, <2>3 DEF IInv, FrameIdsLeadHome
<1>20. TableIdsLeadHome'
  <2> SUFFICES ASSUME profiling, NEW i \in DOMAIN collector'.calls, NEW a \in Address,
                      table'[a].id = collector'.calls[i].id
               PROVE  \E f \in Fiber : \E d \in DOMAIN frames'[f] :
                        frames'[f][d].addr = a /\ frames'[f][d].id = collector'.calls[i].id
    BY <1>2 DEF TableIdsLeadHome
  <2>1. collector'.calls[i].id # NoId
    BY <1>4, <1>6, <1>10 DEF Extends
  <2>2. table'[a] = table[a] BY <1>13, <2>1
  <2>3. i \in DOMAIN collector.calls
    <3>1. table[a].id <= clock BY DEF IInv, Bounded
    <3> QED BY <1>4, <1>6, <1>12, <2>2, <3>1 DEF Extends
  <2>4. collector'.calls[i].id = collector.calls[i].id BY <1>6, <2>3 DEF Extends
  <2>5. a # Top.addr
    <3> SUFFICES ASSUME a = Top.addr PROVE FALSE OBVIOUS
    <3>1. Top.id = collector.calls[i].id BY <1>2, <2>2, <2>3, <2>4, TopEntryIsOwn
    <3>2. Top.id # NoId BY <2>1, <2>4, <3>1
    <3>3. "general" \in handlers[Top.fn] BY <1>5, <3>2 DEF IInv, TrackedObserved
    <3>4. table[a] # NoEntry BY <2>1, <2>2 DEF NoEntry
    <3>5. CASE guard
      <4>1. Top.own BY <1>1, <1>2, <3>5, GuardedTop DEF IInv
      <4> QED BY <1>5, <3>2, <4>1 DEF IInv, OwnUntracked
    <3>6. CASE ~guard
      <4>1. Ends(Top) BY <3>3, <3>4, <3>6 DEF Ends, Observing, IInv
      <4>2. table'[a] = NoEntry BY <1>1, <1>2, <4>1 DEF TypeOK
      <4> QED BY <2>1, <4>2 DEF NoEntry
    <3> QED BY <3>5, <3>6
  <2>6. PICK f \in Fiber : \E d \in DOMAIN frames[f] :
          frames[f][d].addr = a /\ frames[f][d].id = collector.calls[i].id
    BY <2>2, <2>3, <2>4 DEF IInv, TableIdsLeadHome
  <2>7. PICK d \in DOMAIN frames[f] :
          frames[f][d].addr = a /\ frames[f][d].id = collector.calls[i].id
    BY <2>6
  <2>8. f = running => d # Depth(running) BY <1>5, <2>5, <2>7
  <2> QED BY <1>9, <2>4, <2>7, <2>8
<1>21. (profiling => collector.active)' /\ (phase = "idle" => \A f \in Fiber : frames[f] = <<>>)'
  BY <1>2, <1>6 DEF IInv, Extends
<1> QED BY <1>14, <1>15, <1>16, <1>17, <1>18, <1>19, <1>20, <1>21 DEF IInv

\* Every step of the system preserves the inductive invariant.
LEMMA IInvNext == DistinctTicks /\ IInv /\ [Next]_vars => IInv'
<1> SUFFICES ASSUME DistinctTicks, IInv, [Next]_vars PROVE IInv' OBVIOUS
<1>1. TypeOK /\ TypeOK' BY TypeNext DEF IInv
<1>2. ASSUME NEW fn \in Function, Call(fn) PROVE IInv' BY <1>1, <1>2, CallInv
<1>3. CASE FinishProbe BY <1>1, <1>3, FinishProbeInv
<1>4. CASE OpaEnable \/ OpaDisable BY <1>1, <1>4, ToggleInv
<1>5. CASE Return BY <1>1, <1>5, ReturnInv
<1>6. ASSUME NEW f \in Fiber, Switch(f) PROVE IInv'
  <2>1. /\ ~guard
        /\ UNCHANGED <<phase, requests, profiling, guard, clock, collector, table,
                       handlers, frames, made>>
    BY <1>6 DEF Switch
  <2>2. GuardHeld' BY <2>1 DEF IInv, GuardHeld
  <2> QED BY <1>1, <2>1, <2>2 DEF IInv, Bounded, DistinctAddresses, OwnUntracked,
                                  TrackedObserved, FrameIdsLeadHome, TableIdsLeadHome
<1>7. CASE StartRequest \/ EndRequest
  <2>1. /\ \A f \in Fiber : frames[f] = <<>>
        /\ frames' = frames /\ clock' = clock /\ guard' = guard
        /\ DOMAIN collector'.calls = {}
        /\ profiling' => collector'.active
        /\ \A a \in Address : table'[a] = table[a] \/ table'[a].id = NoId
    <3>1. CASE StartRequest
      BY <3>1, StartedType DEF StartRequest, IInv, Started
    <3>2. CASE EndRequest
      BY <3>2, StartedType DEF EndRequest, NoEntry
    <3> QED BY <1>7, <3>1, <3>2
  <2>2. \A f \in Fiber : frames'[f] = <<>> /\ DOMAIN frames'[f] = {}
    <3>1. DOMAIN <<>> = {} BY EmptySeq
    <3> QED BY <2>1, <3>1
  <2>3. Bounded'
    <3>1. clock \in Nat BY <1>1 DEF TypeOK
    <3> QED BY <2>1, <2>2, <3>1 DEF IInv, Bounded, NoId
  <2>4. GuardHeld'
    <3>1. running \in Fiber /\ DOMAIN frames[running] = {} BY <1>1, <2>1, <2>2 DEF TypeOK
    <3>2. ~guard BY <3>1 DEF IInv, GuardHeld
    <3> QED BY <2>1, <2>2, <3>2 DEF GuardHeld
  <2>5. DistinctAddresses' /\ OwnUntracked' /\ TrackedObserved'
    BY <2>2 DEF DistinctAddresses, OwnUntracked, TrackedObserved
  <2>6. FrameIdsLeadHome' /\ TableIdsLeadHome'
    BY <2>1 DEF FrameIdsLeadHome, TableIdsLeadHome
  <2> QED BY <1>1, <2>1, <2>2, <2>3, <2>4, <2>5, <2>6 DEF IInv
<1>8. CASE UNCHANGED vars
  BY <1>1, <1>8 DEF vars, IInv, Bounded, DistinctAddresses, GuardHeld, OwnUntracked,
                    TrackedObserved, FrameIdsLeadHome, TableIdsLeadHome
<1> QED BY <1>2, <1>3, <1>4, <1>5, <1>6, <1>7, <1>8 DEF Next, Finished

\* The inductive invariant holds when the process starts.
LEMMA IInvInit == Init => IInv
<1> SUFFICES ASSUME Init PROVE IInv OBVIOUS
<1>1. TypeOK BY InitType
<1>2. /\ \A f \in Fiber : frames[f] = <<>> /\ DOMAIN frames[f] = {}
      /\ DOMAIN collector.calls = {} /\ ~guard /\ ~profiling /\ clock = 1 /\ running \in Fiber
  <2>1. DOMAIN <<>> = {} BY EmptySeq
  <2> QED BY <1>1, <2>1, StartedType DEF Init, TypeOK
<1>3. \A a \in Address : table[a].id = 0 BY DEF Init, NoEntry, NoId
<1>4. Bounded BY <1>2, <1>3 DEF Bounded
<1>5. GuardHeld /\ DistinctAddresses /\ OwnUntracked /\ TrackedObserved
  BY <1>2 DEF GuardHeld, DistinctAddresses, OwnUntracked, TrackedObserved
<1>6. FrameIdsLeadHome /\ TableIdsLeadHome BY <1>2 DEF FrameIdsLeadHome, TableIdsLeadHome
<1> QED BY <1>1, <1>2, <1>4, <1>5, <1>6 DEF IInv

\* With distinct ids the inductive invariant holds for any program, any number
\* of fibers and any reuse of frame addresses.
THEOREM Invariant == DistinctTicks /\ Spec => []IInv
<1>1. CASE DistinctTicks
  <2>1. IInv /\ [Next]_vars => IInv' BY <1>1, IInvNext
  <2>2. Spec => []IInv BY <2>1, IInvInit, PTL DEF Spec
  <2> QED BY <2>2
<1>2. CASE ~DistinctTicks BY <1>2
<1> QED BY <1>1, <1>2

\* The step form of EndsOwnNode.
EndsOwn ==
  \A i \in DOMAIN collector.calls \cap DOMAIN collector'.calls :
    ~collector.calls[i].ended /\ collector'.calls[i].ended
      => /\ frames[running] # <<>>
         /\ collector.calls[i].call = Top.call

\* From a state of the invariant, only the return of its call ends a node.
LEMMA EndsOwnStep == DistinctTicks /\ IInv /\ [Next]_vars => EndsOwn
<1> SUFFICES ASSUME DistinctTicks, IInv, [Next]_vars,
                    NEW i \in DOMAIN collector.calls \cap DOMAIN collector'.calls,
                    ~collector.calls[i].ended, collector'.calls[i].ended
             PROVE  /\ frames[running] # <<>>
                    /\ collector.calls[i].call = Top.call
  BY DEF EndsOwn
<1>1. TypeOK BY DEF IInv
<1>2. collector.calls[i].id # NoId
  <2>1. collector.calls \in Seq(Node) BY <1>1 DEF TypeOK
  <2>2. collector.calls[i] \in Node BY <2>1
  <2> QED BY <2>2 DEF Node
<1>3. CASE Return
  <2>1. frames[running] # <<>> BY <1>3 DEF Return
  <2>2. PICK id \in NextIds : collector' = AfterReturn(id) BY <1>3 DEF Return
  <2>3. id \in Nat \ {NoId} BY <1>1, NextIdsType
  <2>4. Extends(collector, collector', id, TopId)
    BY <1>1, <2>1, <2>2, <2>3, AfterReturnType DEF IInv
  <2>5. collector.calls[i].id = TopId BY <2>4 DEF Extends
  <2>6. Ends(Top) /\ table[Top.addr].id = collector.calls[i].id BY <1>2, <2>5 DEF TopId
  <2>7. profiling BY <2>6 DEF Ends, Observing
  <2> QED BY <2>1, <2>6, <2>7, TopEntryIsOwn
<1>4. ASSUME NEW fn \in Function, Call(fn) PROVE FALSE
  <2>1. WellFormed(collector) BY <1>1 DEF TypeOK, WellFormed, CollectorType
  <2>2. PICK id \in NextIds, k \in {made + 1} :
          collector' \in {EnterFunction(collector, id, k), collector}
    BY <1>4 DEF Call
  <2>3. id \in Nat \ {NoId} /\ k \in Nat BY <1>1, <2>2, NextIdsType DEF TypeOK
  <2>4. EnterFunction(collector, id, k).calls[i] = collector.calls[i]
    BY <2>1, <2>3, EnterFunctionType
  <2> QED BY <2>2, <2>4
<1>5. CASE OpaEnable \/ StartRequest \/ EndRequest
  <2>1. DOMAIN collector'.calls = {}
    BY <1>5, StartedType DEF OpaEnable, StartRequest, EndRequest
  <2> QED BY <2>1
<1>6. CASE OpaDisable
  <2>1. Stopped(collector).calls = collector.calls BY <1>1 DEF TypeOK, Stopped
  <2> QED BY <1>6, <2>1 DEF OpaDisable
<1>7. CASE FinishProbe \/ UNCHANGED vars BY <1>7 DEF FinishProbe, vars
<1>8. ASSUME NEW f \in Fiber, Switch(f) PROVE FALSE BY <1>8 DEF Switch
<1> QED BY <1>3, <1>4, <1>5, <1>6, <1>7, <1>8 DEF Next, Finished

\* With distinct ids, whatever the fibers do and whenever profiling is switched,
\* only the return of a call ends its node.
THEOREM EndsOwnNodeHolds == DistinctTicks /\ Spec => EndsOwnNode
<1>1. CASE DistinctTicks
  <2>1. IInv /\ [Next]_vars => EndsOwn BY <1>1, EndsOwnStep
  <2>2. IInv /\ [Next]_vars => [EndsOwn]_vars BY <2>1
  <2>3. Spec => [][EndsOwn]_vars BY <1>1, <2>2, Invariant, PTL DEF Spec
  <2> QED BY <2>3 DEF EndsOwnNode, EndsOwn
<1>2. CASE ~DistinctTicks BY <1>2
<1> QED BY <1>1, <1>2

\* With distinct ids, no call the extension makes itself is in the profile.
THEOREM ProbesStayInvisible == DistinctTicks /\ Spec => []ProbesInvisible
<1>1. IInv => ProbesInvisible
  BY DEF IInv, OwnUntracked, ProbesInvisible, Live, Nodes
<1> QED BY <1>1, Invariant, PTL
=============================================================================
