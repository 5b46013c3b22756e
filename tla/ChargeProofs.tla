---------------------------- MODULE ChargeProofs ----------------------------
(***************************************************************************)
(* Theorems about the operations of a profile, for any number of fibers    *)
(* and even when ids are equal: no call is charged with two operations,    *)
(* and, in a program that leaves profiling alone, no query or request is   *)
(* lost.                                                                   *)
(***************************************************************************)
EXTENDS CallTreeProofs

\* d is c with at most one more operation, of call k.
OneMore(c, d, k) ==
  \E n, r : \A i \in DOMAIN d.calls : \A p \in DOMAIN d.calls[i].ops :
    \/ /\ i \in DOMAIN c.calls /\ p \in DOMAIN c.calls[i].ops
       /\ d.calls[i].ops[p] = c.calls[i].ops[p]
    \/ i = n /\ p = r /\ d.calls[i].ops[p].call = k

\* d has the operations of c.
Keeps(c, d) ==
  /\ d.active = c.active
  /\ \A i \in DOMAIN c.calls : \A p \in DOMAIN c.calls[i].ops :
       /\ i \in DOMAIN d.calls /\ p \in DOMAIN d.calls[i].ops
       /\ d.calls[i].ops[p] = c.calls[i].ops[p]

\* c has an operation of call k.
ChargedFor(c, k) ==
  \E i \in DOMAIN c.calls : \E p \in DOMAIN c.calls[i].ops : c.calls[i].ops[p].call = k

LEMMA NoneMore ==
  ASSUME NEW c, NEW k
  PROVE  OneMore(c, c, k) /\ Keeps(c, c)
BY DEF OneMore, Keeps

LEMMA KeepsTransitive ==
  ASSUME NEW c, NEW d, NEW e, Keeps(c, d), Keeps(d, e)
  PROVE  Keeps(c, e)
BY DEF Keeps

LEMMA KeepsCharged ==
  ASSUME NEW c, NEW d, NEW k, Keeps(c, d), ChargedFor(c, k)
  PROVE  ChargedFor(d, k)
BY DEF Keeps, ChargedFor

\* A new node has no operations.
LEMMA EnterOps ==
  ASSUME NEW c, WellFormed(c), NEW id \in Nat \ {NoId}, NEW k \in Nat
  PROVE  /\ Keeps(c, EnterFunction(c, id, k))
         /\ \A i \in DOMAIN EnterFunction(c, id, k).calls :
              \A p \in DOMAIN EnterFunction(c, id, k).calls[i].ops :
                /\ i \in DOMAIN c.calls /\ p \in DOMAIN c.calls[i].ops
                /\ EnterFunction(c, id, k).calls[i].ops[p] = c.calls[i].ops[p]
<1> DEFINE e == EnterFunction(c, id, k)
           n == Len(c.calls) + 1
<1>1. /\ DOMAIN e.calls = DOMAIN c.calls \cup {n}
      /\ e.active = c.active
      /\ \A i \in DOMAIN c.calls : e.calls[i] = c.calls[i]
  BY EnterFunctionType
<1>2. e.calls[n].ops = <<>> BY EnterFunctionShape
<1>3. DOMAIN e.calls[n].ops = {} BY <1>2, EmptySeq
<1> HIDE DEF e, n
<1>4. \A i \in DOMAIN e.calls : \A p \in DOMAIN e.calls[i].ops :
        /\ i \in DOMAIN c.calls /\ p \in DOMAIN c.calls[i].ops
        /\ e.calls[i].ops[p] = c.calls[i].ops[p]
  BY <1>1, <1>3
<1>5. Keeps(c, e) BY <1>1 DEF Keeps
<1> QED BY <1>4, <1>5 DEF e

\* A record adds its operation or nothing, and if it is of SQL or HTTP it adds it.
LEMMA RecordOps ==
  ASSUME NEW c, WellFormed(c), NEW kind \in {"sql", "http", "cache", "redis"},
         NEW k \in Nat, NEW id \in Nat \ {NoId}
  PROVE  /\ OneMore(c, Record(c, kind, k, id), k)
         /\ Keeps(c, Record(c, kind, k, id))
         /\ Recording(c) /\ kind \in Stack => ChargedFor(Record(c, kind, k, id), k)
<1> DEFINE d  == IF c.stack = <<>> /\ kind \in Stack THEN EnterFunction(c, id, NoCall) ELSE c
           op == [kind |-> kind, call |-> k]
           e  == [d EXCEPT !.calls[TopOf(d)].ops = Append(@, op),
                           !.sql = IF kind = "sql" THEN Append(@, op) ELSE @]
<1>1. Record(c, kind, k, id) = IF ~Recording(c) THEN c ELSE IF d.stack = <<>> THEN d ELSE e
  BY Zenon DEF Record
<1>2. op \in Op /\ op.call = k BY DEF Op
<1>3. NoCall \in Nat BY DEF NoCall
<1>4. /\ WellFormed(d) /\ Keeps(c, d)
      /\ \A i \in DOMAIN d.calls : \A p \in DOMAIN d.calls[i].ops :
           /\ i \in DOMAIN c.calls /\ p \in DOMAIN c.calls[i].ops
           /\ d.calls[i].ops[p] = c.calls[i].ops[p]
      /\ kind \in Stack => d.stack # <<>>
  <2>1. CASE c.stack = <<>> /\ kind \in Stack
    <3> DEFINE g == EnterFunction(c, id, NoCall)
    <3>1. /\ WellFormed(g) /\ Keeps(c, g)
          /\ \A i \in DOMAIN g.calls : \A p \in DOMAIN g.calls[i].ops :
               /\ i \in DOMAIN c.calls /\ p \in DOMAIN c.calls[i].ops
               /\ g.calls[i].ops[p] = c.calls[i].ops[p]
      BY <1>3, EnterFunctionType, EnterOps
    <3>2. g.stack # <<>>
      <4>1. g.stack = Append(c.stack, Len(c.calls) + 1) BY <1>3, EnterFunctionShape
      <4>2. c.stack \in Seq(Nat) /\ Len(c.calls) + 1 \in Nat BY CollectorFields
      <4> HIDE DEF g
      <4> QED BY <4>1, <4>2
    <3>3. d = g BY <2>1
    <3> HIDE DEF g, d
    <3> QED BY <3>1, <3>2, <3>3
  <2>2. CASE ~(c.stack = <<>> /\ kind \in Stack)
    <3>1. d = c BY <2>2
    <3> HIDE DEF d
    <3> QED BY <2>2, <3>1, NoneMore
  <2> QED BY <2>1, <2>2
<1> HIDE DEF d, op
<1>5. OneMore(c, d, k) BY <1>4 DEF OneMore
<1>6. CASE ~Recording(c) \/ d.stack = <<>>
  <2>1. Record(c, kind, k, id) \in {c, d}
    <3> HIDE DEF e
    <3> QED BY <1>1, <1>6
  <2>2. Recording(c) => kind \notin Stack BY <1>4, <1>6
  <2> QED BY <1>4, <1>5, <2>1, <2>2, NoneMore
<1>7. CASE Recording(c) /\ d.stack # <<>>
  <2>1. d \in CollectorType BY <1>4 DEF WellFormed
  <2> DEFINE t    == TopOf(d)
             ops  == Append(d.calls[t].ops, op)
             node == [d.calls[t] EXCEPT !.ops = Append(@, op)]
             cs   == [d.calls EXCEPT ![t] = node]
             sql  == IF kind = "sql" THEN Append(d.sql, op) ELSE d.sql
  <2>2. t \in DOMAIN d.calls /\ d.calls[t] \in Node /\ d.calls[t].ops \in Seq(Op)
    BY <1>4, <1>7, CollectorFields
  <2>3. e.active = d.active /\ e.calls = cs
    <3>1. e = [d EXCEPT !.calls = cs, !.sql = sql]
      <4>1. DOMAIN d = {"active", "calls", "stack", "sql"} BY <2>1 DEF CollectorType
      <4> QED BY <4>1, SMT
    <3> HIDE DEF cs, sql, e
    <3> QED BY <2>1, <3>1 DEF CollectorType
  <2>4. node.ops = ops BY <2>2 DEF Node
  <2> HIDE DEF node, sql, t
  <2>5. DOMAIN cs = DOMAIN d.calls /\ \A i \in DOMAIN d.calls : cs[i] = IF i = t THEN node ELSE d.calls[i]
    OBVIOUS
  <2> DEFINE r == Len(d.calls[t].ops) + 1
             o == d.calls[t].ops
  <2>6. /\ DOMAIN ops = DOMAIN o \cup {r} /\ r \notin DOMAIN o
        /\ \A p \in DOMAIN o : ops[p] = o[p]
        /\ ops[r] = op
    <3>1. o \in Seq(Op) BY <2>2
    <3> HIDE DEF o
    <3>2. /\ DOMAIN Append(o, op) = 1..Len(o) + 1 /\ Len(o) \in Nat /\ DOMAIN o = 1..Len(o)
          /\ \A p \in 1..Len(o) : Append(o, op)[p] = o[p]
          /\ Append(o, op)[Len(o) + 1] = op
      BY <1>2, <3>1
    <3>3. 1..Len(o) + 1 = 1..Len(o) \cup {Len(o) + 1} BY <3>2
    <3>4. Len(o) + 1 \notin 1..Len(o) BY <3>2
    <3> QED BY <3>2, <3>3, <3>4 DEF o
  <2> HIDE DEF cs, e, ops, r
  <2>7. \A i \in DOMAIN e.calls : \A p \in DOMAIN e.calls[i].ops :
          \/ /\ i \in DOMAIN d.calls /\ p \in DOMAIN d.calls[i].ops
             /\ e.calls[i].ops[p] = d.calls[i].ops[p]
          \/ i = t /\ p = r /\ e.calls[i].ops[p].call = k
    BY <1>2, <2>2, <2>3, <2>4, <2>5, <2>6
  <2>8. OneMore(c, e, k) BY <1>4, <2>7 DEF OneMore
  <2>9. Keeps(d, e) BY <2>2, <2>3, <2>4, <2>5, <2>6 DEF Keeps
  <2>10. ChargedFor(e, k)
    <3>1. t \in DOMAIN e.calls /\ r \in DOMAIN e.calls[t].ops /\ e.calls[t].ops[r].call = k
      BY <1>2, <2>2, <2>3, <2>4, <2>5, <2>6
    <3> QED BY <3>1 DEF ChargedFor
  <2>11. Record(c, kind, k, id) = e BY <1>1, <1>7
  <2> QED BY <1>4, <2>8, <2>9, <2>10, <2>11, KeepsTransitive
<1> QED BY <1>6, <1>7

\* The end of a node touches no operation.
LEMMA ExitOps ==
  ASSUME NEW c, WellFormed(c), NEW eid
  PROVE  /\ WellFormed(ExitFunction(c, eid))
         /\ Keeps(c, ExitFunction(c, eid)) /\ Keeps(ExitFunction(c, eid), c)
<1> DEFINE d     == ExitFunction(c, eid)
           ended == [j \in DOMAIN c.calls |-> IF IsFound(c, eid, j)
                       THEN [c.calls[j] EXCEPT !.ended = TRUE] ELSE c.calls[j]]
           st    == IF c.stack # <<>> /\ NodeAt(c, TopOf(c)).id = eid
                    THEN SubSeq(c.stack, 1, Len(c.stack) - 1) ELSE c.stack
<1>1. c \in CollectorType BY DEF WellFormed
<1>2. WellFormed(d) BY ExitFunctionType
<1>3. d = c \/ d = [c EXCEPT !.calls = ended, !.stack = st] BY DEF ExitFunction, NodeAt
<1>4. ASSUME NEW j \in DOMAIN c.calls PROVE ended[j].ops = c.calls[j].ops
  <2>1. c.calls[j] \in Node BY CollectorFields
  <2>2. ended[j] \in {c.calls[j], [c.calls[j] EXCEPT !.ended = TRUE]} OBVIOUS
  <2> HIDE DEF ended
  <2> QED BY <2>1, <2>2 DEF Node
<1>5. DOMAIN ended = DOMAIN c.calls OBVIOUS
<1> HIDE DEF ended, st, d
<1>6. d.active = c.active /\ (d.calls = c.calls \/ d.calls = ended)
  BY <1>1, <1>3 DEF CollectorType
<1>7. Keeps(c, d) /\ Keeps(d, c) BY <1>4, <1>5, <1>6 DEF Keeps
<1> QED BY <1>2, <1>7 DEF d

LEMMA OneMoreAfter ==
  ASSUME NEW c, NEW x, NEW d, NEW k, Keeps(x, c), OneMore(x, d, k)
  PROVE  OneMore(c, d, k)
BY DEF OneMore, Keeps
-----------------------------------------------------------------------------
(* What the callbacks around a return record. *)

LEMMA HookOps ==
  ASSUME NEW c, WellFormed(c), NEW fr \in Frame, NEW id \in Nat \ {NoId}
  PROVE  /\ WellFormed(HookRecords(c, fr, id))
         /\ Keeps(c, HookRecords(c, fr, id))
         /\ Recording(c) => ChargedFor(HookRecords(c, fr, id), fr.call)
         /\ ~CollectInternal => OneMore(c, HookRecords(c, fr, id), fr.call)
<1> DEFINE k == fr.call
           r1 == Record(c, "http", k, id)
           r2 == Record(r1, "http", k, id)
           asked == IF CollectInternal /\ Observing THEN r2 ELSE c
           sql   == Record(c, "sql", k, id)
           http  == Record(asked, "http", k, id)
<1>1. k \in Nat BY DEF Frame
<1>2. HookRecords(c, fr, id) = IF KindOf[fr.fn] = "mysqli" THEN sql ELSE http
  BY Zenon DEF HookRecords, MysqliRecords
<1>3. WellFormed(HookRecords(c, fr, id)) BY HookRecordsType
<1> HIDE DEF k
<1>4. WellFormed(r1) /\ Keeps(c, r1) BY <1>1, RecordType, RecordOps
<1> HIDE DEF r1
<1>5. WellFormed(r2) /\ Keeps(r1, r2) BY <1>1, <1>4, RecordType, RecordOps
<1> HIDE DEF r2
<1>6. Keeps(c, r2) BY <1>4, <1>5, KeepsTransitive
<1>7. WellFormed(asked) /\ Keeps(c, asked) BY <1>5, <1>6, NoneMore
<1>8. ~CollectInternal => asked = c OBVIOUS
<1> HIDE DEF asked
<1>9. "sql" \in Stack /\ "http" \in Stack BY DEF Stack
<1>10. Keeps(c, sql) /\ OneMore(c, sql, k) /\ (Recording(c) => ChargedFor(sql, k))
  BY <1>1, <1>9, RecordOps
<1>11. Keeps(asked, http) /\ OneMore(asked, http, k) /\ (Recording(asked) => ChargedFor(http, k))
  BY <1>1, <1>7, <1>9, RecordOps
<1> HIDE DEF sql, http
<1>12. Keeps(c, http) BY <1>7, <1>11, KeepsTransitive
<1>13. Recording(c) => Recording(asked) BY <1>7 DEF Recording, Keeps
<1> QED BY <1>2, <1>3, <1>8, <1>10, <1>11, <1>12, <1>13 DEF k

LEMMA FcallEndOps ==
  ASSUME NEW c, WellFormed(c), NEW fr, NEW e, e.call \in Nat, NEW id \in Nat \ {NoId}
  PROVE  /\ WellFormed(FcallEnd(c, e, fr, id))
         /\ Keeps(c, FcallEnd(c, e, fr, id))
         /\ e.kind \notin Curl /\ KindOf[fr.fn] # "curl_exec"
              => OneMore(c, FcallEnd(c, e, fr, id), e.call)
<1> DEFINE k == e.call
           x == IF e.id = NoId THEN c ELSE ExitFunction(c, e.id)
           d == IF e.kind \in Curl \/ KindOf[fr.fn] = "curl_exec"
                THEN Record(x, "http", k, id) ELSE x
           r == EndRecords(x, e, fr, id)
<1>1. FcallEnd(c, e, fr, id) = r BY Zenon DEF FcallEnd
<1>2. r = CASE e.kind = "apcu"  -> Record(d, "cache", k, id)
            [] e.kind = "redis" -> Record(d, "redis", k, id)
            [] OTHER            -> d
  BY Zenon DEF EndRecords
<1>3. WellFormed(x) /\ Keeps(c, x) /\ Keeps(x, c) BY ExitOps, NoneMore
<1>4. k \in Nat OBVIOUS
<1> HIDE DEF x, r, k
<1>5. WellFormed(Record(x, "http", k, id)) /\ Keeps(x, Record(x, "http", k, id))
  BY <1>3, <1>4, RecordType, RecordOps
<1>6. WellFormed(d) /\ Keeps(x, d) BY <1>3, <1>5, NoneMore
<1>7. e.kind \notin Curl /\ KindOf[fr.fn] # "curl_exec" => d = x OBVIOUS
<1> HIDE DEF d
<1>8. /\ WellFormed(Record(d, "cache", k, id)) /\ Keeps(d, Record(d, "cache", k, id))
      /\ OneMore(d, Record(d, "cache", k, id), k)
  BY <1>4, <1>6, RecordType, RecordOps
<1>9. /\ WellFormed(Record(d, "redis", k, id)) /\ Keeps(d, Record(d, "redis", k, id))
      /\ OneMore(d, Record(d, "redis", k, id), k)
  BY <1>4, <1>6, RecordType, RecordOps
<1>10. WellFormed(r) /\ Keeps(d, r) /\ OneMore(d, r, k)
  BY <1>2, <1>6, <1>8, <1>9, NoneMore
<1>11. Keeps(c, d) BY <1>3, <1>6, KeepsTransitive
<1>12. Keeps(c, r) BY <1>10, <1>11, KeepsTransitive
<1>13. d = x => OneMore(c, r, k) BY <1>3, <1>10, OneMoreAfter
<1> QED BY <1>1, <1>7, <1>10, <1>12, <1>13 DEF k

LEMMA PdoEndOps ==
  ASSUME NEW c, WellFormed(c), c.active, NEW fr \in Frame, NEW id \in Nat \ {NoId}
  PROVE  /\ Keeps(c, PdoEnd(c, fr, id))
         /\ OneMore(c, PdoEnd(c, fr, id), fr.call)
         /\ Recording(c) => ChargedFor(PdoEnd(c, fr, id), fr.call)
<1>1. PdoEnd(c, fr, id) = Record(c, "sql", fr.call, id) BY DEF PdoEnd
<1>2. fr.call \in Nat /\ "sql" \in Stack BY DEF Frame, Stack
<1> QED BY <1>1, <1>2, RecordOps

\* The stages of a return: the hook, the general observer, the PDO observer.
Hooks(id)  == IF Top.hooked THEN HookRecords(collector, Top, id) ELSE collector
Ended(id)  == IF Ends(Top) THEN FcallEnd(Hooks(id), table[Top.addr], Top, id) ELSE Hooks(id)

LEMMA ReturnStages ==
  ASSUME TypeOK, profiling => collector.active, frames[running] # <<>>,
         NEW id \in Nat \ {NoId}
  PROVE  /\ Top \in Frame /\ table[Top.addr].call \in Nat
         /\ WellFormed(collector) /\ WellFormed(Hooks(id)) /\ WellFormed(Ended(id))
         /\ Keeps(collector, Hooks(id)) /\ Keeps(Hooks(id), Ended(id))
         /\ AfterReturn(id) = IF "pdo" \in handlers[Top.fn] /\ profiling
                              THEN PdoEnd(Ended(id), Top, id) ELSE Ended(id)
         /\ profiling => Ended(id).active
         /\ Keeps(Ended(id), AfterReturn(id))
<1>1. WellFormed(collector) BY DEF TypeOK, WellFormed, CollectorType
<1>2. Top \in Frame BY TopType
<1>3. table[Top.addr].call \in Nat
  <2>1. Top.addr \in Address BY <1>2 DEF Frame
  <2> QED BY <2>1 DEF TypeOK
<1>4. WellFormed(Hooks(id)) /\ Keeps(collector, Hooks(id))
  BY <1>1, <1>2, HookOps, NoneMore DEF Hooks
<1>5. WellFormed(Ended(id)) /\ Keeps(Hooks(id), Ended(id))
  BY <1>3, <1>4, FcallEndOps, NoneMore DEF Ended
<1>6. AfterReturn(id) = IF "pdo" \in handlers[Top.fn] /\ profiling
                        THEN PdoEnd(Ended(id), Top, id) ELSE Ended(id)
  BY Zenon DEF AfterReturn, Ended, Hooks
<1>7. profiling => Ended(id).active BY <1>4, <1>5 DEF Keeps
<1>8. Keeps(Ended(id), AfterReturn(id)) BY <1>2, <1>5, <1>6, <1>7, PdoEndOps, NoneMore
<1> QED BY <1>1, <1>2, <1>3, <1>4, <1>5, <1>6, <1>7, <1>8
-----------------------------------------------------------------------------
(* What a call does. *)

LEMMA Installs ==
  ASSUME TypeOK, NEW fn \in Function
  PROVE  /\ InstalledFor(fn) # Unknown
         /\ handlers[fn] # Unknown => InstalledFor(fn) = handlers[fn]
         /\ handlers[fn] = Unknown =>
              /\ "general" \in InstalledFor(fn) =>
                   CollectInternal \/ KindOf[fn] \in Userland \cup {"apcu"}
              /\ "pdo" \in InstalledFor(fn) => KindOf[fn] = "pdo"
              /\ profiling /\ KindOf[fn] = "pdo" => "pdo" \in InstalledFor(fn)
<1>1. "unknown" \in Unknown /\ "unknown" \notin {"general", "pdo"} BY DEF Unknown
<1> QED BY <1>1 DEF InstalledFor

LEMMA CallFrame ==
  ASSUME TypeOK, NEW fn \in Function, Call(fn)
  PROVE  \E fr \in Frame, id \in Nat \ {NoId}, probes \in BOOLEAN :
           /\ frames' = [frames EXCEPT ![running] = Append(@, fr)]
           /\ fr.fn = fn /\ fr.call = made + 1
           /\ fr.hooked = (profiling /\ KindOf[fn] \in Hooked)
           /\ fr.stage = IF probes THEN "probe" ELSE "body"
           /\ \A f \in Fiber : \A d \in DOMAIN frames[f] : frames[f][d].addr # fr.addr
           /\ collector' = collector \/ collector' = EnterFunction(collector, id, made + 1)
           /\ probes => KindOf[fn] = "redis"
           /\ \/ table' = table
              \/ /\ ~probes /\ "general" \in handlers'[fn]
                 /\ \E n : table' = [table EXCEPT ![fr.addr] = Entry(n, made + 1, fn)]
<1> DEFINE observed == "general" \in InstalledFor(fn) /\ Observing
           probes   == observed /\ KindOf[fn] = "redis"
           tracked  == observed /\ KindOf[fn] # "curl_info"
<1>1. PICK addr \in Address \ UNION {LiveAt(f) : f \in Fiber}, id \in NextIds :
        /\ frames' = [frames EXCEPT ![running] = Append(@,
             [fn |-> fn, addr |-> addr, call |-> made + 1,
              id |-> IF tracked THEN id ELSE NoId, own |-> guard,
              hooked |-> profiling /\ KindOf[fn] \in Hooked,
              stage |-> IF probes THEN "probe" ELSE "body"])]
        /\ collector' = IF tracked THEN EnterFunction(collector, id, made + 1) ELSE collector
        /\ table' = IF observed /\ ~probes
             THEN [table EXCEPT ![addr] = Entry(IF tracked THEN id ELSE NoId, made + 1, fn)]
             ELSE table
  BY DEF Call
<1>2. id \in Nat \ {NoId} BY NextIdsType
<1>3. addr \in Address /\ \A f \in Fiber : \A d \in DOMAIN frames[f] : frames[f][d].addr # addr
  <2>1. \A f \in Fiber : addr \notin LiveAt(f) OBVIOUS
  <2>2. \A f \in Fiber : frames[f] \in Seq(Frame) BY DEF TypeOK
  <2> QED BY <2>1, <2>2 DEF LiveAt, Depth
<1>4. observed => "general" \in handlers'[fn]
  BY DEF Call, TypeOK
<1> DEFINE node == IF tracked THEN id ELSE NoId
           hk   == profiling /\ KindOf[fn] \in Hooked
           st   == IF probes THEN "probe" ELSE "body"
           fr   == [fn |-> fn, addr |-> addr, call |-> made + 1, id |-> node, own |-> guard,
                    hooked |-> hk, stage |-> st]
<1>6. fr \in Frame
  <2>1. node \in Nat /\ hk \in BOOLEAN /\ st \in {"probe", "body"} BY <1>2 DEF NoId
  <2>2. addr \in Address /\ made + 1 \in Nat \ {NoCall} /\ guard \in BOOLEAN
    BY <1>3 DEF TypeOK, NoCall
  <2> HIDE DEF node, hk, st
  <2> QED BY <2>1, <2>2 DEF Frame
<1>7. /\ fr.addr = addr /\ fr.fn = fn /\ fr.call = made + 1
      /\ fr.hooked = hk /\ fr.stage = st
  OBVIOUS
<1>8. frames' = [frames EXCEPT ![running] = Append(@, fr)] BY <1>1
<1>9. probes \in BOOLEAN /\ (probes => KindOf[fn] = "redis") OBVIOUS
<1>10. \/ table' = table
       \/ observed /\ ~probes /\ table' = [table EXCEPT ![addr] = Entry(node, made + 1, fn)]
  BY <1>1
<1>11. collector' = collector \/ collector' = EnterFunction(collector, id, made + 1)
  BY <1>1
<1>12. fr.hooked = (profiling /\ KindOf[fn] \in Hooked)
       /\ fr.stage = IF probes THEN "probe" ELSE "body"
  OBVIOUS
<1> HIDE DEF fr, observed, probes, tracked, node, hk, st
<1>14. \/ table' = table
       \/ /\ ~probes /\ "general" \in handlers'[fn]
          /\ \E n : table' = [table EXCEPT ![fr.addr] = Entry(n, made + 1, fn)]
  BY <1>4, <1>7, <1>10
<1>15. \A f \in Fiber : \A d \in DOMAIN frames[f] : frames[f][d].addr # fr.addr
  BY <1>3, <1>7
<1>16. fr.fn = fn /\ fr.call = made + 1 BY <1>7
<1> QED BY <1>2, <1>6, <1>8, <1>9, <1>11, <1>12, <1>14, <1>15, <1>16

LEMMA NoToggles ==
  ASSUME TypeOK, NoToggle
  PROVE  ~OpaEnable /\ ~OpaDisable
<1>1. frames[running] # <<>> => Top.fn \in Function BY TopType DEF Frame
<1> QED BY <1>1 DEF NoToggle, Toggle, OpaEnable, OpaDisable
-----------------------------------------------------------------------------
(* No query or request is lost. *)

LEMMA ReturnRecords ==
  ASSUME TypeOK, profiling => collector.active, frames[running] # <<>>,
         NEW id \in Nat \ {NoId}, Recording(collector),
         KindOf[Top.fn] \in Hooked => Top.hooked,
         KindOf[Top.fn] = "pdo" => "pdo" \in handlers[Top.fn],
         KindOf[Top.fn] \in {"pdo"} \cup Hooked
  PROVE  ChargedFor(AfterReturn(id), Top.call)
<1>1. /\ Top \in Frame /\ WellFormed(collector) /\ WellFormed(Ended(id))
      /\ Keeps(collector, Hooks(id)) /\ Keeps(Hooks(id), Ended(id))
      /\ AfterReturn(id) = IF "pdo" \in handlers[Top.fn] /\ profiling
                           THEN PdoEnd(Ended(id), Top, id) ELSE Ended(id)
      /\ Keeps(Ended(id), AfterReturn(id))
  BY ReturnStages
<1>2. CASE KindOf[Top.fn] \in Hooked
  <2>1. ChargedFor(Hooks(id), Top.call) BY <1>1, <1>2, HookOps DEF Hooks
  <2>2. ChargedFor(Ended(id), Top.call) BY <1>1, <2>1, KeepsCharged
  <2> QED BY <1>1, <2>2, KeepsCharged
<1>3. CASE KindOf[Top.fn] = "pdo"
  <2>1. Recording(Ended(id)) BY <1>1 DEF Recording, Keeps
  <2>2. AfterReturn(id) = PdoEnd(Ended(id), Top, id) BY <1>1, <1>3 DEF Recording
  <2>3. Ended(id).active BY <2>1 DEF Recording
  <2> QED BY <1>1, <2>1, <2>2, <2>3, PdoEndOps
<1> QED BY <1>2, <1>3

LEMMA RecordInvNext == NoToggle /\ RecordInv /\ [Next]_vars => RecordInv'
<1> SUFFICES ASSUME NoToggle, RecordInv, [Next]_vars PROVE RecordInv' OBVIOUS
<1>1. TypeOK /\ TypeOK' BY TypeNext DEF RecordInv
<1>2. ASSUME NEW fn \in Function, Call(fn) PROVE RecordInv'
  <2>1. PICK fr \in Frame, id \in Nat \ {NoId} :
          /\ frames' = [frames EXCEPT ![running] = Append(@, fr)]
          /\ fr.fn = fn /\ fr.hooked = (profiling /\ KindOf[fn] \in Hooked)
          /\ collector' = collector \/ collector' = EnterFunction(collector, id, made + 1)
    BY <1>1, <1>2, CallFrame
  <2>2. /\ phase = "running" /\ phase' = phase /\ profiling' = profiling
        /\ handlers' = [handlers EXCEPT ![fn] = InstalledFor(fn)]
    BY <1>2 DEF Call
  <2>3. \A g \in Function : handlers'[g] = IF g = fn THEN InstalledFor(fn) ELSE handlers[g]
    BY <1>1, <2>2 DEF TypeOK
  <2>4. collector'.active = collector.active
    <3> DEFINE k == made + 1
    <3>1. WellFormed(collector) BY <1>1 DEF TypeOK, WellFormed, CollectorType
    <3>2. k \in Nat BY <1>1 DEF TypeOK
    <3>3. collector' = collector \/ collector' = EnterFunction(collector, id, k) BY <2>1
    <3> HIDE DEF k
    <3> QED BY <3>1, <3>2, <3>3, EnterFunctionType
  <2>5. \A f \in Fiber : \A d \in DOMAIN frames'[f] :
          \/ d \in DOMAIN frames[f] /\ frames'[f][d] = frames[f][d]
          \/ frames'[f][d] = fr
    BY <1>1, <2>1, PushedFrames
  <2>6. \A f \in Fiber : \A d \in DOMAIN frames[f] : frames[f][d].fn \in Function
    <3>1. \A f \in Fiber : frames[f] \in Seq(Frame) BY <1>1 DEF TypeOK
    <3>2. \A f \in Fiber : \A d \in DOMAIN frames[f] : frames[f][d] \in Frame BY <3>1
    <3> QED BY <3>2 DEF Frame
  <2>7. ASSUME profiling, NEW g \in Function, handlers'[g] # Unknown, KindOf[g] = "pdo"
        PROVE  "pdo" \in handlers'[g]
    BY <1>1, <2>3, <2>7, Installs DEF RecordInv
  <2>8. ASSUME profiling, NEW f \in Fiber, NEW d \in DOMAIN frames'[f]
        PROVE  /\ handlers'[frames'[f][d].fn] # Unknown
               /\ KindOf[frames'[f][d].fn] \in Hooked => frames'[f][d].hooked
    <3>1. InstalledFor(fn) # Unknown BY <1>1, Installs
    <3>2. CASE d \in DOMAIN frames[f] /\ frames'[f][d] = frames[f][d]
      <4>1. /\ handlers[frames[f][d].fn] # Unknown /\ frames[f][d].fn \in Function
            /\ KindOf[frames[f][d].fn] \in Hooked => frames[f][d].hooked
        BY <2>6, <2>8, <3>2 DEF RecordInv
      <4> QED BY <2>3, <3>1, <3>2, <4>1
    <3>3. CASE frames'[f][d] = fr BY <2>1, <2>3, <2>8, <3>1, <3>3
    <3> QED BY <2>5, <3>2, <3>3
  <2> QED BY <1>1, <2>2, <2>4, <2>7, <2>8 DEF RecordInv
<1>3. CASE FinishProbe
  <2> DEFINE fr == [Top EXCEPT !.stage = "body"]
  <2>1. /\ frames[running] # <<>> /\ frames' = SetTop(fr) /\ phase = "running"
        /\ UNCHANGED <<phase, profiling, collector, handlers>>
    BY <1>3 DEF FinishProbe
  <2>2. /\ Top \in Frame /\ Depth(running) \in DOMAIN frames[running]
        /\ Top = frames[running][Depth(running)] /\ running \in Fiber
    BY <1>1, <2>1, TopType DEF TypeOK
  <2>3. fr \in Frame /\ fr.fn = Top.fn /\ fr.hooked = Top.hooked BY <2>2 DEF Frame
  <2> HIDE DEF fr
  <2>4. /\ \A f \in Fiber : DOMAIN frames'[f] = DOMAIN frames[f]
        /\ \A f \in Fiber : \A d \in DOMAIN frames[f] :
             frames'[f][d] = IF f = running /\ d = Depth(running) THEN fr ELSE frames[f][d]
    BY <1>1, <2>1, <2>3, ChangedTop
  <2>5. \A f \in Fiber : \A d \in DOMAIN frames[f] :
          frames'[f][d].fn = frames[f][d].fn /\ frames'[f][d].hooked = frames[f][d].hooked
    BY <2>2, <2>3, <2>4
  <2> QED BY <1>1, <2>1, <2>4, <2>5 DEF RecordInv
<1>4. ~OpaEnable /\ ~OpaDisable BY <1>1, NoToggles
<1>5. CASE Return
  <2>1. /\ frames[running] # <<>> /\ phase = "running"
        /\ frames' = [frames EXCEPT ![running] = SubSeq(@, 1, Len(@) - 1)]
        /\ UNCHANGED <<phase, profiling, handlers>>
    BY <1>5 DEF Return
  <2>2. PICK id \in NextIds : collector' = AfterReturn(id) BY <1>5 DEF Return
  <2>3. id \in Nat \ {NoId} BY <1>1, NextIdsType
  <2>4. Keeps(collector, Hooks(id)) /\ Keeps(Hooks(id), Ended(id)) /\ Keeps(Ended(id), collector')
    BY <1>1, <2>1, <2>2, <2>3, ReturnStages DEF RecordInv
  <2>5. collector'.active = collector.active BY <2>4 DEF Keeps
  <2>6. \A f \in Fiber : \A d \in DOMAIN frames'[f] :
          d \in DOMAIN frames[f] /\ frames'[f][d] = frames[f][d]
    BY <1>1, <2>1, PoppedFrames
  <2> QED BY <1>1, <2>1, <2>5, <2>6 DEF RecordInv
<1>6. CASE StartRequest \/ EndRequest
  <2>1. /\ \A f \in Fiber : frames'[f] = <<>>
        /\ profiling' => collector'.active
        /\ profiling' => \A fn \in Function : handlers'[fn] = Unknown
    <3>1. CASE StartRequest BY <3>1 DEF StartRequest, RecordInv, Started
    <3>2. CASE EndRequest BY <3>2 DEF EndRequest
    <3> QED BY <1>6, <3>1, <3>2
  <2>2. \A f \in Fiber : DOMAIN frames'[f] = {} BY <2>1, EmptySeq
  <2> QED BY <1>1, <2>1, <2>2 DEF RecordInv
<1>7. ASSUME NEW f \in Fiber, Switch(f) PROVE RecordInv'
  BY <1>1, <1>7 DEF Switch, RecordInv
<1>8. CASE UNCHANGED vars BY <1>1, <1>8 DEF vars, RecordInv
<1> QED BY <1>2, <1>3, <1>4, <1>5, <1>6, <1>7, <1>8 DEF Next, Finished

LEMMA RecordInvInit == Init => RecordInv
<1> SUFFICES ASSUME Init PROVE RecordInv OBVIOUS
<1>1. TypeOK BY InitType
<1>2. ~profiling /\ \A f \in Fiber : frames[f] = <<>> BY DEF Init
<1> QED BY <1>1, <1>2 DEF RecordInv

\* In a program that leaves profiling alone, the observers and hooks of a
\* function are there from its first call in the profile to the return of the last.
THEOREM RecordInvariant == NoToggle /\ Spec => []RecordInv
<1>1. CASE NoToggle
  <2>1. RecordInv /\ [Next]_vars => RecordInv' BY <1>1, RecordInvNext
  <2>2. Spec => []RecordInv BY <2>1, RecordInvInit, PTL DEF Spec
  <2> QED BY <2>2
<1>2. CASE ~NoToggle BY <1>2
<1> QED BY <1>1, <1>2

\* The step form of RecordsOwnOperation.
RecordsOwn ==
  Recording(collector) /\ Depth(running) > 0 /\ Len(frames'[running]) = Depth(running) - 1
    => (KindOf[Top.fn] \in {"pdo"} \cup Hooked
          => \E n \in Nodes' : \E p \in DOMAIN n.ops : n.ops[p].call = Top.call)

LEMMA RecordsOwnStep == RecordInv /\ [Next]_vars => RecordsOwn
<1> SUFFICES ASSUME RecordInv, [Next]_vars, Recording(collector), Depth(running) > 0,
                    Len(frames'[running]) = Depth(running) - 1,
                    KindOf[Top.fn] \in {"pdo"} \cup Hooked
             PROVE  \E n \in Nodes' : \E p \in DOMAIN n.ops : n.ops[p].call = Top.call
  BY DEF RecordsOwn
<1>1. TypeOK BY DEF RecordInv
<1>2. Return BY <1>1, PoppedByReturn
<1>3. frames[running] # <<>> BY <1>2 DEF Return
<1>4. PICK id \in NextIds : collector' = AfterReturn(id) BY <1>2 DEF Return
<1>5. id \in Nat \ {NoId} BY <1>1, NextIdsType
<1>6. /\ Top \in Frame /\ Depth(running) \in DOMAIN frames[running]
      /\ Top = frames[running][Depth(running)] /\ running \in Fiber /\ Top.fn \in Function
  BY <1>1, <1>3, TopType DEF TypeOK, Frame
<1>7. /\ KindOf[Top.fn] \in Hooked => Top.hooked
      /\ KindOf[Top.fn] = "pdo" => "pdo" \in handlers[Top.fn]
  BY <1>6 DEF RecordInv, Recording
<1>8. ChargedFor(collector', Top.call)
  <2>1. profiling => collector.active BY DEF RecordInv
  <2> QED BY <1>1, <1>3, <1>4, <1>5, <1>7, <2>1, ReturnRecords
<1>9. PICK i \in DOMAIN collector'.calls : \E p \in DOMAIN collector'.calls[i].ops :
        collector'.calls[i].ops[p].call = Top.call
  BY <1>8 DEF ChargedFor
<1>10. collector'.calls[i] \in Nodes' BY DEF Nodes
<1> QED BY <1>9, <1>10

\* In a program that leaves profiling alone, a call that makes a query or a
\* request has an operation in the profile when it returns, with any settings.
THEOREM RecordsOwnOperationHolds == NoToggle /\ Spec => RecordsOwnOperation
<1>1. CASE NoToggle
  <2>1. RecordInv /\ [Next]_vars => [RecordsOwn]_vars BY RecordsOwnStep
  <2>2. Spec => [][RecordsOwn]_vars BY <1>1, <2>1, RecordInvariant, PTL DEF Spec
  <2> QED BY <2>2 DEF RecordsOwnOperation, RecordsOwn
<1>2. CASE ~NoToggle BY <1>2
<1> QED BY <1>1, <1>2
-----------------------------------------------------------------------------
(* No call is charged with two operations. *)

\* What a return records: the general observer for the call its data is of, the
\* hook and the PDO observer for the call that returns; never two of them.
LEMMA ReturnOneMore ==
  ASSUME TypeOK, profiling => collector.active, OneRecorder, ~CollectInternal,
         frames[running] # <<>>, NEW id \in Nat \ {NoId},
         table[Top.addr] # NoEntry => table[Top.addr].kind \in Userland \cup {"apcu"}
  PROVE  /\ Ends(Top) => OneMore(collector, AfterReturn(id), table[Top.addr].call)
         /\ ~Ends(Top) =>
              \/ AfterReturn(id) = collector
              \/ /\ OneMore(collector, AfterReturn(id), Top.call)
                 /\ KindOf[Top.fn] \in {"pdo"} \cup Hooked
<1>1. /\ Top \in Frame /\ table[Top.addr].call \in Nat
      /\ WellFormed(collector) /\ WellFormed(Hooks(id)) /\ WellFormed(Ended(id))
      /\ AfterReturn(id) = IF "pdo" \in handlers[Top.fn] /\ profiling
                           THEN PdoEnd(Ended(id), Top, id) ELSE Ended(id)
      /\ profiling => Ended(id).active
  BY ReturnStages
<1>2. Top.fn \in Function /\ Depth(running) \in DOMAIN frames[running]
      /\ Top = frames[running][Depth(running)] /\ running \in Fiber
  BY <1>1, TopType DEF TypeOK, Frame
<1>3. /\ "general" \in handlers[Top.fn] => KindOf[Top.fn] \in Userland \cup {"apcu"}
      /\ "pdo" \in handlers[Top.fn] => KindOf[Top.fn] = "pdo"
      /\ Top.hooked => KindOf[Top.fn] \in Hooked
  BY <1>2 DEF OneRecorder
<1>4. CASE Ends(Top)
  <2>1. /\ "general" \in handlers[Top.fn] /\ table[Top.addr] # NoEntry BY <1>4 DEF Ends
  <2>2. ~Top.hooked /\ "pdo" \notin handlers[Top.fn] BY <1>3, <2>1 DEF Hooked, Userland
  <2>3. KindOf[Top.fn] # "curl_exec" /\ table[Top.addr].kind \notin Curl
    BY <1>3, <2>1 DEF Curl, Userland
  <2>4. AfterReturn(id) = FcallEnd(collector, table[Top.addr], Top, id)
    BY <1>1, <1>4, <2>2 DEF Ended, Hooks
  <2>5. OneMore(collector, FcallEnd(collector, table[Top.addr], Top, id), table[Top.addr].call)
    BY <1>1, <2>3, FcallEndOps
  <2> QED BY <1>4, <2>4, <2>5
<1>5. CASE ~Ends(Top) /\ Top.hooked
  <2>1. KindOf[Top.fn] \in Hooked /\ "pdo" \notin handlers[Top.fn]
    BY <1>3, <1>5 DEF Hooked
  <2>2. AfterReturn(id) = HookRecords(collector, Top, id)
    BY <1>1, <1>5, <2>1 DEF Ended, Hooks
  <2>3. OneMore(collector, HookRecords(collector, Top, id), Top.call) BY <1>1, HookOps
  <2> QED BY <1>5, <2>1, <2>2, <2>3
<1>6. CASE ~Ends(Top) /\ ~Top.hooked
  <2>1. Ended(id) = collector BY <1>6 DEF Ended, Hooks
  <2>2. CASE "pdo" \in handlers[Top.fn] /\ profiling
    <3>1. AfterReturn(id) = PdoEnd(collector, Top, id) BY <1>1, <2>1, <2>2
    <3>2. OneMore(collector, PdoEnd(collector, Top, id), Top.call)
      BY <1>1, <2>1, <2>2, PdoEndOps
    <3> QED BY <1>3, <1>6, <2>2, <3>1, <3>2
  <2>3. CASE ~("pdo" \in handlers[Top.fn] /\ profiling) BY <1>1, <1>6, <2>1, <2>3
  <2> QED BY <2>2, <2>3
<1> QED BY <1>4, <1>5, <1>6

\* The operations of c are of calls that have returned, each of another one.
Gone(c) ==
  \A i \in DOMAIN c.calls : \A p \in DOMAIN c.calls[i].ops :
    /\ c.calls[i].ops[p].call <= made
    /\ \A f \in Fiber : \A d \in DOMAIN frames[f] : frames[f][d].call # c.calls[i].ops[p].call
Once(c) ==
  \A i, j \in DOMAIN c.calls : \A p \in DOMAIN c.calls[i].ops, r \in DOMAIN c.calls[j].ops :
    c.calls[i].ops[p].call = c.calls[j].ops[r].call => i = j /\ p = r

\* What the table keeps is of a call without an operation in c.
Pending(c) ==
  \A a \in Address :
    table[a] # NoEntry =>
      /\ table[a].kind \in Userland \cup {"apcu"}
      /\ table[a].call <= made
      /\ ~ChargedFor(c, table[a].call)
      /\ \A b \in Address : table[b] # NoEntry /\ table[b].call = table[a].call => a = b
      /\ \A f \in Fiber : \A d \in DOMAIN frames[f] :
           frames[f][d].call = table[a].call =>
             /\ frames[f][d].addr = a /\ frames[f][d].stage # "probe"
             /\ KindOf[frames[f][d].fn] = table[a].kind

LEMMA OpsSpelled ==
  /\ OpsReturned <=> Gone(collector)
  /\ ChargedOnce <=> Once(collector)
  /\ EntriesPending <=> Pending(collector)
<1>1. \A i \in DOMAIN collector.calls : \A p \in DOMAIN collector.calls[i].ops :
        <<i, p>> \in AllOps /\ OpAt(<<i, p>>) = collector.calls[i].ops[p]
  BY DEF AllOps, OpAt
<1>2. \A q \in AllOps : \E i \in DOMAIN collector.calls : \E p \in DOMAIN collector.calls[i].ops :
        q = <<i, p>>
  BY DEF AllOps
<1>3. ASSUME OpsReturned PROVE Gone(collector)
  <2> SUFFICES ASSUME NEW i \in DOMAIN collector.calls, NEW p \in DOMAIN collector.calls[i].ops
               PROVE  /\ collector.calls[i].ops[p].call <= made
                      /\ \A f \in Fiber : \A d \in DOMAIN frames[f] :
                           frames[f][d].call # collector.calls[i].ops[p].call
    BY DEF Gone
  <2>1. PICK a : a \in AllOps /\ OpAt(a) = collector.calls[i].ops[p] BY <1>1
  <2>2. /\ OpAt(a).call <= made
        /\ \A f \in Fiber : \A d \in DOMAIN frames[f] : frames[f][d].call # OpAt(a).call
    BY <1>3, <2>1 DEF OpsReturned, OpAt
  <2> QED BY <2>1, <2>2
<1>4. ASSUME Gone(collector) PROVE OpsReturned
  <2> SUFFICES ASSUME NEW q \in AllOps
               PROVE  /\ OpAt(q).call <= made
                      /\ \A f \in Fiber : \A d \in DOMAIN frames[f] : frames[f][d].call # OpAt(q).call
    BY DEF OpsReturned, OpAt
  <2>1. PICK i \in DOMAIN collector.calls : \E p \in DOMAIN collector.calls[i].ops : q = <<i, p>>
    BY <1>2
  <2>2. PICK p \in DOMAIN collector.calls[i].ops : q = <<i, p>> BY <2>1
  <2>3. OpAt(q) = collector.calls[i].ops[p] BY <1>1, <2>2
  <2> QED BY <1>4, <2>2, <2>3 DEF Gone
<1>5. ASSUME ChargedOnce PROVE Once(collector)
  <2> SUFFICES ASSUME NEW i \in DOMAIN collector.calls, NEW j \in DOMAIN collector.calls,
                      NEW p \in DOMAIN collector.calls[i].ops, NEW r \in DOMAIN collector.calls[j].ops,
                      collector.calls[i].ops[p].call = collector.calls[j].ops[r].call
               PROVE  i = j /\ p = r
    BY DEF Once
  <2>1. <<i, p>> = <<j, r>> BY <1>1, <1>5 DEF ChargedOnce, OpAt
  <2> QED BY <2>1
<1>6. ASSUME Once(collector) PROVE ChargedOnce
  <2> SUFFICES ASSUME NEW a \in AllOps, NEW b \in AllOps, OpAt(a).call = OpAt(b).call
               PROVE  a = b
    BY DEF ChargedOnce, OpAt
  <2>1. PICK i \in DOMAIN collector.calls : \E p \in DOMAIN collector.calls[i].ops : a = <<i, p>>
    BY <1>2
  <2>2. PICK p \in DOMAIN collector.calls[i].ops : a = <<i, p>> BY <2>1
  <2>3. PICK j \in DOMAIN collector.calls : \E r \in DOMAIN collector.calls[j].ops : b = <<j, r>>
    BY <1>2
  <2>4. PICK r \in DOMAIN collector.calls[j].ops : b = <<j, r>> BY <2>3
  <2>5. OpAt(a) = collector.calls[i].ops[p] /\ OpAt(b) = collector.calls[j].ops[r]
    BY <1>1, <2>2, <2>4
  <2> QED BY <1>6, <2>2, <2>4, <2>5 DEF Once
<1>7. ASSUME NEW k
      PROVE  (\A q \in AllOps : OpAt(q).call # k) <=> ~ChargedFor(collector, k)
  <2>1. ASSUME \A q \in AllOps : OpAt(q).call # k PROVE ~ChargedFor(collector, k)
    BY <1>1, <2>1 DEF ChargedFor
  <2>2. ASSUME ~ChargedFor(collector, k), NEW q \in AllOps PROVE OpAt(q).call # k
    <3>1. PICK i \in DOMAIN collector.calls : \E p \in DOMAIN collector.calls[i].ops : q = <<i, p>>
      BY <1>2
    <3>2. PICK p \in DOMAIN collector.calls[i].ops : q = <<i, p>> BY <3>1
    <3>3. OpAt(q) = collector.calls[i].ops[p] BY <1>1, <3>2
    <3> QED BY <2>2, <3>2, <3>3 DEF ChargedFor
  <2> QED BY <2>1, <2>2
<1>8. EntriesPending <=> Pending(collector) BY <1>7 DEF EntriesPending, Pending, OpAt
<1> QED BY <1>3, <1>4, <1>5, <1>6, <1>8

LEMMA OpsSpelledNext ==
  /\ OpsReturned' <=> Gone(collector)'
  /\ ChargedOnce' <=> Once(collector)'
  /\ EntriesPending' <=> Pending(collector)'
<1>1. \A i \in DOMAIN collector'.calls : \A p \in DOMAIN collector'.calls[i].ops :
        <<i, p>> \in AllOps' /\ collector'.calls[<<i, p>>[1]].ops[<<i, p>>[2]] =
          collector'.calls[i].ops[p]
  BY DEF AllOps, OpAt
<1>2. \A q \in AllOps' : \E i \in DOMAIN collector'.calls : \E p \in DOMAIN collector'.calls[i].ops :
        q = <<i, p>>
  BY DEF AllOps
<1>3. ASSUME OpsReturned' PROVE Gone(collector)'
  <2> SUFFICES ASSUME NEW i \in DOMAIN collector'.calls, NEW p \in DOMAIN collector'.calls[i].ops
               PROVE  /\ collector'.calls[i].ops[p].call <= made'
                      /\ \A f \in Fiber : \A d \in DOMAIN frames'[f] :
                           frames'[f][d].call # collector'.calls[i].ops[p].call
    BY DEF Gone
  <2>1. PICK a : a \in AllOps' /\ collector'.calls[a[1]].ops[a[2]] = collector'.calls[i].ops[p] BY <1>1
  <2>2. /\ collector'.calls[a[1]].ops[a[2]].call <= made'
        /\ \A f \in Fiber : \A d \in DOMAIN frames'[f] : frames'[f][d].call # collector'.calls[a[1]].ops[a[2]].call
    BY <1>3, <2>1 DEF OpsReturned, OpAt
  <2> QED BY <2>1, <2>2
<1>4. ASSUME Gone(collector)' PROVE OpsReturned'
  <2> SUFFICES ASSUME NEW q \in AllOps'
               PROVE  /\ collector'.calls[q[1]].ops[q[2]].call <= made'
                      /\ \A f \in Fiber : \A d \in DOMAIN frames'[f] : frames'[f][d].call # collector'.calls[q[1]].ops[q[2]].call
    BY DEF OpsReturned, OpAt
  <2>1. PICK i \in DOMAIN collector'.calls : \E p \in DOMAIN collector'.calls[i].ops : q = <<i, p>>
    BY <1>2
  <2>2. PICK p \in DOMAIN collector'.calls[i].ops : q = <<i, p>> BY <2>1
  <2>3. collector'.calls[q[1]].ops[q[2]] = collector'.calls[i].ops[p] BY <1>1, <2>2
  <2> QED BY <1>4, <2>2, <2>3 DEF Gone
<1>5. ASSUME ChargedOnce' PROVE Once(collector)'
  <2> SUFFICES ASSUME NEW i \in DOMAIN collector'.calls, NEW j \in DOMAIN collector'.calls,
                      NEW p \in DOMAIN collector'.calls[i].ops, NEW r \in DOMAIN collector'.calls[j].ops,
                      collector'.calls[i].ops[p].call = collector'.calls[j].ops[r].call
               PROVE  i = j /\ p = r
    BY DEF Once
  <2>1. <<i, p>> = <<j, r>> BY <1>1, <1>5 DEF ChargedOnce, OpAt
  <2> QED BY <2>1
<1>6. ASSUME Once(collector)' PROVE ChargedOnce'
  <2> SUFFICES ASSUME NEW a \in AllOps', NEW b \in AllOps', collector'.calls[a[1]].ops[a[2]].call = collector'.calls[b[1]].ops[b[2]].call
               PROVE  a = b
    BY DEF ChargedOnce, OpAt
  <2>1. PICK i \in DOMAIN collector'.calls : \E p \in DOMAIN collector'.calls[i].ops : a = <<i, p>>
    BY <1>2
  <2>2. PICK p \in DOMAIN collector'.calls[i].ops : a = <<i, p>> BY <2>1
  <2>3. PICK j \in DOMAIN collector'.calls : \E r \in DOMAIN collector'.calls[j].ops : b = <<j, r>>
    BY <1>2
  <2>4. PICK r \in DOMAIN collector'.calls[j].ops : b = <<j, r>> BY <2>3
  <2>5. collector'.calls[a[1]].ops[a[2]] = collector'.calls[i].ops[p] /\ collector'.calls[b[1]].ops[b[2]] = collector'.calls[j].ops[r]
    BY <1>1, <2>2, <2>4
  <2> QED BY <1>6, <2>2, <2>4, <2>5 DEF Once
<1>7. ASSUME NEW k
      PROVE  (\A q \in AllOps' : collector'.calls[q[1]].ops[q[2]].call # k) <=> ~ChargedFor(collector', k)
  <2>1. ASSUME \A q \in AllOps' : collector'.calls[q[1]].ops[q[2]].call # k PROVE ~ChargedFor(collector', k)
    BY <1>1, <2>1 DEF ChargedFor
  <2>2. ASSUME ~ChargedFor(collector', k), NEW q \in AllOps' PROVE collector'.calls[q[1]].ops[q[2]].call # k
    <3>1. PICK i \in DOMAIN collector'.calls : \E p \in DOMAIN collector'.calls[i].ops : q = <<i, p>>
      BY <1>2
    <3>2. PICK p \in DOMAIN collector'.calls[i].ops : q = <<i, p>> BY <3>1
    <3>3. collector'.calls[q[1]].ops[q[2]] = collector'.calls[i].ops[p] BY <1>1, <3>2
    <3> QED BY <2>2, <3>2, <3>3 DEF ChargedFor
  <2> QED BY <2>1, <2>2
<1>8. EntriesPending' <=> Pending(collector)' BY <1>7 DEF EntriesPending, Pending, OpAt
<1> QED BY <1>3, <1>4, <1>5, <1>6, <1>8

\* The frames are frames.
LEMMA FramesTyped ==
  ASSUME TypeOK
  PROVE  \A f \in Fiber : \A d \in DOMAIN frames[f] :
           /\ frames[f][d] \in Frame /\ frames[f][d].fn \in Function
           /\ frames[f][d].addr \in Address /\ frames[f][d].call \in Nat
<1>1. \A f \in Fiber : frames[f] \in Seq(Frame) BY DEF TypeOK
<1>2. \A f \in Fiber : \A d \in DOMAIN frames[f] : frames[f][d] \in Frame BY <1>1
<1> QED BY <1>2 DEF Frame

LEMMA CallCharge ==
  ASSUME ~CollectInternal, ChargeInv, TypeOK', NEW fn \in Function, Call(fn)
  PROVE  ChargeInv'
<1>1. TypeOK /\ DistinctAddresses /\ DistinctCalls BY DEF ChargeInv
<1>2. /\ profiling' = profiling /\ made' = made + 1
      /\ handlers' = [handlers EXCEPT ![fn] = InstalledFor(fn)]
  BY DEF Call
<1>3. made \in Nat /\ running \in Fiber BY <1>1 DEF TypeOK
<1>4. PICK fr \in Frame, id \in Nat \ {NoId}, probes \in BOOLEAN :
        /\ frames' = [frames EXCEPT ![running] = Append(@, fr)]
        /\ fr.fn = fn /\ fr.call = made + 1
        /\ fr.hooked = (profiling /\ KindOf[fn] \in Hooked)
        /\ fr.stage = IF probes THEN "probe" ELSE "body"
        /\ \A f \in Fiber : \A d \in DOMAIN frames[f] : frames[f][d].addr # fr.addr
        /\ collector' = collector \/ collector' = EnterFunction(collector, id, made + 1)
        /\ probes => KindOf[fn] = "redis"
        /\ \/ table' = table
           \/ /\ ~probes /\ "general" \in handlers'[fn]
              /\ \E n : table' = [table EXCEPT ![fr.addr] = Entry(n, made + 1, fn)]
  BY <1>1, CallFrame
<1> DEFINE top == Depth(running) + 1
<1>5. /\ \A f \in Fiber : \A d \in DOMAIN frames[f] :
           d \in DOMAIN frames'[f] /\ frames'[f][d] = frames[f][d]
      /\ top \in DOMAIN frames'[running] /\ frames'[running][top] = fr
      /\ \A f \in Fiber : \A d \in DOMAIN frames'[f] :
           \/ d \in DOMAIN frames[f] /\ frames'[f][d] = frames[f][d]
           \/ f = running /\ d = top /\ frames'[f][d] = fr
  BY <1>1, <1>4, PushedFrames
<1> HIDE DEF top
<1>6. \A f \in Fiber : \A d \in DOMAIN frames[f] :
        frames[f][d].call \in Nat /\ frames[f][d].call <= made
  BY <1>1, FramesTyped DEF ChargeInv
<1>7. \A f \in Fiber : \A d \in DOMAIN frames[f] :
        /\ frames[f][d].call <= made' /\ frames[f][d].call # fr.call
  BY <1>2, <1>3, <1>4, <1>6
<1>8. fr.call <= made' BY <1>2, <1>3, <1>4
<1>9. \A g \in Function : handlers'[g] = IF g = fn THEN InstalledFor(fn) ELSE handlers[g]
  BY <1>1, <1>2 DEF TypeOK
<1>10. DistinctAddresses' BY <1>1, <1>4, <1>5 DEF DistinctAddresses
<1>11. DistinctCalls' BY <1>1, <1>5, <1>7 DEF DistinctCalls
<1>12. OneRecorder'
  <2>1. ASSUME NEW g \in Function
        PROVE  /\ "general" \in handlers'[g] => KindOf[g] \in Userland \cup {"apcu"}
               /\ "pdo" \in handlers'[g] => KindOf[g] = "pdo"
    <3>1. /\ "general" \in handlers[g] => KindOf[g] \in Userland \cup {"apcu"}
          /\ "pdo" \in handlers[g] => KindOf[g] = "pdo"
      BY DEF ChargeInv, OneRecorder
    <3>2. /\ handlers[fn] # Unknown => InstalledFor(fn) = handlers[fn]
          /\ handlers[fn] = Unknown =>
               /\ "general" \in InstalledFor(fn) => KindOf[fn] \in Userland \cup {"apcu"}
               /\ "pdo" \in InstalledFor(fn) => KindOf[fn] = "pdo"
      BY <1>1, Installs
    <3> QED BY <1>9, <3>1, <3>2
  <2>2. ASSUME NEW f \in Fiber, NEW d \in DOMAIN frames'[f], frames'[f][d].hooked
        PROVE  KindOf[frames'[f][d].fn] \in Hooked
    <3>1. CASE d \in DOMAIN frames[f] /\ frames'[f][d] = frames[f][d]
      BY <2>2, <3>1 DEF ChargeInv, OneRecorder
    <3>2. CASE frames'[f][d] = fr BY <1>4, <2>2, <3>2
    <3> QED BY <1>5, <3>1, <3>2
  <2> QED BY <2>1, <2>2 DEF OneRecorder
<1>13. \A i \in DOMAIN collector'.calls : \A p \in DOMAIN collector'.calls[i].ops :
         /\ i \in DOMAIN collector.calls /\ p \in DOMAIN collector.calls[i].ops
         /\ collector'.calls[i].ops[p] = collector.calls[i].ops[p]
  <2> DEFINE k == made + 1
  <2>1. WellFormed(collector) BY <1>1 DEF TypeOK, WellFormed, CollectorType
  <2>2. k \in Nat BY <1>3
  <2>3. collector' = collector \/ collector' = EnterFunction(collector, id, k) BY <1>4
  <2> HIDE DEF k
  <2> QED BY <2>1, <2>2, <2>3, EnterOps
<1>14. Gone(collector) /\ Once(collector) /\ Pending(collector) BY OpsSpelled DEF ChargeInv
<1>15. \A i \in DOMAIN collector.calls : \A p \in DOMAIN collector.calls[i].ops :
         /\ collector.calls[i].ops[p].call <= made' /\ collector.calls[i].ops[p].call # fr.call
  <2>1. collector.calls \in Seq(Node) BY <1>1 DEF TypeOK
  <2>2. \A i \in DOMAIN collector.calls : collector.calls[i] \in Node BY <2>1
  <2>3. \A i \in DOMAIN collector.calls : collector.calls[i].ops \in Seq(Op) BY <2>2 DEF Node
  <2>4. \A i \in DOMAIN collector.calls : \A p \in DOMAIN collector.calls[i].ops :
          collector.calls[i].ops[p] \in Op BY <2>3
  <2>5. \A i \in DOMAIN collector.calls : \A p \in DOMAIN collector.calls[i].ops :
          collector.calls[i].ops[p].call \in Nat BY <2>4 DEF Op
  <2>6. \A i \in DOMAIN collector.calls : \A p \in DOMAIN collector.calls[i].ops :
          collector.calls[i].ops[p].call <= made
    BY <1>14 DEF Gone
  <2> QED BY <1>2, <1>3, <1>4, <2>5, <2>6
<1>16. Gone(collector)'
  <2> SUFFICES ASSUME NEW i \in DOMAIN collector'.calls, NEW p \in DOMAIN collector'.calls[i].ops
               PROVE  /\ collector'.calls[i].ops[p].call <= made'
                      /\ \A f \in Fiber : \A d \in DOMAIN frames'[f] :
                           frames'[f][d].call # collector'.calls[i].ops[p].call
    BY DEF Gone
  <2> DEFINE o == collector.calls[i].ops[p].call
  <2>1. /\ o = collector'.calls[i].ops[p].call /\ o <= made' /\ o # fr.call
        /\ \A f \in Fiber : \A d \in DOMAIN frames[f] : frames[f][d].call # o
    BY <1>13, <1>14, <1>15 DEF Gone
  <2> HIDE DEF o
  <2> QED BY <1>5, <2>1
<1>17. Once(collector)' BY <1>13, <1>14 DEF Once
<1>18. \A k : ~ChargedFor(collector, k) => ~ChargedFor(collector', k) BY <1>13 DEF ChargedFor
<1>19. ~ChargedFor(collector, fr.call) BY <1>15 DEF ChargedFor
<1>20. \A a \in Address : table[a] # NoEntry =>
         /\ table[a].call <= made' /\ table[a].call # fr.call
  <2>1. \A a \in Address : table[a].call \in Nat BY <1>1 DEF TypeOK
  <2>2. \A a \in Address : table[a] # NoEntry => table[a].call <= made BY <1>14 DEF Pending
  <2> QED BY <1>2, <1>3, <1>4, <2>1, <2>2
<1>21. \A a \in Address :
         \/ table'[a] = table[a]
         \/ /\ a = fr.addr /\ fr.stage = "body" /\ KindOf[fr.fn] \in Userland \cup {"apcu"}
            /\ table'[a].call = fr.call /\ table'[a].kind = KindOf[fr.fn]
  <2>1. CASE table' = table BY <2>1
  <2>2. CASE table' # table
    <3>1. ~probes /\ "general" \in handlers'[fn] BY <1>4, <2>2
    <3>2. PICK n : table' = [table EXCEPT ![fr.addr] = Entry(n, made + 1, fn)] BY <1>4, <2>2
    <3>3. DOMAIN table = Address BY <1>1 DEF TypeOK
    <3>4. KindOf[fn] \in Userland \cup {"apcu"} BY <1>12, <3>1 DEF OneRecorder
    <3>5. Entry(n, made + 1, fn).call = fr.call /\ Entry(n, made + 1, fn).kind = KindOf[fr.fn]
      BY <1>4 DEF Entry
    <3> QED BY <1>4, <3>1, <3>2, <3>3, <3>4, <3>5
  <2> QED BY <2>1, <2>2
<1>22. Pending(collector)'
  <2> SUFFICES ASSUME NEW a \in Address, table'[a] # NoEntry
               PROVE  /\ table'[a].kind \in Userland \cup {"apcu"}
                      /\ table'[a].call <= made'
                      /\ ~ChargedFor(collector', table'[a].call)
                      /\ \A b \in Address :
                           table'[b] # NoEntry /\ table'[b].call = table'[a].call => a = b
                      /\ \A f \in Fiber : \A d \in DOMAIN frames'[f] :
                           frames'[f][d].call = table'[a].call =>
                             /\ frames'[f][d].addr = a /\ frames'[f][d].stage # "probe"
                             /\ KindOf[frames'[f][d].fn] = table'[a].kind
    BY DEF Pending, ChargedFor
  <2>1. CASE table'[a] = table[a]
    <3>1. /\ table[a].kind \in Userland \cup {"apcu"} /\ ~ChargedFor(collector', table[a].call)
          /\ \A b \in Address : table[b] # NoEntry /\ table[b].call = table[a].call => a = b
          /\ \A f \in Fiber : \A d \in DOMAIN frames[f] :
               frames[f][d].call = table[a].call =>
                 /\ frames[f][d].addr = a /\ frames[f][d].stage # "probe"
                 /\ KindOf[frames[f][d].fn] = table[a].kind
      BY <1>14, <1>18, <2>1 DEF Pending
    <3>2. table[a].call <= made' /\ table[a].call # fr.call BY <1>20, <2>1
    <3>3. \A b \in Address : table'[b] # NoEntry /\ table'[b].call = table[a].call => a = b
      BY <1>21, <3>1, <3>2
    <3>4. \A f \in Fiber : \A d \in DOMAIN frames'[f] :
            frames'[f][d].call = table[a].call =>
              d \in DOMAIN frames[f] /\ frames'[f][d] = frames[f][d]
      BY <1>5, <3>2
    <3> QED BY <2>1, <3>1, <3>2, <3>3, <3>4
  <2>2. CASE table'[a] # table[a]
    <3>1. /\ a = fr.addr /\ fr.stage = "body" /\ KindOf[fr.fn] \in Userland \cup {"apcu"}
          /\ table'[a].call = fr.call /\ table'[a].kind = KindOf[fr.fn]
      BY <1>21, <2>2
    <3>2. \A b \in Address : table'[b] # NoEntry /\ table'[b].call = fr.call => a = b
      BY <1>20, <1>21, <3>1
    <3>3. \A f \in Fiber : \A d \in DOMAIN frames'[f] :
            frames'[f][d].call = fr.call => frames'[f][d] = fr
      BY <1>5, <1>7
    <3>4. ~ChargedFor(collector', fr.call) BY <1>18, <1>19
    <3> QED BY <1>8, <3>1, <3>2, <3>3, <3>4
  <2> QED BY <2>1, <2>2
<1>23. OpsReturned' /\ ChargedOnce' /\ EntriesPending' BY <1>16, <1>17, <1>22, OpsSpelledNext
<1>24. profiling' => collector'.active
  <2> DEFINE k == made + 1
  <2>1. WellFormed(collector) BY <1>1 DEF TypeOK, WellFormed, CollectorType
  <2>2. k \in Nat BY <1>3
  <2>3. collector' = collector \/ collector' = EnterFunction(collector, id, k) BY <1>4
  <2> HIDE DEF k
  <2>4. collector'.active = collector.active BY <2>1, <2>2, <2>3, EnterFunctionType
  <2> QED BY <1>2, <2>4 DEF ChargeInv
<1>25. ASSUME NEW f \in Fiber, NEW d \in DOMAIN frames'[f]
       PROVE  /\ frames'[f][d].call <= made'
              /\ frames'[f][d].stage = "probe" => KindOf[frames'[f][d].fn] = "redis"
  <2>1. CASE d \in DOMAIN frames[f] /\ frames'[f][d] = frames[f][d]
    BY <1>7, <2>1 DEF ChargeInv
  <2>2. CASE frames'[f][d] = fr BY <1>4, <1>8, <2>2
  <2> QED BY <1>5, <2>1, <2>2
<1> QED BY <1>10, <1>11, <1>12, <1>23, <1>24, <1>25 DEF ChargeInv

\* A frame passes from one stage to another.
LEMMA StageCharge ==
  ASSUME ChargeInv, frames[running] # <<>>, NEW stage \in {"body", "exit"},
         frames' = SetTop([Top EXCEPT !.stage = stage]), handlers' = handlers, made' = made
  PROVE  /\ \A f \in Fiber : DOMAIN frames'[f] = DOMAIN frames[f]
         /\ \A f \in Fiber : \A d \in DOMAIN frames[f] :
              /\ frames'[f][d].fn = frames[f][d].fn /\ frames'[f][d].addr = frames[f][d].addr
              /\ frames'[f][d].call = frames[f][d].call
              /\ frames'[f][d].stage # "probe" \/ frames'[f][d].stage = frames[f][d].stage
         /\ \A f \in Fiber : \A d \in DOMAIN frames'[f] :
              /\ frames'[f][d].call <= made'
              /\ frames'[f][d].stage = "probe" => KindOf[frames'[f][d].fn] = "redis"
         /\ frames'[running][Depth(running)].stage = stage
         /\ DistinctAddresses' /\ DistinctCalls' /\ OneRecorder'
<1> DEFINE fr == [Top EXCEPT !.stage = stage]
<1>1. TypeOK BY DEF ChargeInv
<1>2. /\ Top \in Frame /\ Depth(running) \in DOMAIN frames[running]
      /\ Top = frames[running][Depth(running)] /\ running \in Fiber
  BY <1>1, TopType DEF TypeOK
<1>3. /\ fr \in Frame /\ fr.stage = stage /\ fr.fn = Top.fn /\ fr.addr = Top.addr
      /\ fr.call = Top.call /\ fr.hooked = Top.hooked
  BY <1>2 DEF Frame
<1>4. frames' = SetTop(fr) OBVIOUS
<1> HIDE DEF fr
<1>5. /\ \A f \in Fiber : DOMAIN frames'[f] = DOMAIN frames[f]
      /\ \A f \in Fiber : \A d \in DOMAIN frames[f] :
           frames'[f][d] = IF f = running /\ d = Depth(running) THEN fr ELSE frames[f][d]
  BY <1>1, <1>3, <1>4, ChangedTop
<1>6. ASSUME NEW f \in Fiber, NEW d \in DOMAIN frames[f]
      PROVE  /\ frames'[f][d].fn = frames[f][d].fn /\ frames'[f][d].addr = frames[f][d].addr
             /\ frames'[f][d].call = frames[f][d].call
             /\ frames'[f][d].hooked = frames[f][d].hooked
             /\ frames'[f][d].stage # "probe" \/ frames'[f][d].stage = frames[f][d].stage
  <2>1. CASE f = running /\ d = Depth(running) BY <1>2, <1>3, <1>5, <2>1
  <2>2. CASE ~(f = running /\ d = Depth(running)) BY <1>5, <2>2
  <2> QED BY <2>1, <2>2
<1>7. \A f \in Fiber : \A d \in DOMAIN frames'[f] :
        /\ frames'[f][d].call <= made'
        /\ frames'[f][d].stage = "probe" => KindOf[frames'[f][d].fn] = "redis"
  BY <1>5, <1>6 DEF ChargeInv
<1>8. frames'[running][Depth(running)].stage = stage BY <1>2, <1>3, <1>5
<1>9. DistinctAddresses' BY <1>5, <1>6 DEF ChargeInv, DistinctAddresses
<1>10. DistinctCalls' BY <1>5, <1>6 DEF ChargeInv, DistinctCalls
<1>11. OneRecorder' BY <1>5, <1>6 DEF ChargeInv, OneRecorder
<1> QED BY <1>5, <1>6, <1>7, <1>8, <1>9, <1>10, <1>11

LEMMA FinishProbeCharge ==
  ASSUME ChargeInv, TypeOK', FinishProbe
  PROVE  ChargeInv'
<1> DEFINE new == Entry(Top.id, Top.call, Top.fn)
<1>1. TypeOK /\ DistinctCalls BY DEF ChargeInv
<1>2. /\ frames[running] # <<>> /\ Top.stage = "probe"
      /\ frames' = SetTop([Top EXCEPT !.stage = "body"])
      /\ table' = [table EXCEPT ![Top.addr] = new]
      /\ profiling' = profiling /\ collector' = collector /\ handlers' = handlers
      /\ made' = made
  BY DEF FinishProbe
<1>3. /\ Depth(running) \in DOMAIN frames[running]
      /\ Top = frames[running][Depth(running)] /\ running \in Fiber
  BY <1>1, <1>2, TopType DEF TypeOK
<1>4. new.call = Top.call /\ new.kind = KindOf[Top.fn] BY DEF Entry
<1> HIDE DEF new
<1>5. /\ \A f \in Fiber : DOMAIN frames'[f] = DOMAIN frames[f]
      /\ \A f \in Fiber : \A d \in DOMAIN frames[f] :
           /\ frames'[f][d].fn = frames[f][d].fn /\ frames'[f][d].addr = frames[f][d].addr
           /\ frames'[f][d].call = frames[f][d].call
           /\ frames'[f][d].stage # "probe" \/ frames'[f][d].stage = frames[f][d].stage
      /\ \A f \in Fiber : \A d \in DOMAIN frames'[f] :
           /\ frames'[f][d].call <= made'
           /\ frames'[f][d].stage = "probe" => KindOf[frames'[f][d].fn] = "redis"
      /\ frames'[running][Depth(running)].stage = "body"
      /\ DistinctAddresses' /\ DistinctCalls' /\ OneRecorder'
  BY <1>2, StageCharge
<1>6. Top.call <= made /\ KindOf[Top.fn] = "redis" BY <1>2, <1>3 DEF ChargeInv
<1>7. Gone(collector) /\ Once(collector) /\ Pending(collector) BY OpsSpelled DEF ChargeInv
<1>8. Once(collector)' BY <1>2, <1>7 DEF Once
<1>9. Gone(collector)' BY <1>2, <1>5, <1>7 DEF Gone
<1>10. \A a \in Address : table[a] # NoEntry => table[a].call # Top.call
  BY <1>2, <1>3, <1>7 DEF Pending
<1>11. \A a \in Address : table'[a] = IF a = Top.addr THEN new ELSE table[a]
  BY <1>1, <1>2 DEF TypeOK
<1>12. Pending(collector)'
  <2> SUFFICES ASSUME NEW a \in Address, table'[a] # NoEntry
               PROVE  /\ table'[a].kind \in Userland \cup {"apcu"}
                      /\ table'[a].call <= made'
                      /\ ~ChargedFor(collector', table'[a].call)
                      /\ \A b \in Address :
                           table'[b] # NoEntry /\ table'[b].call = table'[a].call => a = b
                      /\ \A f \in Fiber : \A d \in DOMAIN frames'[f] :
                           frames'[f][d].call = table'[a].call =>
                             /\ frames'[f][d].addr = a /\ frames'[f][d].stage # "probe"
                             /\ KindOf[frames'[f][d].fn] = table'[a].kind
    BY DEF Pending, ChargedFor
  <2>1. CASE a = Top.addr
    <3>1. /\ table'[a].call = Top.call /\ table'[a].kind = "redis"
          /\ table'[a].kind = KindOf[Top.fn]
      BY <1>4, <1>6, <1>11, <2>1
    <3>2. "redis" \in Userland BY DEF Userland
    <3>3. ~ChargedFor(collector', Top.call) BY <1>2, <1>3, <1>7 DEF ChargedFor, Gone
    <3>4. \A b \in Address : table'[b] # NoEntry /\ table'[b].call = Top.call => a = b
      BY <1>10, <1>11, <2>1
    <3>5. \A f \in Fiber : \A d \in DOMAIN frames[f] :
            frames[f][d].call = Top.call => f = running /\ d = Depth(running)
      BY <1>1, <1>3 DEF DistinctCalls
    <3>6. \A f \in Fiber : \A d \in DOMAIN frames'[f] :
            frames'[f][d].call = Top.call =>
              /\ frames'[f][d].addr = a /\ frames'[f][d].stage # "probe"
              /\ KindOf[frames'[f][d].fn] = KindOf[Top.fn]
      BY <1>3, <1>5, <2>1, <3>5
    <3> QED BY <1>2, <1>6, <3>1, <3>2, <3>3, <3>4, <3>6
  <2>2. CASE a # Top.addr
    <3>1. table'[a] = table[a] BY <1>11, <2>2
    <3>2. /\ table[a].kind \in Userland \cup {"apcu"} /\ table[a].call <= made
          /\ ~ChargedFor(collector, table[a].call) /\ table[a].call # Top.call
          /\ \A b \in Address : table[b] # NoEntry /\ table[b].call = table[a].call => a = b
          /\ \A f \in Fiber : \A d \in DOMAIN frames[f] :
               frames[f][d].call = table[a].call =>
                 /\ frames[f][d].addr = a /\ frames[f][d].stage # "probe"
                 /\ KindOf[frames[f][d].fn] = table[a].kind
      BY <1>7, <1>10, <3>1 DEF Pending
    <3>3. \A b \in Address : table'[b] # NoEntry /\ table'[b].call = table[a].call => a = b
      BY <1>4, <1>11, <3>2
    <3>4. \A f \in Fiber : \A d \in DOMAIN frames'[f] :
            frames'[f][d].call = table[a].call =>
              /\ frames'[f][d].addr = a /\ frames'[f][d].stage # "probe"
              /\ KindOf[frames'[f][d].fn] = table[a].kind
      BY <1>5, <3>2
    <3> QED BY <1>2, <3>1, <3>2, <3>3, <3>4
  <2> QED BY <2>1, <2>2
<1>13. OpsReturned' /\ ChargedOnce' /\ EntriesPending' BY <1>8, <1>9, <1>12, OpsSpelledNext
<1>14. profiling' => collector'.active BY <1>2 DEF ChargeInv
<1> QED BY <1>5, <1>13, <1>14 DEF ChargeInv

\* opa_enable drops the operations, opa_disable keeps them; entries stay behind.
LEMMA ToggleCharge ==
  ASSUME ChargeInv, TypeOK', OpaEnable \/ OpaDisable
  PROVE  ChargeInv'
<1>1. TypeOK BY DEF ChargeInv
<1>2. /\ frames[running] # <<>> /\ frames' = SetTop([Top EXCEPT !.stage = "exit"])
      /\ table' = table /\ handlers' = handlers /\ made' = made
      /\ \/ profiling' /\ collector' = Started
         \/ ~profiling' /\ collector' = Stopped(collector)
  <2>1. CASE OpaEnable BY <2>1 DEF OpaEnable
  <2>2. CASE OpaDisable BY <2>2 DEF OpaDisable
  <2> QED BY <2>1, <2>2
<1>3. /\ \A f \in Fiber : DOMAIN frames'[f] = DOMAIN frames[f]
      /\ \A f \in Fiber : \A d \in DOMAIN frames[f] :
           /\ frames'[f][d].fn = frames[f][d].fn /\ frames'[f][d].addr = frames[f][d].addr
           /\ frames'[f][d].call = frames[f][d].call
           /\ frames'[f][d].stage # "probe" \/ frames'[f][d].stage = frames[f][d].stage
      /\ \A f \in Fiber : \A d \in DOMAIN frames'[f] :
           /\ frames'[f][d].call <= made'
           /\ frames'[f][d].stage = "probe" => KindOf[frames'[f][d].fn] = "redis"
      /\ DistinctAddresses' /\ DistinctCalls' /\ OneRecorder'
  BY <1>2, StageCharge
<1>4. DOMAIN collector'.calls = {} \/ collector'.calls = collector.calls
  <2>1. DOMAIN Started.calls = {} BY StartedType
  <2>2. Stopped(collector).calls = collector.calls BY <1>1 DEF Stopped, TypeOK
  <2> QED BY <1>2, <2>1, <2>2
<1>5. Gone(collector) /\ Once(collector) /\ Pending(collector) BY OpsSpelled DEF ChargeInv
<1>6. Once(collector)' BY <1>4, <1>5 DEF Once
<1>7. Gone(collector)' BY <1>2, <1>3, <1>4, <1>5 DEF Gone
<1>8. \A k : ~ChargedFor(collector, k) => ~ChargedFor(collector', k) BY <1>4 DEF ChargedFor
<1>9. Pending(collector)'
  <2> SUFFICES ASSUME NEW a \in Address, table[a] # NoEntry
               PROVE  /\ table[a].kind \in Userland \cup {"apcu"}
                      /\ table[a].call <= made
                      /\ ~ChargedFor(collector', table[a].call)
                      /\ \A b \in Address :
                           table[b] # NoEntry /\ table[b].call = table[a].call => a = b
                      /\ \A f \in Fiber : \A d \in DOMAIN frames'[f] :
                           frames'[f][d].call = table[a].call =>
                             /\ frames'[f][d].addr = a /\ frames'[f][d].stage # "probe"
                             /\ KindOf[frames'[f][d].fn] = table[a].kind
    BY <1>2 DEF Pending, ChargedFor
  <2>1. /\ table[a].kind \in Userland \cup {"apcu"} /\ table[a].call <= made
        /\ ~ChargedFor(collector, table[a].call)
        /\ \A b \in Address : table[b] # NoEntry /\ table[b].call = table[a].call => a = b
    BY <1>5 DEF Pending
  <2>2. \A f \in Fiber : \A d \in DOMAIN frames[f] :
          frames[f][d].call = table[a].call =>
            /\ frames[f][d].addr = a /\ frames[f][d].stage # "probe"
            /\ KindOf[frames[f][d].fn] = table[a].kind
    BY <1>5 DEF Pending
  <2>3. \A f \in Fiber : \A d \in DOMAIN frames'[f] :
          frames'[f][d].call = table[a].call =>
            /\ frames'[f][d].addr = a /\ frames'[f][d].stage # "probe"
            /\ KindOf[frames'[f][d].fn] = table[a].kind
    BY <1>3, <2>2
  <2> QED BY <1>8, <2>1, <2>3
<1>10. OpsReturned' /\ ChargedOnce' /\ EntriesPending' BY <1>6, <1>7, <1>9, OpsSpelledNext
<1>11. profiling' => collector'.active BY <1>2 DEF Started
<1> QED BY <1>3, <1>10, <1>11 DEF ChargeInv

LEMMA ReturnCharge ==
  ASSUME ~CollectInternal, ChargeInv, TypeOK', Return
  PROVE  ChargeInv'
<1>1. TypeOK /\ DistinctAddresses /\ DistinctCalls BY DEF ChargeInv
<1>2. /\ frames[running] # <<>>
      /\ frames' = [frames EXCEPT ![running] = SubSeq(@, 1, Len(@) - 1)]
      /\ table' = IF Ends(Top) THEN [table EXCEPT ![Top.addr] = NoEntry] ELSE table
      /\ profiling' = profiling /\ handlers' = handlers /\ made' = made
  BY DEF Return
<1>3. PICK id \in NextIds : collector' = AfterReturn(id) BY DEF Return
<1>4. id \in Nat \ {NoId} BY <1>1, NextIdsType
<1>5. /\ Top \in Frame /\ Depth(running) \in DOMAIN frames[running]
      /\ Top = frames[running][Depth(running)] /\ running \in Fiber /\ Top.addr \in Address
  BY <1>1, <1>2, TopType DEF TypeOK, Frame
<1>6. \A f \in Fiber : \A d \in DOMAIN frames'[f] :
        /\ d \in DOMAIN frames[f]
        /\ frames'[f][d] = frames[f][d]
        /\ f = running => d # Depth(running)
  BY <1>1, <1>2, PoppedFrames
<1>7. profiling => collector.active BY DEF ChargeInv
<1>8. Gone(collector) /\ Once(collector) /\ Pending(collector) BY OpsSpelled DEF ChargeInv
<1>9. \A a \in Address :
        table'[a] # NoEntry => table'[a] = table[a] /\ (Ends(Top) => a # Top.addr)
  <2>1. DOMAIN table = Address BY <1>1 DEF TypeOK
  <2> QED BY <1>2, <1>5, <2>1
<1>10. /\ Ends(Top) => OneMore(collector, collector', table[Top.addr].call)
       /\ ~Ends(Top) =>
            \/ collector' = collector
            \/ OneMore(collector, collector', Top.call) /\ KindOf[Top.fn] \in {"pdo"} \cup Hooked
  <2>1. OneRecorder BY DEF ChargeInv
  <2>2. table[Top.addr] # NoEntry => table[Top.addr].kind \in Userland \cup {"apcu"}
    BY <1>5, <1>8 DEF Pending
  <2> QED BY <1>1, <1>2, <1>3, <1>4, <1>7, <2>1, <2>2, ReturnOneMore
\* If an operation is added, it is the first of its call, which is not running
\* any more and has no entry left.
<1>11. PICK k : /\ OneMore(collector, collector', k)
                /\ collector' = collector
                     \/ /\ k <= made /\ ~ChargedFor(collector, k)
                        /\ \A f \in Fiber : \A d \in DOMAIN frames'[f] : frames'[f][d].call # k
                        /\ \A a \in Address : table'[a] # NoEntry => table[a].call # k
  <2>1. CASE Ends(Top)
    <3> DEFINE k == table[Top.addr].call
    <3>1. table[Top.addr] # NoEntry BY <2>1 DEF Ends
    <3>2. /\ k <= made /\ ~ChargedFor(collector, k)
          /\ \A b \in Address : table[b] # NoEntry /\ table[b].call = k => Top.addr = b
          /\ \A f \in Fiber : \A d \in DOMAIN frames[f] :
               frames[f][d].call = k => frames[f][d].addr = Top.addr
      BY <1>5, <1>8, <3>1 DEF Pending
    <3>3. OneMore(collector, collector', k) BY <1>10, <2>1
    <3> HIDE DEF k
    <3>4. \A f \in Fiber : \A d \in DOMAIN frames'[f] : frames'[f][d].call # k
      BY <1>1, <1>5, <1>6, <3>2 DEF DistinctAddresses
    <3>5. \A a \in Address : table'[a] # NoEntry => table[a].call # k BY <1>9, <2>1, <3>2
    <3> QED BY <3>2, <3>3, <3>4, <3>5
  <2>2. CASE collector' = collector BY <2>2, NoneMore
  <2>3. CASE /\ ~Ends(Top) /\ OneMore(collector, collector', Top.call)
             /\ KindOf[Top.fn] \in {"pdo"} \cup Hooked
    <3>1. Top.call <= made BY <1>5 DEF ChargeInv
    <3>2. ~ChargedFor(collector, Top.call) BY <1>5, <1>8 DEF ChargedFor, Gone
    <3>3. \A f \in Fiber : \A d \in DOMAIN frames'[f] : frames'[f][d].call # Top.call
      BY <1>1, <1>5, <1>6 DEF DistinctCalls
    <3>4. KindOf[Top.fn] \notin Userland \cup {"apcu"} BY <2>3 DEF Userland, Hooked
    <3>5. \A a \in Address : table[a] # NoEntry => table[a].call # Top.call
      BY <1>5, <1>8, <3>4 DEF Pending
    <3>6. \A a \in Address : table'[a] # NoEntry => table[a].call # Top.call BY <1>9, <3>5
    <3> QED BY <2>3, <3>1, <3>2, <3>3, <3>6
  <2> QED BY <1>10, <2>1, <2>2, <2>3
<1>12. PICK n, r : \A i \in DOMAIN collector'.calls : \A p \in DOMAIN collector'.calls[i].ops :
         \/ /\ i \in DOMAIN collector.calls /\ p \in DOMAIN collector.calls[i].ops
            /\ collector'.calls[i].ops[p] = collector.calls[i].ops[p]
         \/ /\ collector' # collector
            /\ i = n /\ p = r /\ collector'.calls[i].ops[p].call = k
  <2>1. CASE collector' = collector BY <2>1
  <2>2. CASE collector' # collector BY <1>11, <2>2 DEF OneMore
  <2> QED BY <2>1, <2>2
<1>13. Gone(collector)'
  <2> SUFFICES ASSUME NEW i \in DOMAIN collector'.calls, NEW p \in DOMAIN collector'.calls[i].ops
               PROVE  /\ collector'.calls[i].ops[p].call <= made'
                      /\ \A f \in Fiber : \A d \in DOMAIN frames'[f] :
                           frames'[f][d].call # collector'.calls[i].ops[p].call
    BY DEF Gone
  <2>1. CASE /\ i \in DOMAIN collector.calls /\ p \in DOMAIN collector.calls[i].ops
             /\ collector'.calls[i].ops[p] = collector.calls[i].ops[p]
    BY <1>2, <1>6, <1>8, <2>1 DEF Gone
  <2>2. CASE collector' # collector /\ collector'.calls[i].ops[p].call = k
    BY <1>2, <1>11, <2>2
  <2> QED BY <1>12, <2>1, <2>2
<1>14. Once(collector)'
  <2>1. collector' # collector =>
          \A i \in DOMAIN collector.calls : \A p \in DOMAIN collector.calls[i].ops :
            collector.calls[i].ops[p].call # k
    BY <1>11 DEF ChargedFor
  <2> QED BY <1>8, <1>12, <2>1 DEF Once
<1>15. Pending(collector)'
  <2> SUFFICES ASSUME NEW a \in Address, table'[a] # NoEntry
               PROVE  /\ table'[a].kind \in Userland \cup {"apcu"}
                      /\ table'[a].call <= made'
                      /\ ~ChargedFor(collector', table'[a].call)
                      /\ \A b \in Address :
                           table'[b] # NoEntry /\ table'[b].call = table'[a].call => a = b
                      /\ \A f \in Fiber : \A d \in DOMAIN frames'[f] :
                           frames'[f][d].call = table'[a].call =>
                             /\ frames'[f][d].addr = a /\ frames'[f][d].stage # "probe"
                             /\ KindOf[frames'[f][d].fn] = table'[a].kind
    BY DEF Pending, ChargedFor
  <2>1. table'[a] = table[a] /\ table[a] # NoEntry BY <1>9
  <2>2. /\ table[a].kind \in Userland \cup {"apcu"} /\ table[a].call <= made
        /\ ~ChargedFor(collector, table[a].call)
        /\ \A b \in Address : table[b] # NoEntry /\ table[b].call = table[a].call => a = b
        /\ \A f \in Fiber : \A d \in DOMAIN frames[f] :
             frames[f][d].call = table[a].call =>
               /\ frames[f][d].addr = a /\ frames[f][d].stage # "probe"
               /\ KindOf[frames[f][d].fn] = table[a].kind
    BY <1>8, <2>1 DEF Pending
  <2>3. ~ChargedFor(collector', table[a].call)
    <3>1. collector' # collector => table[a].call # k BY <1>11
    <3> QED BY <1>12, <2>2, <3>1 DEF ChargedFor
  <2>4. \A b \in Address : table'[b] # NoEntry /\ table'[b].call = table[a].call => a = b
    BY <1>9, <2>2
  <2>5. \A f \in Fiber : \A d \in DOMAIN frames'[f] :
          frames'[f][d].call = table[a].call =>
            /\ frames'[f][d].addr = a /\ frames'[f][d].stage # "probe"
            /\ KindOf[frames'[f][d].fn] = table[a].kind
    BY <1>6, <2>2
  <2> QED BY <1>2, <2>1, <2>2, <2>3, <2>4, <2>5
<1>16. OpsReturned' /\ ChargedOnce' /\ EntriesPending' BY <1>13, <1>14, <1>15, OpsSpelledNext
<1>17. DistinctAddresses' BY <1>1, <1>6 DEF DistinctAddresses
<1>18. DistinctCalls' BY <1>1, <1>6 DEF DistinctCalls
<1>19. OneRecorder' BY <1>2, <1>6 DEF ChargeInv, OneRecorder
<1>20. profiling' => collector'.active
  <2>1. Keeps(collector, Hooks(id)) /\ Keeps(Hooks(id), Ended(id)) /\ Keeps(Ended(id), collector')
    BY <1>1, <1>2, <1>3, <1>4, <1>7, ReturnStages
  <2> QED BY <1>2, <1>7, <2>1 DEF Keeps
<1>21. \A f \in Fiber : \A d \in DOMAIN frames'[f] :
         /\ frames'[f][d].call <= made'
         /\ frames'[f][d].stage = "probe" => KindOf[frames'[f][d].fn] = "redis"
  BY <1>2, <1>6 DEF ChargeInv
<1> QED BY <1>16, <1>17, <1>18, <1>19, <1>20, <1>21 DEF ChargeInv

\* A request starts and ends without nodes; entries left behind stay pending.
LEMMA RequestCharge ==
  ASSUME ChargeInv, TypeOK', StartRequest \/ EndRequest
  PROVE  ChargeInv'
<1>1. /\ frames' = frames /\ made' = made
      /\ profiling' => collector'.active
      /\ collector' \in {Started, Stopped(Started)}
      /\ table' = table \/ \A a \in Address : table'[a] = NoEntry
      /\ handlers' = handlers \/ \A fn \in Function : handlers'[fn] = Unknown
  <2>1. CASE StartRequest BY <2>1 DEF StartRequest, Started
  <2>2. CASE EndRequest BY <2>2 DEF EndRequest
  <2> QED BY <2>1, <2>2
<1>2. DOMAIN collector'.calls = {} BY <1>1, StartedType
<1>3. OneRecorder'
  <2>1. ASSUME NEW fn \in Function
        PROVE  /\ "general" \in handlers'[fn] => KindOf[fn] \in Userland \cup {"apcu"}
               /\ "pdo" \in handlers'[fn] => KindOf[fn] = "pdo"
    <3>1. CASE handlers' = handlers BY <3>1 DEF ChargeInv, OneRecorder
    <3>2. CASE handlers'[fn] = Unknown BY <3>2 DEF Unknown
    <3> QED BY <1>1, <3>1, <3>2
  <2>2. \A f \in Fiber : \A d \in DOMAIN frames'[f] :
          frames'[f][d].hooked => KindOf[frames'[f][d].fn] \in Hooked
    BY <1>1 DEF ChargeInv, OneRecorder
  <2> QED BY <2>1, <2>2 DEF OneRecorder
<1>4. Gone(collector)' BY <1>2 DEF Gone
<1>5. Once(collector)' BY <1>2 DEF Once
<1>6. Pending(collector)'
  <2>1. Pending(collector) BY OpsSpelled DEF ChargeInv
  <2>2. \A k : ~ChargedFor(collector', k) BY <1>2 DEF ChargedFor
  <2>3. CASE table' = table
    <3> SUFFICES ASSUME NEW a \in Address, table[a] # NoEntry
                 PROVE  /\ table[a].kind \in Userland \cup {"apcu"}
                        /\ table[a].call <= made
                        /\ ~ChargedFor(collector', table[a].call)
                        /\ \A b \in Address :
                             table[b] # NoEntry /\ table[b].call = table[a].call => a = b
                        /\ \A f \in Fiber : \A d \in DOMAIN frames[f] :
                             frames[f][d].call = table[a].call =>
                               /\ frames[f][d].addr = a /\ frames[f][d].stage # "probe"
                               /\ KindOf[frames[f][d].fn] = table[a].kind
      BY <1>1, <2>3 DEF Pending, ChargedFor
    <3> QED BY <2>1, <2>2 DEF Pending
  <2>4. CASE \A a \in Address : table'[a] = NoEntry BY <2>4 DEF Pending
  <2> QED BY <1>1, <2>3, <2>4
<1>7. OpsReturned' /\ ChargedOnce' /\ EntriesPending' BY <1>4, <1>5, <1>6, OpsSpelledNext
<1>8. DistinctAddresses' /\ DistinctCalls'
  BY <1>1 DEF ChargeInv, DistinctAddresses, DistinctCalls
<1>9. \A f \in Fiber : \A d \in DOMAIN frames'[f] :
        /\ frames'[f][d].call <= made'
        /\ frames'[f][d].stage = "probe" => KindOf[frames'[f][d].fn] = "redis"
  BY <1>1 DEF ChargeInv
<1> QED BY <1>1, <1>3, <1>7, <1>8, <1>9 DEF ChargeInv

\* Steps that change none of what it is about.
LEMMA ChargeKept ==
  ASSUME ChargeInv, TypeOK', profiling' = profiling, collector' = collector,
         table' = table, handlers' = handlers, frames' = frames, made' = made
  PROVE  ChargeInv'
<1>1. Gone(collector) /\ Once(collector) /\ Pending(collector) BY OpsSpelled DEF ChargeInv
<1>2. Gone(collector)' /\ Once(collector)'
  <2>1. Gone(collector)' BY <1>1 DEF Gone
  <2>2. Once(collector)' BY <1>1 DEF Once
  <2> QED BY <2>1, <2>2
<1>3. Pending(collector)' BY <1>1 DEF Pending, ChargedFor
<1>4. DistinctAddresses' /\ DistinctCalls' BY DEF ChargeInv, DistinctAddresses, DistinctCalls
<1>5. OneRecorder' BY DEF ChargeInv, OneRecorder
<1>6. \A f \in Fiber : \A d \in DOMAIN frames'[f] :
        /\ frames'[f][d].call <= made'
        /\ frames'[f][d].stage = "probe" => KindOf[frames'[f][d].fn] = "redis"
  BY DEF ChargeInv
<1>7. OpsReturned' /\ ChargedOnce' /\ EntriesPending' BY <1>2, <1>3, OpsSpelledNext
<1> QED BY <1>4, <1>5, <1>6, <1>7 DEF ChargeInv

LEMMA ChargeInvNext == ~CollectInternal /\ ChargeInv /\ [Next]_vars => ChargeInv'
<1> SUFFICES ASSUME ~CollectInternal, ChargeInv, [Next]_vars PROVE ChargeInv'
  OBVIOUS
<1>1. TypeOK' BY TypeNext DEF ChargeInv
<1>2. ASSUME NEW fn \in Function, Call(fn) PROVE ChargeInv' BY <1>1, <1>2, CallCharge
<1>3. CASE FinishProbe BY <1>1, <1>3, FinishProbeCharge
<1>4. CASE OpaEnable \/ OpaDisable BY <1>1, <1>4, ToggleCharge
<1>5. CASE Return BY <1>1, <1>5, ReturnCharge
<1>6. CASE StartRequest \/ EndRequest BY <1>1, <1>6, RequestCharge
<1>7. ASSUME NEW f \in Fiber, Switch(f) PROVE ChargeInv'
  <2>1. /\ profiling' = profiling /\ collector' = collector /\ table' = table
        /\ handlers' = handlers /\ frames' = frames /\ made' = made
    BY <1>7 DEF Switch
  <2> QED BY <1>1, <2>1, ChargeKept
<1>8. CASE UNCHANGED vars
  <2>1. /\ profiling' = profiling /\ collector' = collector /\ table' = table
        /\ handlers' = handlers /\ frames' = frames /\ made' = made
    BY <1>8 DEF vars
  <2> QED BY <1>1, <2>1, ChargeKept
<1> QED BY <1>2, <1>3, <1>4, <1>5, <1>6, <1>7, <1>8 DEF Next, Finished

LEMMA ChargeInvInit == Init => ChargeInv
<1> SUFFICES ASSUME Init PROVE ChargeInv OBVIOUS
<1>1. TypeOK BY InitType
<1>2. /\ ~profiling /\ \A f \in Fiber : frames[f] = <<>>
      /\ \A a \in Address : table[a] = NoEntry
      /\ \A fn \in Function : handlers[fn] = Unknown
      /\ collector = Stopped(Started)
  BY DEF Init
<1>3. \A f \in Fiber : DOMAIN frames[f] = {} BY <1>2, EmptySeq
<1>4. DOMAIN collector.calls = {} BY <1>2, StartedType
<1>5. OpsReturned /\ ChargedOnce BY <1>4, OpsSpelled DEF Gone, Once
<1>6. OneRecorder BY <1>2, <1>3 DEF OneRecorder, Unknown
<1>7. EntriesPending BY <1>2 DEF EntriesPending
<1> QED BY <1>1, <1>2, <1>3, <1>5, <1>6, <1>7
      DEF ChargeInv, DistinctAddresses, DistinctCalls

\* Under the default settings no function has two recorders, and the per-call
\* data the table keeps is of a call without operations that runs, if at all, at
\* that address: whatever the ids, for any number of fibers and any use of
\* opa_enable and opa_disable.
THEOREM ChargeInvariant == ~CollectInternal /\ Spec => []ChargeInv
<1>1. CASE ~CollectInternal
  <2>1. ChargeInv /\ [Next]_vars => ChargeInv' BY <1>1, ChargeInvNext
  <2>2. Spec => []ChargeInv BY <2>1, ChargeInvInit, PTL DEF Spec
  <2> QED BY <2>2
<1>2. CASE CollectInternal BY <1>2
<1> QED BY <1>1, <1>2

\* Under the default settings no call is charged with two operations, though
\* the hooks, the PDO observer and the general observer overlap and entries
\* outlive the profile that made them.
THEOREM ChargedOnceHolds == ~CollectInternal /\ Spec => []ChargedOnce
<1>1. CASE ~CollectInternal
  <2>1. ChargeInv => ChargedOnce BY DEF ChargeInv
  <2>2. Spec => []ChargedOnce BY <1>1, <2>1, ChargeInvariant, PTL
  <2> QED BY <2>2
<1>2. CASE CollectInternal BY <1>2
<1> QED BY <1>1, <1>2
=============================================================================
