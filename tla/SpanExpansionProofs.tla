------------------------ MODULE SpanExpansionProofs ------------------------
(***************************************************************************)
(* Theorems of SpanExpansion: the parents that child spans name are sent,  *)
(* no operation is lost or sent twice, and with distinct ids each child    *)
(* span names the nearest significant ancestor.                            *)
(***************************************************************************)
EXTENDS SpanExpansion, FiniteSetTheorems, TLAPS

\* What appending does to a sequence.
LEMMA Appending ==
  ASSUME NEW S, NEW q \in Seq(S), NEW x \in S
  PROVE  /\ Append(q, x) \in Seq(S)
         /\ DOMAIN q = 1..Len(q)
         /\ DOMAIN Append(q, x) = 1..(Len(q) + 1)
         /\ Len(q) \in Nat
         /\ \A k \in DOMAIN q : k \in DOMAIN Append(q, x) /\ Append(q, x)[k] = q[k]
         /\ Append(q, x)[Len(q) + 1] = x
  OBVIOUS

\* Removing the last element of a sequence.
LEMMA Popping ==
  ASSUME NEW S, NEW q \in Seq(S), q # <<>>
  PROVE  SubSeq(q, 1, Len(q) - 1) \in Seq(S)
  OBVIOUS

\* What the nodes hold.
LEMMA NodeFields ==
  ASSUME calls \in Seq(Node)
  PROVE  \A i \in DOMAIN calls : calls[i] \in Node /\ calls[i].id \in Nat \ {NoId}
  <1> SUFFICES ASSUME NEW i \in DOMAIN calls
               PROVE  calls[i] \in Node /\ calls[i].id \in Nat \ {NoId}
    OBVIOUS
  <1>1. calls[i] \in Node
    OBVIOUS
  <1> QED BY <1>1 DEF Node

\* A node is entered with an id above the last one if ticks are distinct, and
\* its parent is the node on top of the stack.
LEMMA EnterKeeps ==
  ASSUME TypeOK, ParentsOlder, IdsDistinct, ConstantsAssumption,
         NEW o \in SUBSET [kind : Kind, n : 1..MaxOps], EnterFunction(o)
  PROVE  /\ tick' \in Nat
         /\ calls' \in Seq(Node)
         /\ Len(calls') = Len(calls) + 1
         /\ stack' \in Seq(DOMAIN calls')
         /\ ParentsOlder'
         /\ IdsDistinct'
  <1> DEFINE n == Len(calls) + 1
  <1>1. PICK id \in NextIds :
          /\ tick' = id
          /\ calls' = Append(calls, [id |-> id, parent |-> TopId, ended |-> FALSE,
                                     took |-> 0, ops |-> o])
    BY DEF EnterFunction
  <1>2. id \in Nat \ {NoId} /\ id >= tick /\ (DistinctTicks => id > tick)
    BY DEF NextIds, NoId, TypeOK, ConstantsAssumption
  <1>3. /\ calls \in Seq(Node) /\ stack \in Seq(DOMAIN calls)
        /\ DOMAIN calls = 1..Len(calls) /\ Len(calls) \in Nat
    BY DEF TypeOK
  <1>4. \/ TopId = NoId
        \/ \E j \in DOMAIN calls : TopId = calls[j].id /\ TopId \in Nat
    <2>1. CASE stack = <<>>
      BY <2>1 DEF TopId
    <2>2. CASE stack # <<>>
      <3>1. stack[Len(stack)] \in DOMAIN calls
        BY <1>3, <2>2
      <3>2. calls[stack[Len(stack)]].id \in Nat
        BY <1>3, <3>1, NodeFields
      <3> QED BY <2>2, <3>1, <3>2 DEF TopId
    <2> QED BY <2>1, <2>2
  <1>5. TopId \in Nat
    BY <1>4 DEF NoId
  <1> DEFINE node == [id |-> id, parent |-> TopId, ended |-> FALSE, took |-> 0, ops |-> o]
  <1>6. node \in Node
    BY <1>2, <1>5, ConstantsAssumption DEF Node, ConstantsAssumption
  <1>7. /\ calls' \in Seq(Node) /\ Len(calls') = n /\ DOMAIN calls' = 1..n
        /\ calls'[n] = node
        /\ \A i \in DOMAIN calls : i \in 1..Len(calls) /\ calls'[i] = calls[i]
    BY <1>1, <1>3, <1>6
  <1>8. stack' \in Seq(DOMAIN calls')
    <2>1. stack' = Append(stack, n)
      BY DEF EnterFunction
    <2>2. stack \in Seq(1..n)
      BY <1>3
    <2> QED BY <1>3, <1>7, <2>1, <2>2
  <1>9. ParentsOlder'
    <2> SUFFICES ASSUME NEW i \in DOMAIN calls', calls'[i].parent # NoId
                 PROVE  \E j \in 1..(i - 1) : calls'[j].id = calls'[i].parent
      BY DEF ParentsOlder
    <2>1. CASE i \in DOMAIN calls
      <3>1. PICK j \in 1..(i - 1) : calls[j].id = calls[i].parent
        BY <1>7, <2>1 DEF ParentsOlder
      <3>2. j \in DOMAIN calls
        BY <1>3, <2>1
      <3> QED BY <1>7, <2>1, <3>1, <3>2
    <2>2. CASE i = n
      <3>1. PICK j \in DOMAIN calls : TopId = calls[j].id
        BY <1>4, <1>7, <2>2
      <3>2. j \in 1..(i - 1) /\ calls'[j] = calls[j]
        BY <1>3, <1>7, <2>2, <3>1
      <3> QED BY <1>7, <2>2, <3>1, <3>2
    <2> QED BY <1>3, <1>7, <2>1, <2>2
  <1>10. IdsDistinct'
    <2> SUFFICES ASSUME DistinctTicks
                 PROVE  /\ \A i \in DOMAIN calls' : calls'[i].id <= tick'
                        /\ \A i, j \in DOMAIN calls' : calls'[i].id = calls'[j].id => i = j
      BY DEF IdsDistinct
    <2>1. tick' = id /\ calls'[n].id = id /\ id > tick /\ id \in Nat /\ tick \in Nat
      BY <1>1, <1>2, <1>7 DEF TypeOK
    <2>2. \A i \in DOMAIN calls : calls'[i].id \in Nat /\ calls'[i].id <= tick
      BY <1>3, <1>7, NodeFields DEF IdsDistinct
    <2>3. \A i \in DOMAIN calls' : i \in DOMAIN calls \/ i = n
      BY <1>3, <1>7
    <2>4. \A i, j \in DOMAIN calls : calls'[i].id = calls'[j].id => i = j
      BY <1>7 DEF IdsDistinct
    <2> HIDE DEF n
    <2> QED BY <2>1, <2>2, <2>3, <2>4
  <1> QED BY <1>1, <1>2, <1>7, <1>8, <1>9, <1>10

\* An end changes no id and no parent.
LEMMA ExitKeeps ==
  ASSUME TypeOK, ParentsOlder, IdsDistinct, ConstantsAssumption,
         NEW id, ExitFunction(id), tick' = tick
  PROVE  /\ calls' \in Seq(Node)
         /\ DOMAIN calls' = DOMAIN calls
         /\ stack' \in Seq(DOMAIN calls')
         /\ ParentsOlder'
         /\ IdsDistinct'
  <1>1. PICK t \in 0..MaxTime :
          calls' = [i \in DOMAIN calls |->
                      IF IsNewest(id, i) THEN [calls[i] EXCEPT !.ended = TRUE, !.took = t]
                      ELSE calls[i]]
    BY DEF ExitFunction
  <1>2. calls \in Seq(Node) /\ stack \in Seq(DOMAIN calls) /\ DOMAIN calls = 1..Len(calls)
        /\ Len(calls) \in Nat
    BY DEF TypeOK
  <1>3. \A i \in DOMAIN calls :
          /\ calls[i] \in Node
          /\ calls'[i] \in Node
          /\ calls'[i].id = calls[i].id
          /\ calls'[i].parent = calls[i].parent
    <2> SUFFICES ASSUME NEW i \in DOMAIN calls
                 PROVE  /\ calls[i] \in Node
                        /\ calls'[i] \in Node
                        /\ calls'[i].id = calls[i].id
                        /\ calls'[i].parent = calls[i].parent
      OBVIOUS
    <2>1. calls[i] \in Node
      BY <1>2
    <2>2. CASE IsNewest(id, i)
      <3>1. calls'[i] = [calls[i] EXCEPT !.ended = TRUE, !.took = t]
        BY <1>1, <2>2
      <3> QED BY <2>1, <3>1 DEF Node
    <2>3. CASE ~IsNewest(id, i)
      BY <1>1, <2>1, <2>3
    <2> QED BY <2>1, <2>2, <2>3
  <1>4. DOMAIN calls' = DOMAIN calls
    BY <1>1
  <1>5. calls' \in Seq(Node)
    <2>1. calls' \in [1..Len(calls) -> Node]
      BY <1>1, <1>2, <1>3
    <2> QED BY <1>2, <2>1
  <1>6. stack' \in Seq(DOMAIN calls')
    <2>1. CASE stack # <<>> /\ TopId = id
      BY <1>2, <1>4, <2>1, Popping DEF ExitFunction
    <2>2. CASE ~(stack # <<>> /\ TopId = id)
      BY <1>2, <1>4, <2>2 DEF ExitFunction
    <2> QED BY <2>1, <2>2
  <1>7. ParentsOlder'
    <2> SUFFICES ASSUME NEW i \in DOMAIN calls', calls'[i].parent # NoId
                 PROVE  \E j \in 1..(i - 1) : calls'[j].id = calls'[i].parent
      BY DEF ParentsOlder
    <2>1. PICK j \in 1..(i - 1) : calls[j].id = calls[i].parent
      BY <1>3, <1>4 DEF ParentsOlder
    <2>2. j \in DOMAIN calls
      BY <1>2, <1>4
    <2> QED BY <1>3, <1>4, <2>1, <2>2
  <1>8. IdsDistinct'
    BY <1>3, <1>4 DEF IdsDistinct
  <1> QED BY <1>4, <1>5, <1>6, <1>7, <1>8
----------------------------------------------------------------------------
\* The profile part of the invariant: it is all that the request's steps can
\* disturb.
ProfileInv == TypeOK /\ ParentsOlder /\ IdsDistinct

\* Nothing is sent while the request runs, so nothing can be wrong with it.
LEMMA NothingSent ==
  ASSUME TypeOK, LoopInNodes, phase = "request", phase' = "request", UNCHANGED expansion,
         ProfileInv'
  PROVE  IInv'
  <1>1. sent' = <<>>
    BY DEF LoopInNodes, expansion
  <1> QED BY <1>1 DEF IInv, ProfileInv, LoopInNodes, ParentsSignificant, PassedAreSent

\* The invariant holds initially.
LEMMA InitInv ==
  ASSUME ConstantsAssumption, Init
  PROVE  IInv
  <1>1. TypeOK
    BY DEF Init, TypeOK, ConstantsAssumption, NoId
  <1> QED BY <1>1 DEF Init, IInv, ParentsOlder, IdsDistinct, LoopInNodes,
                  ParentsSignificant, PassedAreSent

LEMMA BeginInv ==
  ASSUME ConstantsAssumption, IInv, Begin
  PROVE  IInv'
  <1>1. {} \in SUBSET [kind : Kind, n : 1..MaxOps] /\ EnterFunction({})
    BY DEF Begin
  <1>2. /\ tick' \in Nat /\ calls' \in Seq(Node) /\ Len(calls') = Len(calls) + 1
        /\ stack' \in Seq(DOMAIN calls') /\ ParentsOlder' /\ IdsDistinct'
    BY <1>1, EnterKeeps DEF IInv
  <1>3. open' \subseteq DOMAIN calls'
    <2>1. DOMAIN calls = 1..Len(calls) /\ DOMAIN calls' = 1..(Len(calls) + 1) /\ Len(calls) \in Nat
      BY <1>2 DEF IInv, TypeOK
    <2> QED BY <2>1 DEF Begin, IInv, TypeOK
  <1>4. TypeOK'
    BY <1>2, <1>3 DEF Begin, IInv, TypeOK, Running, expansion
  <1>5. phase = "request" /\ phase' = "request" /\ UNCHANGED expansion
    BY DEF Begin, Running
  <1> QED BY <1>2, <1>4, <1>5, NothingSent DEF ProfileInv, IInv

LEMMA ReturnInv ==
  ASSUME ConstantsAssumption, IInv, Return
  PROVE  IInv'
  <1>1. PICK i \in open : ExitFunction(calls[i].id) /\ open' = open \ {i}
    BY DEF Return
  <1>2. /\ calls' \in Seq(Node) /\ DOMAIN calls' = DOMAIN calls
        /\ stack' \in Seq(DOMAIN calls') /\ ParentsOlder' /\ IdsDistinct'
    BY <1>1, ExitKeeps DEF IInv, Return
  <1>3. TypeOK'
    BY <1>1, <1>2 DEF Return, IInv, TypeOK, Running, expansion
  <1>4. phase = "request" /\ phase' = "request" /\ UNCHANGED expansion
    BY DEF Return, Running
  <1> QED BY <1>2, <1>3, <1>4, NothingSent DEF ProfileInv, IInv

LEMMA RecordInv ==
  ASSUME ConstantsAssumption, IInv, Record
  PROVE  IInv'
  <1> DEFINE Op == [kind : Kind, n : 1..MaxOps]
  <1>1. /\ made \in 0..MaxOps /\ made < MaxOps /\ made' = made + 1 /\ MaxOps \in Nat
        /\ phase = "request" /\ phase' = "request" /\ UNCHANGED <<on, open, expansion>>
    BY DEF Record, Running, IInv, TypeOK, ConstantsAssumption
  <1>2. PICK k \in Kind :
          LET op == [kind |-> k, n |-> made + 1] IN
            /\ \/ /\ stack # <<>>
                  /\ calls' = [calls EXCEPT ![stack[Len(stack)]].ops = @ \cup {op}]
                  /\ UNCHANGED <<tick, stack>>
               \/ /\ stack = <<>>
                  /\ k \in Holding
                  /\ EnterFunction({op})
            /\ ops' = ops \cup {op}
            /\ sql' = IF k = "sql" THEN sql \cup {op} ELSE sql
    BY DEF Record
  <1> DEFINE op == [kind |-> k, n |-> made + 1]
  <1>3. op \in Op
    BY <1>1
  <1>4. /\ tick' \in Nat /\ calls' \in Seq(Node) /\ DOMAIN calls \subseteq DOMAIN calls'
        /\ stack' \in Seq(DOMAIN calls') /\ ParentsOlder' /\ IdsDistinct'
    <2>1. CASE stack = <<>>
      <3>1. EnterFunction({op}) /\ {op} \in SUBSET Op
        BY <1>2, <1>3, <2>1
      <3>2. /\ tick' \in Nat /\ calls' \in Seq(Node) /\ Len(calls') = Len(calls) + 1
            /\ stack' \in Seq(DOMAIN calls') /\ ParentsOlder' /\ IdsDistinct'
        BY <3>1, EnterKeeps DEF IInv
      <3>3. DOMAIN calls = 1..Len(calls) /\ DOMAIN calls' = 1..(Len(calls) + 1) /\ Len(calls) \in Nat
        BY <3>2 DEF IInv, TypeOK
      <3> QED BY <3>2, <3>3
    <2>2. CASE stack # <<>>
      <3> DEFINE c == stack[Len(stack)]
      <3>1. /\ calls' = [calls EXCEPT ![c].ops = @ \cup {op}]
            /\ tick' = tick /\ stack' = stack
        BY <1>2, <2>2
      <3>2. calls \in Seq(Node) /\ stack \in Seq(DOMAIN calls) /\ DOMAIN calls = 1..Len(calls)
            /\ tick \in Nat /\ Len(calls) \in Nat
        BY DEF IInv, TypeOK
      <3>3. DOMAIN calls' = DOMAIN calls
        BY <3>1
      <3>4. \A i \in DOMAIN calls :
              /\ calls'[i] \in Node
              /\ calls'[i].id = calls[i].id
              /\ calls'[i].parent = calls[i].parent
        <4> SUFFICES ASSUME NEW i \in DOMAIN calls
                     PROVE  /\ calls'[i] \in Node
                            /\ calls'[i].id = calls[i].id
                            /\ calls'[i].parent = calls[i].parent
          OBVIOUS
        <4>1. calls[i] \in Node
          BY <3>2
        <4>2. CASE i = c
          <5>1. calls'[i] = [calls[i] EXCEPT !.ops = @ \cup {op}]
            BY <3>1, <4>2
          <5> QED BY <1>3, <4>1, <5>1 DEF Node
        <4>3. CASE i # c
          BY <3>1, <4>1, <4>3
        <4> QED BY <4>2, <4>3
      <3>5. calls' \in Seq(Node)
        BY <3>1, <3>2, <3>3, <3>4, calls' \in [1..Len(calls) -> Node]
      <3>6. ParentsOlder'
        <4> SUFFICES ASSUME NEW i \in DOMAIN calls', calls'[i].parent # NoId
                     PROVE  \E j \in 1..(i - 1) : calls'[j].id = calls'[i].parent
          BY DEF ParentsOlder
        <4>1. PICK j \in 1..(i - 1) : calls[j].id = calls[i].parent
          BY <3>3, <3>4 DEF ParentsOlder, IInv
        <4>2. j \in DOMAIN calls
          BY <3>2, <3>3
        <4> QED BY <3>3, <3>4, <4>1, <4>2
      <3>7. IdsDistinct'
        BY <3>1, <3>3, <3>4 DEF IdsDistinct, IInv
      <3> QED BY <3>1, <3>2, <3>3, <3>5, <3>6, <3>7
    <2> QED BY <2>1, <2>2
  <1>5. sql' \subseteq ops' /\ ops' \subseteq Op
    BY <1>2, <1>3 DEF IInv, TypeOK
  <1>6. TypeOK'
    BY <1>1, <1>4, <1>5 DEF IInv, TypeOK, expansion
  <1> QED BY <1>1, <1>4, <1>6, NothingSent DEF ProfileInv, IInv

LEMMA ToggleInv ==
  ASSUME ConstantsAssumption, IInv, Enable \/ Disable
  PROVE  IInv'
  <1>1. phase = "request" /\ phase' = "request" /\ UNCHANGED expansion
    BY DEF Enable, Disable, Running
  <1>2. TypeOK'
    <2>1. CASE Enable
      BY <2>1 DEF Enable, IInv, TypeOK, expansion
    <2>2. CASE Disable
      BY <2>2 DEF Disable, Running, IInv, TypeOK, expansion
    <2> QED BY <2>1, <2>2
  <1>3. ParentsOlder' /\ IdsDistinct'
    BY DEF Enable, Disable, IInv, ParentsOlder, IdsDistinct
  <1> QED BY <1>1, <1>2, <1>3, NothingSent DEF ProfileInv, IInv
----------------------------------------------------------------------------
\* While a request is expanded its profile stays as it is.
LEMMA ProfileStays ==
  ASSUME ProfileInv, UNCHANGED request, phase' \in {"request", "scan", "find", "done"},
         pos' \in Nat, at' \in Nat,
         sent' \in Seq([node : Nat, id : Nat \ {NoId}, parent : Nat,
                        ops : SUBSET [kind : Kind, n : 1..MaxOps]])
  PROVE  ProfileInv'
  BY DEF ProfileInv, TypeOK, ParentsOlder, IdsDistinct, request

LEMMA ShutdownInv ==
  ASSUME ConstantsAssumption, IInv, Shutdown
  PROVE  IInv'
  <1>1. calls' = calls /\ sent' = <<>> /\ pos' = Len(calls) /\ phase' = "scan"
        /\ DOMAIN calls = 1..Len(calls) /\ Len(calls) \in Nat
    BY DEF Shutdown, IInv, LoopInNodes, TypeOK
  <1>2. TypeOK'
    BY <1>1 DEF Shutdown, IInv, TypeOK
  <1>3. ParentsOlder' /\ IdsDistinct'
    BY DEF Shutdown, IInv, ParentsOlder, IdsDistinct
  <1>4. PassedAreSent'
    BY <1>1 DEF PassedAreSent
  <1> QED BY <1>1, <1>2, <1>3, <1>4 DEF IInv, LoopInNodes, ParentsSignificant

\* The three tests of significance agree on every node of a profile, and with
\* the comment of the message's producer (opa.c 5248-5262 and 5464-5477,
\* span.c 1028-1042).
LEMMA TestsAgree ==
  ASSUME ConstantsAssumption, TypeOK, NEW j \in DOMAIN calls
  PROVE  /\ Sought(calls[j]) <=> Significant(calls[j])
         /\ Scanned(calls[j]) <=> Significant(calls[j])
         /\ Told(calls[j]) <=> Significant(calls[j])
  <1>1. calls[j] \in Node
    BY DEF TypeOK
  <1>2. Duration(calls[j]) \in Nat /\ Limit \in Nat
    BY <1>1 DEF Duration, Node, ConstantsAssumption
  <1>3. Duration(calls[j]) > Limit <=> ~(Duration(calls[j]) <= Limit)
    BY <1>2
  <1>4. \A op \in calls[j].ops : op.kind \in {"sql", "http", "cache", "redis"}
    BY <1>1 DEF Node, ConstantsAssumption, Kinds, Holding
  <1>5. calls[j].ops # {} <=>
          \/ OpsOf(calls[j], "sql") # {} \/ OpsOf(calls[j], "http") # {}
          \/ OpsOf(calls[j], "cache") # {} \/ OpsOf(calls[j], "redis") # {}
    BY <1>4 DEF OpsOf
  <1> QED BY <1>3, <1>5 DEF Sought, Scanned, Told, Significant

LEMMA LoopInv ==
  ASSUME ConstantsAssumption, IInv, Skip \/ Expand \/ Finish
  PROVE  IInv'
  <1>1. UNCHANGED request /\ calls' = calls /\ sent' = sent
        /\ phase = "scan" /\ phase' \in {"scan", "find", "done"}
    BY DEF Skip, Expand, Finish, request, expansion
  <1>2. /\ pos \in Nat /\ pos <= Len(calls) /\ at \in Nat /\ Len(calls) \in Nat
        /\ DOMAIN calls = 1..Len(calls)
    BY <1>1 DEF IInv, TypeOK, LoopInNodes
  <1>3. pos' \in Nat /\ at' \in Nat /\ pos' <= Len(calls)
    BY <1>2 DEF Skip, Expand, Finish, expansion
  <1>4. sent' \in Seq([node : Nat, id : Nat \ {NoId}, parent : Nat,
                       ops : SUBSET [kind : Kind, n : 1..MaxOps]])
    BY <1>1 DEF IInv, TypeOK
  <1>5. ProfileInv'
    BY <1>1, <1>3, <1>4, ProfileStays DEF IInv, ProfileInv
  <1>6. LoopInNodes'
    <2>1. pos > 0 => pos \in DOMAIN calls
      BY <1>2
    <2>2. pos > 0 /\ Scanned(calls[pos]) => Significant(calls[pos])
      BY <2>1, TestsAgree DEF IInv
    <2>3. Significant(calls[pos])' <=> Significant(calls[pos'])
      BY <1>1 DEF Significant, Duration
    <2> QED BY <1>1, <1>2, <1>3, <2>1, <2>2, <2>3
            DEF Skip, Expand, Finish, LoopInNodes, expansion
  <1>7. ParentsSignificant'
    BY <1>1 DEF IInv, ParentsSignificant
  <1>8. PassedAreSent'
    <2> SUFFICES ASSUME NEW j \in DOMAIN calls, j > pos', Significant(calls[j])
                 PROVE  \E k \in DOMAIN sent : sent[k].id = calls[j].id
      BY <1>1 DEF PassedAreSent
    <2>1. Scanned(calls[j])
      BY TestsAgree DEF IInv
    <2>2. j > pos
      BY <1>2, <2>1 DEF Skip, Expand, Finish, expansion
    <2> QED BY <1>1, <2>2 DEF IInv, PassedAreSent
  <1> QED BY <1>5, <1>6, <1>7, <1>8 DEF IInv, ProfileInv

\* The node the loop is at is told of.
LEMMA ToldOfFound ==
  ASSUME ConstantsAssumption, IInv, phase = "find"
  PROVE  Told(calls[pos])
  <1>1. pos \in DOMAIN calls /\ Significant(calls[pos])
    BY DEF IInv, TypeOK, LoopInNodes
  <1> QED BY <1>1, TestsAgree DEF IInv

\* A child span is sent for the node of the loop, with a parent that is the
\* root or a significant node.
LEMMA SendInv ==
  ASSUME ConstantsAssumption, IInv, phase = "find", NEW p \in Nat, SendChild(p),
         p = Root \/ \E j \in DOMAIN calls : Significant(calls[j]) /\ calls[j].id = p
  PROVE  IInv'
  <1>1. UNCHANGED request /\ calls' = calls /\ at' = at /\ phase' = "scan" /\ pos' = pos - 1
        /\ sent' = Append(sent, ChildSpan(p))
    BY ToldOfFound DEF SendChild, request
  <1>2. /\ pos \in Nat /\ pos > 0 /\ pos <= Len(calls) /\ at \in Nat /\ Len(calls) \in Nat
        /\ DOMAIN calls = 1..Len(calls) /\ pos \in DOMAIN calls
    BY DEF IInv, TypeOK, LoopInNodes
  <1> DEFINE Span == [node : Nat, id : Nat \ {NoId}, parent : Nat,
                      ops : SUBSET [kind : Kind, n : 1..MaxOps]]
  <1>3. ChildSpan(p) \in Span
    <2>1. calls[pos] \in Node
      BY <1>2 DEF IInv, TypeOK
    <2> QED BY <1>2, <2>1 DEF ChildSpan, Node
  <1>4. /\ sent \in Seq(Span) /\ sent' \in Seq(Span)
        /\ DOMAIN sent = 1..Len(sent) /\ DOMAIN sent' = 1..(Len(sent) + 1) /\ Len(sent) \in Nat
        /\ \A k \in DOMAIN sent : k \in DOMAIN sent' /\ sent'[k] = sent[k]
        /\ sent'[Len(sent) + 1] = ChildSpan(p)
    <2>1. sent \in Seq(Span)
      BY DEF IInv, TypeOK
    <2> HIDE DEF Span
    <2> QED BY <1>1, <1>3, <2>1, Appending
  <1>5. ProfileInv'
    BY <1>1, <1>2, <1>4, ProfileStays DEF IInv, ProfileInv
  <1>6. LoopInNodes'
    BY <1>1, <1>2 DEF LoopInNodes
  <1>7. ParentsSignificant'
    <2> SUFFICES ASSUME NEW k \in DOMAIN sent'
                 PROVE  \/ sent'[k].parent = Root
                        \/ \E j \in DOMAIN calls : Significant(calls[j]) /\ calls[j].id = sent'[k].parent
      BY <1>1 DEF ParentsSignificant
    <2>1. CASE k \in DOMAIN sent
      BY <1>4, <2>1 DEF IInv, ParentsSignificant
    <2>2. CASE k = Len(sent) + 1
      <3>1. sent'[k].parent = p
        BY <1>4, <2>2 DEF ChildSpan
      <3> QED BY <3>1
    <2> QED BY <1>4, <2>1, <2>2
  <1>8. PassedAreSent'
    <2> SUFFICES ASSUME NEW j \in DOMAIN calls, j > pos - 1, Significant(calls[j])
                 PROVE  \E k \in DOMAIN sent' : sent'[k].id = calls[j].id
      BY <1>1 DEF PassedAreSent
    <2>1. CASE j = pos
      <3>1. sent'[Len(sent) + 1].id = calls[j].id
        BY <1>4, <2>1 DEF ChildSpan
      <3>2. Len(sent) + 1 \in DOMAIN sent'
        BY <1>4
      <3> QED BY <3>1, <3>2
    <2>2. CASE j > pos
      <3>1. PICK k \in DOMAIN sent : sent[k].id = calls[j].id
        BY <2>2 DEF IInv, PassedAreSent
      <3> QED BY <1>4, <3>1
    <2> QED BY <1>2, <2>1, <2>2
  <1> QED BY <1>5, <1>6, <1>7, <1>8 DEF IInv, ProfileInv

LEMMA FindInv ==
  ASSUME ConstantsAssumption, IInv, FindRoot \/ FindSpan \/ FindOn
  PROVE  IInv'
  <1>1. CASE FindRoot
    BY <1>1, SendInv, Root \in Nat DEF FindRoot, Root
  <1>2. CASE FindSpan
    <2>1. PICK j \in DOMAIN calls : Significant(calls[j]) /\ SendChild(calls[j].id)
      BY <1>2, TestsAgree DEF FindSpan, IInv
    <2>2. calls[j].id \in Nat
      BY NodeFields DEF IInv, TypeOK
    <2> QED BY <1>2, <2>1, <2>2, SendInv DEF FindSpan
  <1>3. CASE FindOn
    <2>1. PICK j \in DOMAIN calls : at' = j
      BY <1>3 DEF FindOn
    <2>2. phase = "find" /\ phase' = "find" /\ UNCHANGED request
          /\ calls' = calls /\ pos' = pos /\ sent' = sent
      BY <1>3 DEF FindOn, request
    <2>3. at' \in Nat /\ pos' \in Nat
      BY <2>1, <2>2 DEF IInv, TypeOK
    <2>4. ProfileInv'
      BY <2>2, <2>3, ProfileStays DEF IInv, ProfileInv, TypeOK
    <2>5. LoopInNodes'
      BY <2>1, <2>2 DEF IInv, LoopInNodes, Significant, Duration
    <2>6. ParentsSignificant' /\ PassedAreSent'
      BY <2>2 DEF IInv, ParentsSignificant, PassedAreSent
    <2> QED BY <2>4, <2>5, <2>6 DEF IInv, ProfileInv
  <1> QED BY <1>1, <1>2, <1>3

LEMMA NextRequestInv ==
  ASSUME ConstantsAssumption, IInv, NextRequest
  PROVE  IInv'
  <1>1. TypeOK'
    BY DEF NextRequest, TypeOK, ConstantsAssumption, NoId
  <1> QED BY <1>1 DEF NextRequest, IInv, ParentsOlder, IdsDistinct, LoopInNodes,
                  ParentsSignificant, PassedAreSent

LEMMA StutterInv ==
  ASSUME IInv, UNCHANGED vars
  PROVE  IInv'
  BY DEF vars, IInv, TypeOK, ParentsOlder, IdsDistinct, LoopInNodes,
         ParentsSignificant, PassedAreSent

\* The inductive invariant, with or without distinct ids.
THEOREM Invariant == Spec => []IInv
  <1>1. Init => IInv
    BY InitInv, ConstantsAssumption
  <1>2. IInv /\ [Next]_vars => IInv'
    BY ConstantsAssumption, BeginInv, ReturnInv, RecordInv, ToggleInv, ShutdownInv,
       LoopInv, FindInv, NextRequestInv, StutterInv DEF Next
  <1> QED BY <1>1, <1>2, PTL DEF Spec

\* Every parent that a child span names is the root span or a span that was
\* sent, for profiles of any size and shape, and even when ids are equal
\* (RSHUTDOWN, opa.c 5449-5506).
THEOREM ParentsAreSent == Spec => []NamedParentIsSent
  <1>1. IInv => NamedParentIsSent
    <2> SUFFICES ASSUME IInv, phase = "done", NEW s \in Spans, s.parent # Root
                 PROVE  \E t \in Spans : t.id = s.parent
      BY DEF NamedParentIsSent
    <2>1. PICK k \in DOMAIN sent : s = sent[k]
      BY DEF Spans
    <2>2. PICK j \in DOMAIN calls : Significant(calls[j]) /\ calls[j].id = s.parent
      BY <2>1 DEF IInv, ParentsSignificant
    <2>3. pos = 0 /\ j > pos
      BY DEF IInv, LoopInNodes, TypeOK
    <2>4. PICK m \in DOMAIN sent : sent[m].id = calls[j].id
      BY <2>2, <2>3 DEF IInv, PassedAreSent
    <2> QED BY <2>2, <2>4 DEF Spans
  <1> QED BY <1>1, Invariant, PTL

\* The profile keeps its shape and the call stack holds nodes of the list, for
\* any limits (opa.c 2104-2208).
THEOREM TypeCorrect == Spec => []TypeOK
  <1>1. IInv => TypeOK
    BY DEF IInv
  <1> QED BY <1>1, Invariant, PTL
----------------------------------------------------------------------------
(* Every operation is reported, and in one span.                           *)

\* Each operation is in one node, and was recorded by now.
OpsInv ==
  /\ \A op \in ops : \E i \in DOMAIN calls :
       op \in calls[i].ops /\ \A j \in DOMAIN calls : op \in calls[j].ops => j = i
  /\ \A i \in DOMAIN calls : calls[i].ops \subseteq ops
  /\ \A op \in ops : op.n <= made

\* A span carries the operations of its node, no node is sent twice, and the
\* significant nodes the loop has passed are sent.
SentInv ==
  /\ \A k \in DOMAIN sent :
       /\ sent[k].node \in DOMAIN calls
       /\ sent[k].node > pos
       /\ sent[k].ops = calls[sent[k].node].ops
  /\ \A k, m \in DOMAIN sent : sent[k].node = sent[m].node => k = m
  /\ phase # "request" =>
       \A j \in DOMAIN calls :
         j > pos /\ Significant(calls[j]) => \E k \in DOMAIN sent : sent[k].node = j
  /\ phase # "request" => root = RootReport

\* Entering a call adds a node and changes none.
LEMMA EnterAdds ==
  ASSUME TypeOK, ConstantsAssumption, NEW o \in SUBSET [kind : Kind, n : 1..MaxOps],
         EnterFunction(o)
  PROVE  \E n : /\ n \notin DOMAIN calls
                /\ DOMAIN calls' = DOMAIN calls \cup {n}
                /\ calls'[n].ops = o
                /\ \A i \in DOMAIN calls : calls'[i] = calls[i]
  <1>1. PICK id \in NextIds :
          calls' = Append(calls, [id |-> id, parent |-> TopId, ended |-> FALSE,
                                  took |-> 0, ops |-> o])
    BY DEF EnterFunction
  <1>2. calls \in Seq(Node) /\ DOMAIN calls = 1..Len(calls) /\ Len(calls) \in Nat
    BY DEF TypeOK
  <1> DEFINE n == Len(calls) + 1
  <1>3. /\ DOMAIN calls' = 1..n
        /\ calls'[n] = [id |-> id, parent |-> TopId, ended |-> FALSE, took |-> 0, ops |-> o]
        /\ \A i \in DOMAIN calls : calls'[i] = calls[i]
    BY <1>1, <1>2
  <1>4. n \notin DOMAIN calls /\ DOMAIN calls' = DOMAIN calls \cup {n}
    BY <1>2, <1>3
  <1>5. calls'[n].ops = o
    BY <1>3
  <1> HIDE DEF n
  <1> QED BY <1>3, <1>4, <1>5

\* The end of a call changes no node's operations.
LEMMA ExitOps ==
  ASSUME TypeOK, NEW id, ExitFunction(id)
  PROVE  /\ DOMAIN calls' = DOMAIN calls
         /\ \A i \in DOMAIN calls : calls'[i].ops = calls[i].ops
  <1>1. PICK t \in 0..MaxTime :
          calls' = [i \in DOMAIN calls |->
                      IF IsNewest(id, i) THEN [calls[i] EXCEPT !.ended = TRUE, !.took = t]
                      ELSE calls[i]]
    BY DEF ExitFunction
  <1>2. \A i \in DOMAIN calls : calls[i] \in Node
    BY DEF TypeOK
  <1> QED BY <1>1, <1>2 DEF Node

LEMMA RecordOps ==
  ASSUME ConstantsAssumption, IInv, OpsInv, Record
  PROVE  OpsInv'
  <1>1. PICK k \in Kind :
          LET op == [kind |-> k, n |-> made + 1] IN
            /\ \/ /\ stack # <<>>
                  /\ calls' = [calls EXCEPT ![stack[Len(stack)]].ops = @ \cup {op}]
                  /\ UNCHANGED <<tick, stack>>
               \/ /\ stack = <<>>
                  /\ k \in Holding
                  /\ EnterFunction({op})
            /\ ops' = ops \cup {op}
            /\ sql' = IF k = "sql" THEN sql \cup {op} ELSE sql
    BY DEF Record
  <1> DEFINE new == [kind |-> k, n |-> made + 1]
  <1>2. /\ made \in Nat /\ made' = made + 1 /\ new.n = made'
        /\ new \in [kind : Kind, n : 1..MaxOps] /\ ops' = ops \cup {new}
        /\ \A o \in ops : o.n \in Nat
    <2>1. made \in Nat /\ ops \in SUBSET [kind : Kind, n : 1..MaxOps]
      BY DEF IInv, TypeOK
    <2>2. made < MaxOps /\ made' = made + 1 /\ ops' = ops \cup {new}
      BY <1>1 DEF Record
    <2>3. MaxOps \in Nat
      BY DEF ConstantsAssumption
    <2>4. made + 1 \in 1..MaxOps
      BY <2>1, <2>2, <2>3
    <2>5. new \in [kind : Kind, n : 1..MaxOps] /\ new.n = made + 1
      BY <2>4
    <2>6. \A o \in ops : o.n \in Nat
      BY <2>1
    <2> QED BY <2>1, <2>2, <2>5, <2>6
  <1>3. new \notin ops
    BY <1>2 DEF OpsInv
  <1>4. \E c \in DOMAIN calls' :
          /\ DOMAIN calls \subseteq DOMAIN calls'
          /\ \A i \in DOMAIN calls' : i # c => i \in DOMAIN calls /\ calls'[i].ops = calls[i].ops
          /\ calls'[c].ops = (IF c \in DOMAIN calls THEN calls[c].ops ELSE {}) \cup {new}
    <2>1. CASE stack = <<>>
      <3>1. EnterFunction({new}) /\ {new} \in SUBSET [kind : Kind, n : 1..MaxOps]
        BY <1>1, <1>2, <2>1
      <3>2. PICK n : /\ n \notin DOMAIN calls
                     /\ DOMAIN calls' = DOMAIN calls \cup {n}
                     /\ calls'[n].ops = {new}
                     /\ \A i \in DOMAIN calls : calls'[i] = calls[i]
        BY <3>1, EnterAdds DEF IInv
      <3> QED BY <3>2
    <2>2. CASE stack # <<>>
      <3> DEFINE c == stack[Len(stack)]
      <3>1. calls' = [calls EXCEPT ![c].ops = @ \cup {new}]
        BY <1>1, <2>2
      <3>2. c \in DOMAIN calls /\ calls[c] \in Node
        BY <2>2 DEF IInv, TypeOK
      <3>3. calls'[c].ops = calls[c].ops \cup {new}
        BY <3>1, <3>2 DEF Node
      <3> QED BY <3>1, <3>2, <3>3
    <2> QED BY <2>1, <2>2
  <1> HIDE DEF new
  <1>5. PICK c \in DOMAIN calls' :
          /\ DOMAIN calls \subseteq DOMAIN calls'
          /\ \A i \in DOMAIN calls' : i # c => i \in DOMAIN calls /\ calls'[i].ops = calls[i].ops
          /\ calls'[c].ops = (IF c \in DOMAIN calls THEN calls[c].ops ELSE {}) \cup {new}
    BY <1>4
  <1>6. ASSUME NEW o \in ops'
        PROVE  \E i \in DOMAIN calls' :
                 o \in calls'[i].ops /\ \A j \in DOMAIN calls' : o \in calls'[j].ops => j = i
    <2>1. CASE o = new
      <3>1. \A j \in DOMAIN calls' : j # c => new \notin calls'[j].ops
        BY <1>3, <1>5 DEF OpsInv
      <3> QED BY <1>5, <2>1, <3>1
    <2>2. CASE o \in ops
      <3>1. PICK i \in DOMAIN calls :
              o \in calls[i].ops /\ \A j \in DOMAIN calls : o \in calls[j].ops => j = i
        BY <2>2 DEF OpsInv
      <3>2. o # new
        BY <1>3, <2>2
      <3>3. i \in DOMAIN calls' /\ o \in calls'[i].ops
        BY <1>5, <3>1
      <3>4. \A j \in DOMAIN calls' : o \in calls'[j].ops => j \in DOMAIN calls /\ o \in calls[j].ops
        BY <1>5, <3>2
      <3> QED BY <3>1, <3>3, <3>4
    <2> QED BY <1>2, <2>1, <2>2
  <1>7. \A i \in DOMAIN calls' : calls'[i].ops \subseteq ops'
    BY <1>2, <1>5 DEF OpsInv
  <1>8. \A o \in ops' : o.n <= made'
    BY <1>2 DEF OpsInv
  <1> QED BY <1>6, <1>7, <1>8 DEF OpsInv

LEMMA OpsStep ==
  ASSUME ConstantsAssumption, IInv, OpsInv, [Next]_vars
  PROVE  OpsInv'
  <1>1. CASE Begin
    <2>1. PICK n : /\ n \notin DOMAIN calls
                   /\ DOMAIN calls' = DOMAIN calls \cup {n}
                   /\ calls'[n].ops = {}
                   /\ \A i \in DOMAIN calls : calls'[i] = calls[i]
      BY <1>1, EnterAdds DEF Begin, IInv
    <2>2. ops' = ops /\ made' = made
      BY <1>1 DEF Begin
    <2> QED BY <2>1, <2>2 DEF OpsInv
  <1>2. CASE Return
    <2>1. PICK id : ExitFunction(id)
      BY <1>2 DEF Return
    <2>2. ops' = ops /\ made' = made
      BY <1>2 DEF Return
    <2> QED BY <2>1, <2>2, ExitOps DEF OpsInv, IInv
  <1>3. CASE Enable \/ NextRequest
    <2>1. ops' = {} /\ DOMAIN calls' = {}
      BY <1>3 DEF Enable, NextRequest
    <2> QED BY <2>1 DEF OpsInv
  <1>4. CASE UNCHANGED <<calls, ops, made>>
    BY <1>4 DEF OpsInv
  <1>5. CASE Record
    BY <1>5, RecordOps
  <1>6. \/ Begin \/ Return \/ Record \/ Enable \/ NextRequest
        \/ UNCHANGED <<calls, ops, made>>
    BY DEF Next, vars, Disable, Shutdown, Skip, Expand, FindRoot, FindSpan, FindOn, Finish,
           SendChild, request
  <1> QED BY <1>1, <1>2, <1>3, <1>4, <1>5, <1>6

\* A child span is sent for the node the loop is at.
LEMMA SendSent ==
  ASSUME ConstantsAssumption, IInv, SentInv, phase = "find", NEW p, SendChild(p), IInv'
  PROVE  SentInv'
  <1>1. /\ calls' = calls /\ root' = root /\ ops' = ops /\ sql' = sql /\ pos' = pos - 1
        /\ sent' = Append(sent, ChildSpan(p))
    BY ToldOfFound DEF SendChild, request
  <1>2. pos \in Nat /\ pos > 0 /\ pos \in DOMAIN calls /\ DOMAIN calls \subseteq Nat
    <2>1. pos \in Nat /\ calls \in Seq(Node)
      BY DEF IInv, TypeOK
    <2>2. pos > 0 /\ pos <= Len(calls)
      BY DEF IInv, LoopInNodes
    <2>3. DOMAIN calls = 1..Len(calls) /\ Len(calls) \in Nat
      BY <2>1
    <2> QED BY <2>1, <2>2, <2>3
  <1>3. PICK n : /\ n \notin DOMAIN sent /\ DOMAIN sent' = DOMAIN sent \cup {n}
                 /\ sent'[n] = ChildSpan(p)
                 /\ \A k \in DOMAIN sent : sent'[k] = sent[k]
    <2>1. sent \in Seq([node : Nat, id : Nat \ {NoId}, parent : Nat,
                        ops : SUBSET [kind : Kind, n : 1..MaxOps]])
      BY DEF IInv, TypeOK
    <2>2. DOMAIN sent = 1..Len(sent) /\ Len(sent) \in Nat
      BY <2>1
    <2>3. DOMAIN sent' = 1..(Len(sent) + 1) /\ sent'[Len(sent) + 1] = ChildSpan(p)
          /\ \A k \in DOMAIN sent : sent'[k] = sent[k]
      BY <1>1, <2>1
    <2>4. Len(sent) + 1 \notin DOMAIN sent /\ DOMAIN sent' = DOMAIN sent \cup {Len(sent) + 1}
      BY <2>2, <2>3
    <2> QED BY <2>3, <2>4
  <1>4. sent'[n].node = pos /\ sent'[n].ops = calls[pos].ops
    BY <1>3 DEF ChildSpan
  <1>5. ASSUME NEW k \in DOMAIN sent'
        PROVE  /\ sent'[k].node \in DOMAIN calls
               /\ sent'[k].node > pos - 1
               /\ sent'[k].ops = calls[sent'[k].node].ops
    BY <1>2, <1>3, <1>4 DEF SentInv
  <1>6. \A k, m \in DOMAIN sent' : sent'[k].node = sent'[m].node => k = m
    <2>1. \A k \in DOMAIN sent : sent[k].node \in Nat /\ sent[k].node # pos
      BY <1>2 DEF SentInv
    <2> QED BY <1>3, <1>4, <2>1 DEF SentInv
  <1>7. \A j \in DOMAIN calls :
          j > pos - 1 /\ Significant(calls[j]) => \E k \in DOMAIN sent' : sent'[k].node = j
    <2> SUFFICES ASSUME NEW j \in DOMAIN calls, j > pos - 1, Significant(calls[j])
                 PROVE  \E k \in DOMAIN sent' : sent'[k].node = j
      OBVIOUS
    <2>1. CASE j = pos
      BY <1>3, <1>4, <2>1
    <2>2. CASE j > pos
      BY <1>3, <2>2 DEF SentInv
    <2> QED BY <1>2, <2>1, <2>2
  <1>8. root' = RootReport'
    BY <1>1 DEF SentInv, RootReport
  <1> QED BY <1>1, <1>5, <1>6, <1>7, <1>8 DEF SentInv

LEMMA SentStep ==
  ASSUME ConstantsAssumption, IInv, IInv', SentInv, [Next]_vars
  PROVE  SentInv'
  <1>1. CASE phase' = "request"
    <2>1. sent' = <<>>
      BY <1>1 DEF IInv, LoopInNodes
    <2> QED BY <1>1, <2>1 DEF SentInv
  <1>2. CASE Shutdown
    <2>1. sent' = <<>> /\ calls' = calls /\ pos' = Len(calls) /\ root' = RootReport'
          /\ DOMAIN calls = 1..Len(calls) /\ Len(calls) \in Nat
      BY <1>2 DEF Shutdown, IInv, LoopInNodes, TypeOK, RootReport
    <2> QED BY <2>1 DEF SentInv
  <1>3. CASE Skip \/ Expand \/ FindOn \/ Finish
    <2>1. /\ calls' = calls /\ ops' = ops /\ sql' = sql /\ sent' = sent /\ root' = root
          /\ phase # "request"
      BY <1>3 DEF Skip, Expand, FindOn, Finish, request, expansion
    <2>2. pos \in Nat /\ DOMAIN calls \subseteq Nat
      BY DEF IInv, TypeOK
    <2>3. \/ pos' = pos
          \/ pos' = pos - 1 /\ ~Scanned(calls[pos])
      BY <1>3 DEF Skip, Expand, FindOn, Finish, expansion
    <2>4. \A k \in DOMAIN sent : sent[k].node \in Nat /\ sent[k].node > pos'
      BY <2>2, <2>3 DEF SentInv
    <2>5. \A j \in DOMAIN calls : j > pos' /\ Significant(calls[j]) => j > pos
      <3> SUFFICES ASSUME NEW j \in DOMAIN calls, j > pos', Significant(calls[j])
                   PROVE  j > pos
        OBVIOUS
      <3>1. Scanned(calls[j])
        BY TestsAgree DEF IInv
      <3> QED BY <2>2, <2>3, <3>1
    <2>6. root' = RootReport'
      BY <2>1 DEF SentInv, RootReport
    <2> QED BY <2>1, <2>4, <2>5, <2>6 DEF SentInv
  <1>4. CASE FindRoot \/ FindSpan
    <2>1. phase = "find" /\ \E p : SendChild(p)
      BY <1>4 DEF FindRoot, FindSpan
    <2> QED BY <2>1, SendSent
  <1>5. CASE UNCHANGED vars
    BY <1>5 DEF vars, SentInv, RootReport
  <1>6. \/ phase' = "request" \/ Shutdown \/ Skip \/ Expand \/ FindOn \/ Finish
        \/ FindRoot \/ FindSpan \/ UNCHANGED vars
    BY DEF Next, Begin, Return, Record, Enable, Disable, Running, NextRequest
  <1> QED BY <1>1, <1>2, <1>3, <1>4, <1>5, <1>6

LEMMA ReportInvariant == Spec => [](IInv /\ OpsInv /\ SentInv)
  <1>1. Init => OpsInv /\ SentInv
    BY DEF Init, OpsInv, SentInv
  <1>2. IInv /\ OpsInv /\ [Next]_vars => OpsInv'
    BY OpsStep, ConstantsAssumption
  <1>3. IInv /\ IInv' /\ SentInv /\ [Next]_vars => SentInv'
    BY SentStep, ConstantsAssumption
  <1> QED BY <1>1, <1>2, <1>3, Invariant, PTL DEF Spec

\* Every operation recorded in a profile is in the root message and in exactly
\* one child span, for profiles of any size and shape and even with equal ids:
\* a node with operations is always significant, and the loop of RSHUTDOWN
\* passes each node once (opa.c 5449-5506).
THEOREM NothingIsLost == Spec => []AllReported
  <1>1. IInv /\ OpsInv /\ SentInv => AllReported
    <2> SUFFICES ASSUME IInv, OpsInv, SentInv, phase = "done", NEW op \in ops
                 PROVE  /\ root[op] > 0
                        /\ Cardinality({k \in DOMAIN sent : op \in sent[k].ops}) = 1
      BY DEF AllReported
    <2>1. PICK i \in DOMAIN calls :
            op \in calls[i].ops /\ \A j \in DOMAIN calls : op \in calls[j].ops => j = i
      BY DEF OpsInv
    <2>2. {j \in DOMAIN calls : op \in calls[j].ops} = {i}
      BY <2>1
    <2>3. root[op] > 0
      <3> DEFINE more == IF op \in sql THEN 1 ELSE 0
      <3>1. root[op] = Cardinality({j \in DOMAIN calls : op \in calls[j].ops}) + more
        BY DEF SentInv, RootReport
      <3>2. Cardinality({i}) = 1
        BY FS_Singleton
      <3>3. root[op] = 1 + more
        BY <2>2, <3>1, <3>2
      <3>4. more \in {0, 1}
        OBVIOUS
      <3> HIDE DEF more
      <3> QED BY <3>3, <3>4
    <2>4. Significant(calls[i])
      <3> QED BY <2>1 DEF Significant
    <2>5. PICK k \in DOMAIN sent : sent[k].node = i
      <3>1. pos = 0 /\ i > pos
        BY DEF IInv, LoopInNodes, TypeOK
      <3> QED BY <2>4, <3>1 DEF SentInv
    <2>6. {m \in DOMAIN sent : op \in sent[m].ops} = {k}
      BY <2>1, <2>5 DEF SentInv
    <2> QED BY <2>3, <2>6, FS_Singleton
  <1> QED BY <1>1, ReportInvariant, PTL
----------------------------------------------------------------------------
(* Each child span names its nearest significant ancestor.                 *)

SignificantAncestors(i) == {j \in Ancestors(i) : Significant(calls[j])}

\* A span names the nearest of the significant ancestors of its node.
NamesNearest(s) ==
  LET A == SignificantAncestors(s.node)
  IN \/ A = {} /\ s.parent = Root
     \/ \E j \in A : (\A k \in A : k <= j) /\ s.parent = calls[j].id

\* What the search has passed is not significant.
SearchInv ==
  /\ \A k \in DOMAIN sent : NamesNearest(sent[k])
  /\ phase = "find" => SignificantAncestors(pos) = SignificantAncestors(at)

\* A node without a parent has no ancestors.
LEMMA NoAncestors ==
  ASSUME NEW i, ParentsOf(i) = {}
  PROVE  Ancestors(i) = {}
  BY DEF Ancestors

\* The ancestors of a node are its parent and the parent's ancestors.
LEMMA ParentAndAncestors ==
  ASSUME NEW i, NEW j \in DOMAIN calls, ParentsOf(i) = {j}
  PROVE  Ancestors(i) = {j} \cup Ancestors(j)
  <1>1. \A m : Ancestors(m) \subseteq DOMAIN calls /\ ParentsOf(m) \subseteq DOMAIN calls
    BY DEF Ancestors, ParentsOf
  <1>2. \A m : ParentsOf(m) \subseteq Ancestors(m)
    BY <1>1 DEF Ancestors
  <1>3. \A m : \A k \in Ancestors(m) : ParentsOf(k) \subseteq Ancestors(m)
    <2> SUFFICES ASSUME NEW m, NEW k \in Ancestors(m), NEW p \in ParentsOf(k),
                        NEW S \in SUBSET DOMAIN calls, ParentsOf(m) \subseteq S,
                        \A x \in S : ParentsOf(x) \subseteq S
                 PROVE  p \in S
      BY <1>1 DEF Ancestors
    <2>1. k \in S
      BY DEF Ancestors
    <2> QED BY <2>1
  <1>4. Ancestors(i) \subseteq {j} \cup Ancestors(j)
    <2> DEFINE S == {j} \cup Ancestors(j)
    <2>1. S \in SUBSET DOMAIN calls /\ ParentsOf(i) \subseteq S
      BY <1>1
    <2>2. \A k \in S : ParentsOf(k) \subseteq S
      BY <1>2, <1>3
    <2> HIDE DEF S
    <2>3. Ancestors(i) \subseteq S
      BY <2>1, <2>2 DEF Ancestors
    <2> QED BY <2>3 DEF S
  <1>5. j \in Ancestors(i)
    BY <1>2
  <1>6. Ancestors(j) \subseteq Ancestors(i)
    <2>1. Ancestors(i) \in SUBSET DOMAIN calls /\ ParentsOf(j) \subseteq Ancestors(i)
          /\ \A k \in Ancestors(i) : ParentsOf(k) \subseteq Ancestors(i)
      BY <1>1, <1>3, <1>5
    <2> SUFFICES ASSUME NEW k \in Ancestors(j)
                 PROVE  k \in Ancestors(i)
      OBVIOUS
    <2>2. \A S \in SUBSET DOMAIN calls :
            (ParentsOf(j) \subseteq S /\ \A x \in S : ParentsOf(x) \subseteq S) => k \in S
      BY DEF Ancestors
    <2> QED BY <2>1, <2>2
  <1> QED BY <1>4, <1>5, <1>6

\* With distinct ids a node has at most one parent, which is older, and its
\* ancestors are older than it.
LEMMA OneParent ==
  ASSUME DistinctTicks, IInv, NEW i \in DOMAIN calls
  PROVE  /\ ParentsOf(i) = {} \/ \E j \in DOMAIN calls : ParentsOf(i) = {j}
         /\ calls[i].parent # NoId => ParentsOf(i) # {}
         /\ \A j \in ParentsOf(i) : j < i
         /\ \A j \in Ancestors(i) : j < i
  <1>1. DOMAIN calls = 1..Len(calls) /\ Len(calls) \in Nat
    BY DEF IInv, TypeOK
  <1>2. \A m, n \in DOMAIN calls : calls[m].id = calls[n].id => m = n
    BY DEF IInv, IdsDistinct
  <1>3. \A m \in DOMAIN calls : \A j \in ParentsOf(m) : j < m
    <2> SUFFICES ASSUME NEW m \in DOMAIN calls, NEW j \in ParentsOf(m)
                 PROVE  j < m
      OBVIOUS
    <2>1. j \in DOMAIN calls /\ calls[m].parent # NoId /\ calls[j].id = calls[m].parent
      BY DEF ParentsOf
    <2>2. PICK n \in 1..(m - 1) : calls[n].id = calls[m].parent
      BY <2>1 DEF IInv, ParentsOlder
    <2>3. n \in DOMAIN calls
      BY <1>1
    <2>4. n = j
      BY <1>2, <2>1, <2>2, <2>3
    <2> QED BY <1>1, <2>2, <2>4
  <1>4. calls[i].parent # NoId => ParentsOf(i) # {}
    <2> SUFFICES ASSUME calls[i].parent # NoId
                 PROVE  ParentsOf(i) # {}
      OBVIOUS
    <2>1. PICK n \in 1..(i - 1) : calls[n].id = calls[i].parent
      BY DEF IInv, ParentsOlder
    <2>2. n \in DOMAIN calls
      BY <1>1
    <2> QED BY <2>1, <2>2 DEF ParentsOf
  <1>5. \A j, k \in ParentsOf(i) : j = k
    BY <1>2 DEF ParentsOf
  <1>6. \A j \in Ancestors(i) : j < i
    <2> DEFINE S == {j \in DOMAIN calls : j < i}
    <2>1. ParentsOf(i) \subseteq S
      BY <1>3 DEF ParentsOf
    <2>2. \A k \in S : ParentsOf(k) \subseteq S
      <3> SUFFICES ASSUME NEW k \in S, NEW j \in ParentsOf(k)
                   PROVE  j \in DOMAIN calls /\ j < i
        OBVIOUS
      <3>1. j \in DOMAIN calls /\ j < k
        BY <1>3 DEF ParentsOf
      <3> QED BY <1>1, <3>1
    <2>3. S \in SUBSET DOMAIN calls
      OBVIOUS
    <2> HIDE DEF S
    <2>4. Ancestors(i) \subseteq S
      BY <2>1, <2>2, <2>3 DEF Ancestors
    <2> QED BY <2>4 DEF S
  <1>7. ParentsOf(i) = {} \/ \E j \in DOMAIN calls : ParentsOf(i) = {j}
    <2>1. ParentsOf(i) \subseteq DOMAIN calls
      BY DEF ParentsOf
    <2> QED BY <1>5, <2>1
  <1> QED BY <1>3, <1>4, <1>6, <1>7

\* The search is at a node whose parent, if it has one, is the next.
LEMMA ParentFound ==
  ASSUME DistinctTicks, IInv, at \in DOMAIN calls
  PROVE  /\ ~HasParent => ParentsOf(at) = {}
         /\ \A j : HasParent /\ ParentIs(j) => ParentsOf(at) = {j}
  <1>1. ParentsOf(at) = {} \/ \E j \in DOMAIN calls : ParentsOf(at) = {j}
    BY OneParent
  <1>2. ~HasParent => ParentsOf(at) = {}
    BY DEF HasParent, ParentsOf
  <1>3. ASSUME NEW j, HasParent, ParentIs(j)
        PROVE  j \in ParentsOf(at)
    BY <1>3 DEF HasParent, ParentIs, IsNewest, ParentsOf
  <1> QED BY <1>1, <1>2, <1>3

LEMMA SendNamesNearest ==
  ASSUME ConstantsAssumption, IInv, SearchInv, phase = "find",
         NEW p, SendChild(p), NamesNearest(ChildSpan(p))
  PROVE  SearchInv'
  <1>1. calls' = calls /\ phase' = "scan" /\ sent' = Append(sent, ChildSpan(p))
    BY ToldOfFound DEF SendChild, request
  <1>2. sent \in Seq([node : Nat, id : Nat \ {NoId}, parent : Nat,
                      ops : SUBSET [kind : Kind, n : 1..MaxOps]])
    BY DEF IInv, TypeOK
  <1>3. \A k \in DOMAIN sent' : sent'[k] = ChildSpan(p) \/ \E m \in DOMAIN sent : sent'[k] = sent[m]
    BY <1>1, <1>2
  <1>4. \A k \in DOMAIN sent' : NamesNearest(sent'[k])
    BY <1>3 DEF SearchInv
  <1>5. \A k \in DOMAIN sent' : NamesNearest(sent'[k]) <=> NamesNearest(sent[k])'
    BY <1>1 DEF NamesNearest, SignificantAncestors, Ancestors, ParentsOf
  <1> QED BY <1>1, <1>4, <1>5 DEF SearchInv

LEMMA NamesStay ==
  ASSUME SearchInv, calls' = calls, sent' = sent
  PROVE  \A k \in DOMAIN sent' : NamesNearest(sent[k])'
  <1>1. \A i : SignificantAncestors(i)' = SignificantAncestors(i)
    BY DEF SignificantAncestors, Ancestors, ParentsOf
  <1>2. \A s : NamesNearest(s)' <=> NamesNearest(s)
    BY <1>1 DEF NamesNearest
  <1> SUFFICES ASSUME NEW k \in DOMAIN sent
               PROVE  NamesNearest(sent[k])'
    OBVIOUS
  <1>3. PICK s : s = sent[k]
    OBVIOUS
  <1>4. NamesNearest(s)'
    BY <1>2, <1>3 DEF SearchInv
  <1>5. sent'[k] = s
    BY <1>3
  <1> QED BY <1>4, <1>5 DEF NamesNearest

LEMMA SearchStep ==
  ASSUME DistinctTicks, ConstantsAssumption, IInv, IInv', SearchInv, [Next]_vars
  PROVE  SearchInv'
  <1>1. CASE phase' = "request"
    <2>1. sent' = <<>>
      BY <1>1 DEF IInv, LoopInNodes
    <2> QED BY <1>1, <2>1 DEF SearchInv
  <1>2. CASE FindRoot
    <2>1. phase = "find" /\ at \in DOMAIN calls /\ ~HasParent /\ SendChild(Root)
      BY <1>2 DEF FindRoot, IInv, LoopInNodes
    <2>2. Ancestors(at) = {}
      BY <2>1, ParentFound, NoAncestors
    <2>3. SignificantAncestors(pos) = {}
      BY <2>1, <2>2 DEF SearchInv, SignificantAncestors
    <2>4. NamesNearest(ChildSpan(Root))
      BY <2>3 DEF NamesNearest, ChildSpan
    <2> QED BY <2>1, <2>4, SendNamesNearest
  <1>3. CASE FindSpan
    <2>1. PICK j \in DOMAIN calls : /\ ParentIs(j) /\ Significant(calls[j])
                                    /\ SendChild(calls[j].id)
      BY <1>3, TestsAgree DEF FindSpan, IInv
    <2>2. phase = "find" /\ at \in DOMAIN calls /\ HasParent
      BY <1>3 DEF FindSpan, IInv, LoopInNodes
    <2>3. Ancestors(at) = {j} \cup Ancestors(j)
      BY <2>1, <2>2, ParentFound, ParentAndAncestors
    <2>4. \A k \in Ancestors(j) : k < j
      BY OneParent
    <2>5. SignificantAncestors(pos) = {j} \cup SignificantAncestors(j)
      BY <2>1, <2>2, <2>3 DEF SearchInv, SignificantAncestors
    <2>6. j \in Nat /\ \A k \in SignificantAncestors(j) : k \in Nat /\ k < j
      <3>1. DOMAIN calls \subseteq Nat
        BY DEF IInv, TypeOK
      <3>2. SignificantAncestors(j) \subseteq Ancestors(j) /\ Ancestors(j) \subseteq DOMAIN calls
        BY DEF SignificantAncestors, Ancestors
      <3> QED BY <2>4, <3>1, <3>2
    <2>7. \A k \in SignificantAncestors(pos) : k <= j
      BY <2>5, <2>6
    <2>8. NamesNearest(ChildSpan(calls[j].id))
      BY <2>5, <2>7 DEF NamesNearest, ChildSpan
    <2> QED BY <2>1, <2>2, <2>8, SendNamesNearest
  <1>4. CASE FindOn
    <2>1. PICK j \in DOMAIN calls : ParentIs(j) /\ ~Significant(calls[j]) /\ at' = j
      BY <1>4, TestsAgree DEF FindOn, IInv
    <2>2. /\ phase = "find" /\ at \in DOMAIN calls /\ HasParent
          /\ calls' = calls /\ pos' = pos /\ sent' = sent
      BY <1>4 DEF FindOn, IInv, LoopInNodes, request
    <2>3. Ancestors(at) = {j} \cup Ancestors(j)
      BY <2>1, <2>2, ParentFound, ParentAndAncestors
    <2>4. SignificantAncestors(pos) = SignificantAncestors(j)
      BY <2>1, <2>2, <2>3 DEF SearchInv, SignificantAncestors
    <2>5. SignificantAncestors(pos)' = SignificantAncestors(pos)
          /\ SignificantAncestors(at)' = SignificantAncestors(j)
      BY <2>1, <2>2 DEF SignificantAncestors, Ancestors, ParentsOf
    <2>6. \A k \in DOMAIN sent' : NamesNearest(sent[k])'
      BY <2>2, NamesStay
    <2> QED BY <2>2, <2>4, <2>5, <2>6 DEF SearchInv
  <1>5. CASE Shutdown \/ Skip \/ Expand \/ Finish \/ UNCHANGED vars
    <2>1. calls' = calls /\ sent' = sent
      BY <1>5 DEF Shutdown, Skip, Expand, Finish, request, expansion, vars
    <2>2. phase' = "find" => \/ pos' = at'
                             \/ phase = "find" /\ pos' = pos /\ at' = at
      BY <1>5 DEF Shutdown, Skip, Expand, Finish, vars
    <2>3. \A k \in DOMAIN sent' : NamesNearest(sent[k])'
      BY <2>1, NamesStay
    <2>4. phase' = "find" => SignificantAncestors(pos)' = SignificantAncestors(at)'
      BY <2>1, <2>2 DEF SearchInv, SignificantAncestors, Ancestors, ParentsOf
    <2> QED BY <2>1, <2>3, <2>4 DEF SearchInv
  <1>6. \/ phase' = "request" \/ FindRoot \/ FindSpan \/ FindOn
        \/ Shutdown \/ Skip \/ Expand \/ Finish \/ UNCHANGED vars
    BY DEF Next, Begin, Return, Record, Enable, Disable, Running, NextRequest
  <1> QED BY <1>1, <1>2, <1>3, <1>4, <1>5, <1>6

\* With distinct ids each child span names the nearest of its significant
\* ancestors, the root span if it has none, for profiles of any size and
\* whatever the order the calls ended in (find_parent_span_id_for_call,
\* opa.c 5238-5274).
THEOREM NearestIsNamed == DistinctTicks => (Spec => []NearestAncestor)
  <1> SUFFICES ASSUME DistinctTicks
               PROVE  Spec => []NearestAncestor
    OBVIOUS
  <1>1. Init => SearchInv
    BY DEF Init, SearchInv
  <1>2. IInv /\ IInv' /\ SearchInv /\ [Next]_vars => SearchInv'
    BY SearchStep, ConstantsAssumption
  <1>3. SearchInv => NearestAncestor
    BY DEF SearchInv, NamesNearest, SignificantAncestors, NearestAncestor, Spans
  <1> QED BY <1>1, <1>2, <1>3, Invariant, PTL DEF Spec
=============================================================================
