---------------------------- MODULE SerializerProofs ----------------------------
(***************************************************************************)
(* The text the serializer prints is JSON, for values of any depth and     *)
(* size, and it is the text of the value, cut off only at the limits; the  *)
(* recursion is bounded and the visited set is the way it took.            *)
(***************************************************************************)
EXTENDS Serializer, SequenceTheorems, WellFoundedInduction, TLAPS

Frame == [array : Array, items : 0..MaxItems]

\* What a call has done before it calls again: it has counted the item.
Counted ==
  \A i \in DOMAIN stack : (i < Len(stack) \/ todo # None) => stack[i].items > 0

\* No array is on the way twice.
Simple == \A i, j \in DOMAIN stack : stack[i].array = stack[j].array => i = j

\* The inductive invariant of type correctness.
TypeInv ==
  /\ SerializerTypeOK
  /\ heap \in Heaps
  /\ todo # None => Len(stack) <= MaxDepth + 1
  /\ Simple
  /\ Counted

\* The brackets open are those of the calls, and what may come next is what
\* the calls print next.
Matches ==
  /\ Len(syntax.open) = Len(stack)
  /\ \A i \in DOMAIN stack : syntax.open[i] = Opening(stack[i].array)
  /\ todo # None => TakesValue(syntax)
  /\ todo = None /\ stack = <<>> => syntax.next = "end"
  /\ todo = None /\ stack # <<>> =>
       syntax.next = IF Last.items > 0 THEN "rest"
                     ELSE IF IsAssoc(Last.array) THEN "firstkey" ELSE "firstitem"

Uniform == \A a \in Array : ~Mixed(a)
-----------------------------------------------------------------------------
\* How a value, a comma, a key and a bracket are read.
LEMMA ReadValue ==
  ASSUME NEW s \in Syntax, NEW token, TakesValue(s),
         token \notin {"object", "endobject", "list", "endlist", "comma", "key"}
  PROVE  Read(s, token) = Took(s.open)
BY DEF Read

LEMMA ReadOpening ==
  ASSUME NEW s \in Syntax, TakesValue(s), NEW a \in Array
  PROVE  Read(s, Opening(a)) =
           Then(Append(s.open, Opening(a)), IF IsAssoc(a) THEN "firstkey" ELSE "firstitem")
BY DEF Read, Opening

LEMMA ReadClosing ==
  ASSUME NEW s \in Syntax, NEW a \in Array, Closes(s, Opening(a)),
         s.next = "rest" \/ (~IsAssoc(a) /\ s.next = "firstitem")
  PROVE  Read(s, Closing(a)) = Closed(s)
BY DEF Read, Opening, Closing

LEMMA ReadComma ==
  ASSUME NEW s \in Syntax, s.next = "rest"
  PROVE  Read(s, "comma") = Then(s.open, IF Closes(s, "object") THEN "key" ELSE "value")
BY DEF Read

LEMMA ReadKey ==
  ASSUME NEW s \in Syntax, s.next \in {"firstkey", "key"}
  PROVE  Read(s, "key") = Then(s.open, "value")
BY DEF Read

\* What precedes an item is read token by token.
LEMMA ReadsBefore ==
  ASSUME NEW s, NEW first \in BOOLEAN, NEW named \in BOOLEAN
  PROVE  ReadBefore(s, first, named)
           = LET s1 == IF first THEN s ELSE Read(s, "comma")
             IN IF named THEN Read(s1, "key") ELSE s1
<1>1. CASE first = TRUE /\ named = FALSE
  <2>1. Before(first, named) = <<>>
    BY <1>1 DEF Before
  <2> QED BY <1>1, <2>1 DEF ReadBefore
<1>2. CASE first = TRUE /\ named = TRUE
  <2>1. Before(first, named) = <<"key">>
    BY <1>2 DEF Before
  <2> QED BY <1>2, <2>1 DEF ReadBefore
<1>3. CASE first = FALSE /\ named = FALSE
  <2>1. Before(first, named) = <<"comma">>
    BY <1>3 DEF Before
  <2> QED BY <1>3, <2>1 DEF ReadBefore
<1>4. CASE first = FALSE /\ named = TRUE
  <2>1. Before(first, named) = <<"comma", "key">>
    BY <1>4 DEF Before
  <2> QED BY <1>4, <2>1 DEF ReadBefore
<1> QED BY <1>1, <1>2, <1>3, <1>4

LEMMA ReadSeparator ==
  ASSUME NEW s \in Syntax, NEW a \in Array, Closes(s, Opening(a)), s.next = "rest",
         NEW named \in BOOLEAN, named <=> IsAssoc(a)
  PROVE  ReadBefore(s, FALSE, named) = Then(s.open, "value")
<1>1. Read(s, "comma") = Then(s.open, IF IsAssoc(a) THEN "key" ELSE "value")
  BY ReadComma DEF Closes, Opening
<1>2. CASE named
  <2>1. Read(s, "comma") = Then(s.open, "key")
    BY <1>1, <1>2
  <2>2. Then(s.open, "key") \in Syntax
    BY DEF Then, Syntax
  <2>3. Read(Then(s.open, "key"), "key") = Then(s.open, "value")
    BY <2>2, ReadKey DEF Then
  <2>4. ReadBefore(s, FALSE, named) = Read(Read(s, "comma"), "key")
    BY <1>2, ReadsBefore
  <2> QED BY <2>1, <2>3, <2>4
<1>3. CASE ~named
  <2>1. Read(s, "comma") = Then(s.open, "value")
    BY <1>1, <1>3
  <2>2. ReadBefore(s, FALSE, named) = Read(s, "comma")
    BY <1>3, ReadsBefore
  <2> QED BY <2>1, <2>2
<1> QED BY <1>2, <1>3

LEMMA ReadFirst ==
  ASSUME NEW s \in Syntax, NEW a \in Array, s.next = IF IsAssoc(a) THEN "firstkey" ELSE "firstitem",
         NEW named \in BOOLEAN, named <=> IsAssoc(a)
  PROVE  \E n \in {"value", "firstitem"} : ReadBefore(s, TRUE, named) = Then(s.open, n)
<1>1. CASE named
  <2>1. Read(s, "key") = Then(s.open, "value")
    BY <1>1, ReadKey
  <2> QED BY <2>1, <1>1, ReadsBefore
<1>2. CASE ~named
  <2>1. s = Then(s.open, "firstitem")
    BY <1>2 DEF Then, Syntax
  <2> QED BY <2>1, <1>2, ReadsBefore
<1> QED BY <1>1, <1>2
-----------------------------------------------------------------------------
LEMMA ItemsAreItems ==
  ASSUME heap \in Heaps, NEW a \in Array
  PROVE  /\ heap[a] \in Seq(Item)
         /\ Count(a) \in Nat
         /\ \A i \in 1..Count(a) : heap[a][i] \in Item
BY ConstantsAssumption DEF Count

LEMMA MarksAreMarks ==
  ASSUME NEW a \in Array
  PROVE  Opening(a) \in {"object", "list"} /\ Closing(a) \in {"endobject", "endlist"}
BY DEF Opening, Closing

\* What is left when the last element of a sequence is taken off.
LEMMA FrontOfSeq ==
  ASSUME NEW S, NEW s \in Seq(S)
  PROVE  LET front == SubSeq(s, 1, Len(s) - 1) IN
           /\ front \in Seq(S)
           /\ s # <<>> => /\ Len(s) \in Nat \ {0}
                          /\ Len(front) = Len(s) - 1
                          /\ DOMAIN front = DOMAIN s \ {Len(s)}
                          /\ \A i \in DOMAIN front : front[i] = s[i]
<1> DEFINE n == Len(s)
<1>1. n \in Nat /\ DOMAIN s = 1..n /\ (s # <<>> => n # 0)
  BY LenProperties, EmptySeq
<1>2. \A i \in 1..(n - 1) : s[i] \in S
  BY <1>1, ElementOfSeq
<1> DEFINE front == SubSeq(s, 1, n - 1)
<1>3. /\ front \in Seq(S)
      /\ Len(front) = IF 1 <= n - 1 THEN n - 1 ELSE 0
      /\ \A i \in 1..(n - 1) : front[i] = s[i]
  BY <1>1, <1>2, SubSeqProperties
<1>4. DOMAIN front = 1..Len(front)
  BY <1>3, LenProperties
<1> QED BY <1>1, <1>3, <1>4

LEMMA ReadTyped ==
  ASSUME NEW s \in Syntax, NEW token
  PROVE  Read(s, token) \in Syntax
<1>0. s.open \in Seq(Bracket) /\ "object" \in Bracket /\ "list" \in Bracket
  BY DEF Syntax, Bracket
<1>1. SubSeq(s.open, 1, Len(s.open) - 1) \in Seq(Bracket)
  BY <1>0, FrontOfSeq
<1>2. /\ Append(s.open, "object") \in Seq(Bracket)
      /\ Append(s.open, "list") \in Seq(Bracket)
  BY <1>0
<1>3. /\ Closed(s) \in Syntax
      /\ Took(s.open) \in Syntax
      /\ Bad \in Syntax
  BY <1>0, <1>1 DEF Closed, Took, Then, Bad, Syntax
<1>4. /\ Then(Append(s.open, "object"), "firstkey") \in Syntax
      /\ Then(Append(s.open, "list"), "firstitem") \in Syntax
      /\ Then(s.open, IF Closes(s, "object") THEN "key" ELSE "value") \in Syntax
      /\ Then(s.open, "value") \in Syntax
  BY <1>0, <1>2 DEF Then, Syntax
<1> QED BY <1>3, <1>4 DEF Read

LEMMA ReadBeforeTyped ==
  ASSUME NEW s \in Syntax, NEW first, NEW named
  PROVE  ReadBefore(s, first, named) \in Syntax
BY ReadTyped DEF ReadBefore

LEMMA BeforeTyped ==
  ASSUME NEW first, NEW named
  PROVE  Before(first, named) \in Seq(Plain \cup Marks)
<1> DEFINE T == Plain \cup Marks
<1>1. "comma" \in T /\ "key" \in T
  BY DEF Marks
<1> HIDE DEF T
<1>2. /\ (IF first THEN <<>> ELSE <<"comma">>) \in Seq(T)
      /\ (IF named THEN <<"key">> ELSE <<>>) \in Seq(T)
  BY <1>1
<1>3. Before(first, named) \in Seq(T)
  BY <1>2 DEF Before
<1> QED BY <1>3 DEF T

\* A text with more appended to it.
LEMMA Appended ==
  ASSUME NEW T, NEW s \in Seq(T)
  PROVE  /\ \A e \in T : Append(s, e) \in Seq(T) /\ <<e>> \in Seq(T)
         /\ \A t \in Seq(T) : s \o t \in Seq(T)
OBVIOUS

LEMMA StackTyped ==
  ASSUME TypeInv
  PROVE  /\ stack \in Seq(Frame) /\ Len(stack) \in Nat
         /\ DOMAIN stack = 1..Len(stack)
         /\ \A i \in DOMAIN stack : stack[i] \in Frame /\ stack[i].array \in Array
<1>1. stack \in Seq(Frame)
  BY DEF TypeInv, SerializerTypeOK, Frame
<1>2. Len(stack) \in Nat /\ DOMAIN stack = 1..Len(stack)
  BY <1>1, LenProperties
<1>3. \A i \in DOMAIN stack : stack[i] \in Frame
  BY <1>1, <1>2, ElementOfSeq
<1> QED BY <1>1, <1>2, <1>3 DEF Frame

\* Taking a frame off leaves the others as they are.
LEMMA Popped ==
  ASSUME TypeInv, stack # <<>>, stack' = SubSeq(stack, 1, Depth - 1),
         visited' = visited \ {Last.array}, todo' = None, todo = None
  PROVE  /\ stack' \in Seq(Frame) /\ Len(stack') = Len(stack) - 1
         /\ Len(stack) \in Nat \ {0} /\ Last \in Frame
         /\ \A i \in DOMAIN stack' : stack'[i] = stack[i]
         /\ visited' = {stack'[i].array : i \in DOMAIN stack'}
         /\ Simple' /\ Counted'
<1>1. stack \in Seq(Frame) /\ DOMAIN stack = 1..Len(stack)
  BY LenProperties DEF TypeInv, SerializerTypeOK, Frame
<1>2. /\ stack' \in Seq(Frame) /\ Len(stack) \in Nat \ {0}
      /\ Len(stack') = Len(stack) - 1
      /\ DOMAIN stack' = DOMAIN stack \ {Len(stack)}
      /\ \A i \in DOMAIN stack' : stack'[i] = stack[i]
  BY <1>1, FrontOfSeq DEF Depth
<1>3. Last \in Frame
  BY <1>1, <1>2, ElementOfSeq DEF Last, Depth
<1>4. visited' = {stack'[i].array : i \in DOMAIN stack'}
  <2>1. visited = {stack[i].array : i \in DOMAIN stack}
    BY DEF TypeInv, SerializerTypeOK
  <2>2. \A i \in DOMAIN stack : stack[i].array = Last.array => i = Len(stack)
    BY <1>1, <1>2 DEF TypeInv, Simple, Last, Depth
  <2> QED BY SMTT(30), <1>1, <1>2, <2>1, <2>2 DEF Last, Depth
<1>5. Simple'
  BY <1>2 DEF TypeInv, Simple
<1>6. Counted'
  BY <1>1, <1>2 DEF TypeInv, Counted
<1> QED BY <1>2, <1>3, <1>4, <1>5, <1>6

\* How the stack changes when an array is entered, and when an item is counted.
LEMMA Pushed ==
  ASSUME TypeInv, NEW f \in Frame, stack' = Append(stack, f)
  PROVE  /\ stack' \in Seq(Frame) /\ Len(stack') = Len(stack) + 1
         /\ \A i \in DOMAIN stack : stack'[i] = stack[i]
         /\ stack'[Len(stack) + 1] = f
         /\ DOMAIN stack' = 1..Len(stack) + 1
BY StackTyped

LEMMA Stepped ==
  ASSUME TypeInv, NextItem
  PROVE  /\ Last \in Frame /\ Len(stack) \in Nat \ {0}
         /\ stack' \in Seq(Frame) /\ Len(stack') = Len(stack)
         /\ DOMAIN stack' = DOMAIN stack
         /\ \A i \in DOMAIN stack : stack'[i].array = stack[i].array
         /\ \A i \in DOMAIN stack : i # Len(stack) => stack'[i].items = stack[i].items
         /\ stack'[Len(stack)].items = Last.items + 1
<1>1. stack \in Seq(Frame) /\ stack # <<>> /\ MaxItems \in Nat
  BY StackTyped, ConstantsAssumption DEF NextItem
<1>2. Len(stack) \in Nat \ {0} /\ DOMAIN stack = 1..Len(stack) BY <1>1, FrontOfSeq, LenProperties
<1>3. Last \in Frame BY <1>1, <1>2, ElementOfSeq DEF Last, Depth
<1>4. stack' = [stack EXCEPT ![Len(stack)].items = @ + 1] /\ Last.items < MaxItems
  BY DEF NextItem, Depth
<1> DEFINE f == [array |-> Last.array, items |-> Last.items + 1]
<1>5. f \in Frame /\ f.array = Last.array /\ f.items = Last.items + 1
  BY <1>1, <1>3, <1>4 DEF Frame
<1>6. stack' = [stack EXCEPT ![Len(stack)] = f]
  <2>1. [stack[Len(stack)] EXCEPT !.items = @ + 1] = f BY <1>3 DEF Last, Depth, Frame
  <2> QED BY <1>4, <2>1
<1>7. /\ stack' \in Seq(Frame) /\ Len(stack') = Len(stack)
      /\ \A i \in 1..Len(stack) : stack'[i] = IF i = Len(stack) THEN f ELSE stack[i]
  <2> HIDE DEF f
  <2> QED BY <1>1, <1>2, <1>5, <1>6, ExceptSeq
<1>8. DOMAIN stack' = DOMAIN stack BY <1>2, <1>7, LenProperties
<1>9. \A i \in DOMAIN stack : i # Len(stack) => stack'[i] = stack[i] BY <1>2, <1>7
<1>10. stack'[Len(stack)] = f /\ stack[Len(stack)] = Last
  <2> HIDE DEF f
  <2>1. stack[Len(stack)] = Last BY DEF Last, Depth
  <2>2. stack'[Len(stack)] = f
    <3>1. Len(stack) \in 1..Len(stack) BY <1>2
    <3>2. \A i \in 1..Len(stack) : stack'[i] = IF i = Len(stack) THEN f ELSE stack[i] BY <1>7
    <3> QED BY Zenon, <3>1, <3>2
  <2> QED BY <2>1, <2>2
<1>11. \A i \in DOMAIN stack : stack'[i].array = stack[i].array BY <1>5, <1>9, <1>10
<1> HIDE DEF f
<1> QED BY <1>2, <1>3, <1>5, <1>7, <1>8, <1>9, <1>10, <1>11

\* What holds initially and is kept by every step.
LEMMA TypeInvHolds == Spec => []TypeInv
<1>1. Init => TypeInv
  <2> SUFFICES ASSUME Init PROVE TypeInv
    OBVIOUS
  <2>1. heap \in [Array -> Seq(Item)]
    BY ConstantsAssumption DEF Init
  <2>2. Begun \in Syntax
    BY DEF Begun, Then, Syntax
  <2> QED BY <2>1, <2>2, ConstantsAssumption
       DEF Init, TypeInv, SerializerTypeOK, Simple, Counted, Value
<1>2. TypeInv /\ [Next]_vars => TypeInv'
  <2> SUFFICES ASSUME TypeInv, [Next]_vars PROVE TypeInv'
    OBVIOUS
  <2>t. /\ stack \in Seq(Frame)
        /\ Len(stack) \in Nat
        /\ None \notin Array /\ MaxDepth \in Nat /\ MaxItems \in Nat \ {0}
    BY ConstantsAssumption DEF TypeInv, SerializerTypeOK, Frame, None, Array
  <2>p. ASSUME NEW token \in Plain \cup Marks, Emit(token) PROVE TypeInv'
    <3>1. SerializerTypeOK'
      BY <2>t, <2>p, ReadTyped DEF Emit, TypeInv, SerializerTypeOK
    <3>2. Simple' /\ Counted'
      BY <2>t, <2>p DEF Emit, TypeInv, Simple, Counted
    <3> QED BY <3>1, <3>2, <2>p DEF Emit, TypeInv
  <2>1. CASE TooDeep
    BY <2>1, <2>p DEF TooDeep, Marks
  <2>2. CASE PrintPlain
    BY <2>2, <2>p DEF PrintPlain
  <2>3. CASE TooLarge
    BY <2>3, <2>p DEF TooLarge, Marks
  <2>4. CASE EnterArray
    <3>1. CASE todo \in visited
      BY <2>4, <3>1, <2>p DEF EnterArray, Marks
    <3>2. CASE todo \notin visited
      <4> DEFINE f == [array |-> todo, items |-> 0]
      <4>1. /\ todo \in Array /\ f \in Frame /\ stack' = Append(stack, f)
            /\ visited' = visited \cup {todo} /\ todo' = None
            /\ out' = Append(out, Opening(todo)) /\ syntax' = Read(syntax, Opening(todo))
            /\ heap' = heap /\ top' = top /\ Len(stack) <= MaxDepth
        BY <2>4, <3>2, <2>t DEF EnterArray, Frame, Depth
      <4>2. /\ stack' \in Seq(Frame) /\ Len(stack') = Len(stack) + 1
            /\ \A i \in DOMAIN stack : stack'[i] = stack[i]
            /\ stack'[Len(stack) + 1] = f
            /\ DOMAIN stack' = DOMAIN stack \cup {Len(stack) + 1}
        BY <4>1, <2>t, Pushed
      <4>3. visited' = {stack'[i].array : i \in DOMAIN stack'}
        BY <4>1, <4>2 DEF TypeInv, SerializerTypeOK
      <4>4. SerializerTypeOK'
        <5>1. Opening(todo) \in Plain \cup Marks
          BY <4>1, MarksAreMarks DEF Marks
        <5>2. out' \in Seq(Plain \cup Marks)
          BY <4>1, <5>1 DEF TypeInv, SerializerTypeOK
        <5>3. syntax' \in Syntax
          BY <4>1, ReadTyped DEF TypeInv, SerializerTypeOK
        <5> QED BY SMTT(30), <4>1, <4>2, <4>3, <5>2, <5>3, <2>t DEF TypeInv, SerializerTypeOK, Frame
      <4>5. Simple'
        <5>1. \A i \in DOMAIN stack : stack[i].array # todo
          BY <3>2 DEF TypeInv, SerializerTypeOK
        <5>2. \A i \in DOMAIN stack : i # Len(stack) + 1
          BY <2>t, LenProperties
        <5> QED BY <4>2, <5>1, <5>2 DEF TypeInv, Simple
      <4>6. Counted'
        BY <4>1, <4>2, <2>t DEF TypeInv, Counted
      <4> QED BY <4>1, <4>4, <4>5, <4>6 DEF TypeInv
    <3> QED BY <3>1, <3>2
  <2>5. CASE NextItem
    <3> DEFINE a    == Last.array
               item == heap[a][Last.items + 1]
    <3>1. Last \in Frame /\ Len(stack) \in Nat \ {0} /\ DOMAIN stack = 1..Len(stack)
      BY <2>5, Stepped, StackTyped
    <3>2. item \in Item
      BY <2>5, <3>1, ItemsAreItems DEF NextItem, TypeInv, Frame, Count
    <3>3. /\ stack' = [stack EXCEPT ![Len(stack)].items = @ + 1]
          /\ todo' = item.value /\ heap' = heap /\ top' = top /\ visited' = visited
          /\ syntax' = ReadBefore(syntax, Last.items = 0, item.named)
          /\ out' = out \o Before(Last.items = 0, item.named)
          /\ Last.items < MaxItems
      BY <2>5 DEF NextItem, Depth
    <3>4. /\ stack' \in Seq(Frame) /\ Len(stack') = Len(stack)
          /\ DOMAIN stack' = DOMAIN stack
          /\ \A i \in DOMAIN stack : stack'[i].array = stack[i].array
          /\ \A i \in DOMAIN stack : i # Len(stack) => stack'[i].items = stack[i].items
          /\ stack'[Len(stack)].items = Last.items + 1
      BY <2>5, Stepped
    <3>5. Before(Last.items = 0, item.named) \in Seq(Plain \cup Marks)
      BY BeforeTyped
    <3>6. SerializerTypeOK'
      <4>1. visited' = {stack'[i].array : i \in DOMAIN stack'}
        <5>1. visited = {stack[i].array : i \in DOMAIN stack}
          BY DEF TypeInv, SerializerTypeOK
        <5>2. {stack'[i].array : i \in DOMAIN stack'} = {stack[i].array : i \in DOMAIN stack}
          BY <3>4
        <5> QED BY <3>3, <5>1, <5>2
      <4>2. out' \in Seq(Plain \cup Marks)
        <5>1. out \in Seq(Plain \cup Marks)
          BY DEF TypeInv, SerializerTypeOK
        <5> HIDE DEF item
        <5>2. out \o Before(Last.items = 0, item.named) \in Seq(Plain \cup Marks)
          BY <3>5, <5>1, Appended
        <5> QED BY <3>3, <5>2
      <4>3. syntax' \in Syntax
        BY <3>3, ReadBeforeTyped DEF TypeInv, SerializerTypeOK
      <4>4. todo' \in Value
        BY <3>2, <3>3 DEF Item
      <4>5. heap' = heap /\ top' = top
        BY <3>3
      <4>6. stack' \in Seq(Frame) /\ Len(stack') = Len(stack)
        BY <3>4
      <4>7. Len(stack') <= MaxDepth + 1 /\ heap' \in [Array -> Seq(Item)] /\ top' \in Value
        BY <4>5, <4>6 DEF TypeInv, SerializerTypeOK
      <4> HIDE DEF item, a
      <4> QED BY SMTT(30), <4>1, <4>2, <4>3, <4>4, <4>6, <4>7 DEF SerializerTypeOK, Frame
    <3>7. Simple'
      BY <3>4 DEF TypeInv, Simple
    <3>8. Counted'
      <4>1. Last.items \in Nat
        BY <3>1, <2>t DEF Frame
      <4>2. \A i \in 1..Len(stack) : i # Len(stack) => i < Len(stack)
        BY <2>t
      <4>3. \A i \in DOMAIN stack : i # Len(stack) => stack'[i].items > 0
        BY <3>1, <3>4, <4>2 DEF TypeInv, Counted
      <4>4. stack'[Len(stack)].items > 0
        BY <3>4, <4>1
      <4> QED BY <3>4, <4>3, <4>4 DEF Counted
    <3> QED BY Zenon, <3>3, <3>4, <3>6, <3>7, <3>8 DEF TypeInv, SerializerTypeOK
  <2>r. ASSUME NEW text \in Seq(Plain \cup Marks), NEW s \in Syntax,
               todo = None, stack # <<>>, Return(text, s)
        PROVE  TypeInv'
    <3>1. /\ stack' \in Seq(Frame) /\ Len(stack') = Len(stack) - 1 /\ Last \in Frame
          /\ visited' = {stack'[i].array : i \in DOMAIN stack'}
          /\ Simple' /\ Counted'
      BY <2>r, Popped DEF Return
    <3>2. out' \in Seq(Plain \cup Marks) /\ syntax' \in Syntax
      <4>1. Closing(Last.array) \in Plain \cup Marks
        BY <3>1, MarksAreMarks DEF Frame, Marks
      <4>2. Append(text, Closing(Last.array)) \in Seq(Plain \cup Marks)
        BY <2>r, <4>1, Appended
      <4> QED BY <2>r, <4>2, ReadTyped DEF Return
    <3>3. heap' = heap /\ top' = top /\ todo' = None
      BY <2>r DEF Return
    <3>4. Len(stack') <= MaxDepth + 1
      BY <2>t, <3>1 DEF TypeInv, SerializerTypeOK
    <3>5. SerializerTypeOK'
      BY <3>1, <3>2, <3>3, <3>4 DEF TypeInv, SerializerTypeOK, Frame
    <3> QED BY <3>1, <3>3, <3>5 DEF TypeInv
  <2>6. CASE EndArray
    BY <2>6, <2>r DEF EndArray, TypeInv, SerializerTypeOK
  <2>7. CASE Truncate
    <3> DEFINE text == out \o Before(FALSE, IsAssoc(Last.array)) \o <<"more">>
               s    == Read(ReadBefore(syntax, FALSE, IsAssoc(Last.array)), "more")
    <3>1. text \in Seq(Plain \cup Marks)
      <4>1. Before(FALSE, IsAssoc(Last.array)) \in Seq(Plain \cup Marks)
        BY BeforeTyped
      <4>2. <<"more">> \in Seq(Plain \cup Marks)
        <5>1. "more" \in Plain \cup Marks
          BY DEF Marks
        <5> QED BY <5>1, Appended
      <4>3. out \in Seq(Plain \cup Marks)
        BY DEF TypeInv, SerializerTypeOK
      <4>4. out \o Before(FALSE, IsAssoc(Last.array)) \in Seq(Plain \cup Marks)
        BY <4>1, <4>3, Appended
      <4> QED BY <4>2, <4>4, Appended
    <3>2. s \in Syntax
      BY ReadTyped, ReadBeforeTyped DEF TypeInv, SerializerTypeOK
    <3>3. todo = None /\ stack # <<>> /\ Return(text, s)
      BY <2>7 DEF Truncate
    <3> HIDE DEF text, s
    <3> QED BY <3>1, <3>2, <3>3, <2>r
  <2>8. CASE UNCHANGED vars
    BY <2>8 DEF vars, TypeInv, SerializerTypeOK, Simple, Counted
  <2> QED BY <2>1, <2>2, <2>3, <2>4, <2>5, <2>6, <2>7, <2>8 DEF Next
<1> QED BY <1>1, <1>2, PTL DEF Spec

\* For values of any size and depth and any limits, the structures of the
\* serializer have their types, the recursion is no deeper than the limit, and
\* the visited set is the way to the value being printed.
THEOREM TypeCorrect == Spec => []SerializerTypeOK
<1>1. TypeInv => SerializerTypeOK
  BY DEF TypeInv
<1> QED BY <1>1, TypeInvHolds, PTL
-----------------------------------------------------------------------------
\* The array being printed has its bracket open, the innermost one.
LEMMA Innermost ==
  ASSUME TypeInv, Matches, stack # <<>>
  PROVE  /\ Last \in Frame /\ Len(stack) \in Nat \ {0}
         /\ Closes(syntax, Opening(Last.array))
         /\ syntax.open \in Seq(Bracket) /\ syntax.open # <<>>
<1>1. stack \in Seq(Frame) /\ syntax \in Syntax
  BY DEF TypeInv, SerializerTypeOK, Frame
<1>2. Len(stack) \in Nat \ {0} /\ DOMAIN stack = 1..Len(stack)
  BY <1>1, FrontOfSeq, LenProperties
<1>3. Last \in Frame
  BY <1>1, <1>2, ElementOfSeq DEF Last, Depth
<1>4. syntax.open \in Seq(Bracket)
  BY <1>1 DEF Syntax
<1>5. Len(syntax.open) = Len(stack) /\ syntax.open # <<>>
  BY <1>2, <1>4, EmptySeq DEF Matches
<1> QED BY <1>2, <1>3, <1>4, <1>5 DEF Matches, Closes, Last, Depth

\* Printing a value that is not gone into.
LEMMA PrintKeeps ==
  ASSUME TypeInv, Matches, todo # None, NEW token, Emit(token),
         token \notin {"object", "endobject", "list", "endlist", "comma", "key"}
  PROVE  Matches'
<1>1. /\ syntax \in Syntax /\ TakesValue(syntax) /\ stack' = stack /\ todo' = None /\ heap' = heap
      /\ syntax' = Read(syntax, token)
  BY DEF TypeInv, SerializerTypeOK, Matches, Emit
<1>2. syntax' = Took(syntax.open)
  BY <1>1, ReadValue
<1>3. syntax'.open = syntax.open /\ syntax'.next = IF syntax.open = <<>> THEN "end" ELSE "rest"
  BY <1>2 DEF Took, Then
<1>4. stack \in Seq(Frame) /\ syntax.open \in Seq(Bracket)
  BY <1>1 DEF TypeInv, SerializerTypeOK, Frame, Syntax
<1>5. syntax.open = <<>> <=> stack = <<>>
  BY <1>4, EmptySeq DEF Matches
<1>6. stack # <<>> => Last'.items > 0
  <2>1. stack # <<>> => Len(stack) \in DOMAIN stack
    BY <1>4, FrontOfSeq, LenProperties
  <2> QED BY <1>1, <2>1 DEF TypeInv, Counted, Last, Depth
<1>7. \A a \in Array : Opening(a)' = Opening(a)
  BY <1>1 DEF Opening, IsAssoc
<1>8. \A i \in DOMAIN stack : stack[i].array \in Array
  BY StackTyped
<1>9. \A i \in DOMAIN stack : syntax'.open[i] = Opening(stack[i].array)'
  BY <1>1, <1>3, <1>7, <1>8 DEF Matches
<1>10. Len(syntax'.open) = Len(stack')
  BY <1>1, <1>3 DEF Matches
<1>11. stack' # <<>> => syntax'.next = "rest"
  BY <1>1, <1>3, <1>5
<1>12. stack' = <<>> => syntax'.next = "end"
  BY <1>1, <1>3, <1>5
<1> QED BY <1>1, <1>6, <1>9, <1>10, <1>11, <1>12 DEF Matches

\* Going into an array opens its bracket.
LEMMA EnterKeeps ==
  ASSUME TypeInv, Matches, EnterArray, todo \notin visited
  PROVE  Matches'
<1> DEFINE f == [array |-> todo, items |-> 0]
<1>1. /\ syntax \in Syntax /\ TakesValue(syntax) /\ todo \in Array /\ todo # None
      /\ stack' = Append(stack, f) /\ todo' = None /\ heap' = heap
      /\ syntax' = Read(syntax, Opening(todo))
  BY DEF TypeInv, SerializerTypeOK, Matches, EnterArray, Array, None
<1>2. /\ syntax'.open = Append(syntax.open, Opening(todo))
      /\ syntax'.next = IF IsAssoc(todo) THEN "firstkey" ELSE "firstitem"
  BY <1>1, ReadOpening DEF Then
<1>3. /\ stack \in Seq(Frame) /\ Len(stack) \in Nat /\ DOMAIN stack = 1..Len(stack)
      /\ \A i \in DOMAIN stack : stack[i].array \in Array
  BY StackTyped
<1>4. f \in Frame /\ f.array = todo /\ f.items = 0
  BY <1>1, ConstantsAssumption DEF Frame
<1> HIDE DEF f
<1>5. /\ Len(stack') = Len(stack) + 1 /\ DOMAIN stack' = 1..(Len(stack) + 1)
      /\ \A i \in 1..Len(stack) : stack'[i] = stack[i]
      /\ stack'[Len(stack) + 1] = f
  BY <1>1, <1>3, <1>4
<1>6. syntax.open \in Seq(Bracket) /\ Len(syntax.open) = Len(stack) /\ Opening(todo) \in Bracket
  BY <1>1 DEF Matches, Syntax, Bracket, Opening
<1>7. /\ Len(syntax'.open) = Len(stack) + 1
      /\ \A i \in 1..Len(stack) : syntax'.open[i] = syntax.open[i]
      /\ syntax'.open[Len(stack) + 1] = Opening(todo)
  BY <1>2, <1>3, <1>6
<1>8. \A a \in Array : Opening(a)' = Opening(a) /\ IsAssoc(a)' = IsAssoc(a)
  BY <1>1 DEF Opening, IsAssoc
<1>9. \A i \in DOMAIN stack' : syntax'.open[i] = Opening(stack[i].array)'
  <2> SUFFICES ASSUME NEW i \in 1..(Len(stack) + 1)
               PROVE  syntax'.open[i] = Opening(stack[i].array)'
    BY <1>5
  <2>1. CASE i = Len(stack) + 1
    BY <2>1, <1>1, <1>4, <1>5, <1>7 DEF Opening, IsAssoc
  <2>2. CASE i \in 1..Len(stack)
    <3>1. syntax'.open[i] = Opening(stack[i].array)
      BY <2>2, <1>3, <1>7 DEF Matches
    <3>2. stack'[i] = stack[i]
      BY <2>2, <1>5
    <3> QED BY <3>1, <3>2, <1>1 DEF Opening, IsAssoc
  <2> QED BY <2>1, <2>2, <1>3
<1>10. Last' = f /\ stack' # <<>>
  BY <1>3, <1>5 DEF Last, Depth
<1>11. syntax'.next = IF IsAssoc(Last.array)' THEN "firstkey" ELSE "firstitem"
  BY <1>1, <1>2, <1>4, <1>10 DEF IsAssoc
<1>12. ~(Last'.items > 0)
  BY <1>4, <1>10
<1> QED BY <1>1, <1>5, <1>7, <1>9, <1>10, <1>11, <1>12 DEF Matches

\* An item is announced the way its array is written.
LEMMA NextKeeps ==
  ASSUME TypeInv, Matches, Uniform, NextItem
  PROVE  Matches'
<1> DEFINE a    == Last.array
           item == heap[a][Last.items + 1]
<1>1. /\ todo = None /\ stack # <<>> /\ heap' = heap
      /\ Last.items < Count(a)
      /\ syntax' = ReadBefore(syntax, Last.items = 0, item.named)
      /\ todo' = item.value
      /\ stack' = [stack EXCEPT ![Len(stack)].items = @ + 1]
  BY DEF NextItem, Depth
<1>2. /\ Last \in Frame /\ Len(stack) \in Nat \ {0} /\ Closes(syntax, Opening(a))
      /\ a \in Array /\ Last.items \in Nat /\ syntax \in Syntax
  BY <1>1, Innermost, ConstantsAssumption DEF Frame, TypeInv, SerializerTypeOK
<1>3. item \in Item /\ Last.items + 1 \in DOMAIN heap[a]
  <2>1. heap[a] \in Seq(Item) /\ Count(a) \in Nat /\ \A i \in 1..Count(a) : heap[a][i] \in Item
    BY <1>2, ItemsAreItems DEF TypeInv
  <2>2. Last.items + 1 \in 1..Count(a)
    BY <1>1, <1>2, <2>1
  <2> QED BY <2>1, <2>2, LenProperties DEF Count
<1>4. item.named <=> IsAssoc(a)
  BY <1>2, <1>3 DEF Uniform, Mixed, IsAssoc
<1>5. todo' # None
  BY <1>1, <1>3, ConstantsAssumption DEF Item, Value, Array, None
<1>6. item.named \in BOOLEAN /\ syntax \in Syntax /\ Closes(syntax, Opening(a)) /\ a \in Array
  BY <1>2, <1>3 DEF Item
<1>7. \E n \in {"value", "firstitem"} : syntax' = Then(syntax.open, n)
  <2> HIDE DEF a, item
  <2>1. CASE Last.items = 0
    <3>1. syntax.next = IF IsAssoc(a) THEN "firstkey" ELSE "firstitem"
      BY <1>1, <2>1 DEF Matches, a
    <3>2. syntax' = ReadBefore(syntax, TRUE, item.named)
      BY <1>1, <2>1
    <3> QED BY <1>4, <1>6, <3>1, <3>2, ReadFirst
  <2>2. CASE Last.items # 0
    <3>1. syntax.next = "rest"
      BY <1>1, <1>2, <2>2 DEF Matches
    <3>2. syntax' = ReadBefore(syntax, FALSE, item.named)
      BY <1>1, <2>2
    <3>3. syntax' = Then(syntax.open, "value")
      BY <1>4, <1>6, <3>1, <3>2, ReadSeparator
    <3> QED BY <3>3
  <2> QED BY <2>1, <2>2
<1>8. syntax'.open = syntax.open /\ TakesValue(syntax')
  BY <1>7 DEF Then, TakesValue
<1>9. /\ Len(stack') = Len(stack) /\ DOMAIN stack' = DOMAIN stack
      /\ \A i \in DOMAIN stack : stack'[i].array = stack[i].array
  <2> DEFINE f == [array |-> a, items |-> Last.items + 1]
  <2>1. stack \in Seq(Frame) /\ DOMAIN stack = 1..Len(stack) /\ \A i \in DOMAIN stack : stack[i] \in Frame
    BY StackTyped
  <2>2. [stack[Len(stack)] EXCEPT !.items = @ + 1] = f
    BY <1>2 DEF Last, Depth, Frame
  <2>3. stack' = [stack EXCEPT ![Len(stack)] = f]
    BY <1>1, <2>2
  <2> HIDE DEF f
  <2>4. DOMAIN stack' = DOMAIN stack /\ Len(stack') = Len(stack)
    BY <2>1, <2>3, <1>2
  <2>5. f.array = stack[Len(stack)].array
    BY DEF f, Last, Depth
  <2> QED BY <2>1, <2>3, <2>4, <2>5
<1>10. \A i \in DOMAIN stack' : syntax'.open[i] = Opening(stack[i].array)'
  <2> SUFFICES ASSUME NEW i \in DOMAIN stack PROVE syntax'.open[i] = Opening(stack[i].array)'
    BY <1>9
  <2>1. syntax'.open[i] = Opening(stack[i].array) /\ stack'[i].array = stack[i].array
    BY <1>8, <1>9 DEF Matches
  <2> QED BY <2>1, <1>1 DEF Opening, IsAssoc
<1> QED BY <1>5, <1>8, <1>9, <1>10 DEF Matches

\* Returning closes the bracket, and the rest of the enclosing array follows.
LEMMA ReturnKeeps ==
  ASSUME TypeInv, Matches, todo = None, stack # <<>>,
         NEW text, NEW s \in Syntax, Return(text, s), s.open = syntax.open,
         s.next = "rest" \/ (~IsAssoc(Last.array) /\ s.next = "firstitem")
  PROVE  Matches'
<1>1. /\ stack' = SubSeq(stack, 1, Depth - 1) /\ todo' = None /\ heap' = heap
      /\ visited' = visited \ {Last.array}
      /\ syntax' = Read(s, Closing(Last.array))
  BY DEF Return
<1>2. /\ stack' \in Seq(Frame) /\ Len(stack') = Len(stack) - 1
      /\ Len(stack) \in Nat \ {0}
      /\ \A i \in DOMAIN stack' : stack'[i] = stack[i]
  BY <1>1, Popped
<1>3. /\ Last \in Frame /\ Closes(syntax, Opening(Last.array))
      /\ syntax.open \in Seq(Bracket) /\ syntax.open # <<>>
  BY Innermost
<1>4. syntax' = Closed(s)
  BY <1>1, <1>3, ReadClosing DEF Closes, Frame
<1> DEFINE front == SubSeq(syntax.open, 1, Len(syntax.open) - 1)
<1>5. syntax'.open = front /\ syntax'.next = IF front = <<>> THEN "end" ELSE "rest"
  BY <1>4 DEF Closed, Took, Then
<1>6. Len(syntax.open) = Len(stack)
  BY DEF Matches
<1>7. /\ front \in Seq(Bracket) /\ Len(front) = Len(stack')
      /\ \A i \in DOMAIN front : front[i] = syntax.open[i]
  BY <1>2, <1>3, <1>6, FrontOfSeq
<1> HIDE DEF front
<1>8. DOMAIN front = 1..Len(stack') /\ DOMAIN stack' = 1..Len(stack')
  BY <1>2, <1>7, LenProperties
<1>9. front = <<>> <=> stack' = <<>>
  BY <1>2, <1>7, EmptySeq
<1>10. \A i \in DOMAIN stack' : syntax'.open[i] = Opening(stack[i].array)'
  <2> SUFFICES ASSUME NEW i \in DOMAIN stack' PROVE syntax'.open[i] = Opening(stack[i].array)'
    OBVIOUS
  <2>1. i \in DOMAIN stack
    BY <1>2, <1>8, StackTyped
  <2>2. syntax'.open[i] = Opening(stack[i].array)
    BY <1>5, <1>7, <1>8, <2>1 DEF Matches
  <2>3. stack'[i] = stack[i]
    BY <1>2
  <2> QED BY <1>1, <2>2, <2>3 DEF Opening, IsAssoc
<1>11. stack' # <<>> => Last'.items > 0
  <2> SUFFICES ASSUME stack' # <<>> PROVE Last'.items > 0
    OBVIOUS
  <2>1. Len(stack') \in Nat \ {0}
    BY <1>2, FrontOfSeq
  <2>2. /\ Len(stack') \in DOMAIN stack' /\ Len(stack') \in DOMAIN stack /\ Len(stack') < Len(stack)
    BY <1>2, <1>8, <2>1, StackTyped
  <2>3. stack[Len(stack')].items > 0
    BY <2>2 DEF TypeInv, Counted
  <2>4. Last' = stack[Len(stack')]
    BY <1>2, <2>2 DEF Last, Depth
  <2> QED BY <2>3, <2>4
<1>12. Len(syntax'.open) = Len(stack')
  BY <1>5, <1>7
<1>13. (stack' = <<>> => syntax'.next = "end") /\ (stack' # <<>> => syntax'.next = "rest")
  BY <1>5, <1>9
<1> QED BY <1>1, <1>10, <1>11, <1>12, <1>13 DEF Matches
-----------------------------------------------------------------------------
\* For values of any size and depth and any limits, the text is JSON wherever
\* it is cut off, unless an array has both string keys and integer keys.
THEOREM TextIsWellFormed == Spec => []WellFormed
<1> DEFINE Inv == Uniform => Matches
<1>1. Init => Inv
  <2> SUFFICES ASSUME Init PROVE Matches
    OBVIOUS
  <2>1. todo # None
    BY ConstantsAssumption DEF Init, Value, Array, None
  <2> QED BY <2>1 DEF Init, Matches, Begun, Then, TakesValue
<1>2. TypeInv /\ Inv /\ [Next]_vars => Inv'
  <2> SUFFICES ASSUME TypeInv, Inv, [Next]_vars, Uniform' PROVE Matches'
    OBVIOUS
  <2>1. heap' = heap
    BY Zenon DEF Next, vars, TooDeep, PrintPlain, TooLarge, EnterArray, NextItem, EndArray, Truncate, Emit, Return
  <2>2. Uniform
    BY <2>1 DEF Uniform, Mixed
  <2>3. Matches
    BY <2>2
  <2>n. \A v \in Plain : v \notin Marks /\ v # None
    BY ConstantsAssumption
  <2>4. CASE TooDeep
    BY <2>3, <2>4, PrintKeeps DEF TooDeep
  <2>5. CASE PrintPlain
    BY <2>3, <2>5, <2>n, PrintKeeps DEF PrintPlain, Marks
  <2>6. CASE TooLarge
    BY <2>3, <2>6, PrintKeeps DEF TooLarge, Array, None
  <2>7. CASE EnterArray
    <3>1. CASE todo \in visited
      BY <2>3, <2>7, <3>1, PrintKeeps DEF EnterArray, Array, None
    <3>2. CASE todo \notin visited
      BY <2>3, <2>7, <3>2, EnterKeeps
    <3> QED BY <3>1, <3>2
  <2>8. CASE NextItem
    BY <2>2, <2>3, <2>8, NextKeeps
  <2>9. CASE EndArray
    <3>1. todo = None /\ stack # <<>> /\ Last.items = Count(Last.array) /\ Return(out, syntax)
      BY <2>9 DEF EndArray
    <3>2. syntax \in Syntax /\ Last \in Frame
      BY <2>3, <3>1, Innermost DEF TypeInv, SerializerTypeOK
    <3>3. Last.items \in Nat /\ Last.array \in Array
      BY <3>2, ConstantsAssumption DEF Frame
    <3>4. IsAssoc(Last.array) => Last.items > 0
      <4>1. heap[Last.array] \in Seq(Item)
        BY <3>3, ItemsAreItems DEF TypeInv
      <4>2. DOMAIN heap[Last.array] = 1..Last.items
        BY <3>1, <4>1, LenProperties DEF Count
      <4> QED BY <3>3, <4>2 DEF IsAssoc
    <3>5. syntax.next = "rest" \/ (~IsAssoc(Last.array) /\ syntax.next = "firstitem")
      BY <2>3, <3>1, <3>4 DEF Matches
    <3> QED BY <2>3, <3>1, <3>2, <3>5, ReturnKeeps
  <2>10. CASE Truncate
    <3> DEFINE named == IsAssoc(Last.array)
               text  == out \o Before(FALSE, named) \o <<"more">>
               s     == Read(ReadBefore(syntax, FALSE, named), "more")
    <3>1. todo = None /\ stack # <<>> /\ Last.items = MaxItems /\ Return(text, s)
      BY <2>10 DEF Truncate
    <3>2. /\ syntax \in Syntax /\ Last.array \in Array
          /\ syntax.open \in Seq(Bracket) /\ syntax.open # <<>>
          /\ Closes(syntax, Opening(Last.array))
      BY <2>3, <3>1, Innermost DEF TypeInv, SerializerTypeOK, Frame
    <3>3. syntax.next = "rest"
      BY <2>3, <3>1, ConstantsAssumption DEF Matches
    <3>4. ReadBefore(syntax, FALSE, named) = Then(syntax.open, "value")
      <4>1. PICK b \in BOOLEAN : b = named
        BY DEF IsAssoc
      <4>2. ReadBefore(syntax, FALSE, b) = Then(syntax.open, "value")
        BY <3>2, <3>3, <4>1, ReadSeparator
      <4> QED BY <4>1, <4>2
    <3>5. Then(syntax.open, "value") \in Syntax /\ TakesValue(Then(syntax.open, "value"))
      BY <3>2 DEF Then, Syntax, TakesValue
    <3>6. s = Took(syntax.open)
      <4> DEFINE t == Then(syntax.open, "value")
      <4>1. t \in Syntax /\ TakesValue(t) /\ t.open = syntax.open
        BY <3>5 DEF Then
      <4> HIDE DEF t
      <4>2. Read(t, "more") = Took(t.open)
        BY <4>1, ReadValue
      <4> QED BY <3>4, <4>1, <4>2 DEF t
    <3> HIDE DEF s, text
    <3>7. s = [open |-> syntax.open, next |-> "rest"]
      BY <3>2, <3>6 DEF Took, Then
    <3>8. s.open = syntax.open /\ s.next = "rest" /\ s \in Syntax
      BY <3>2, <3>7 DEF Syntax
    <3> QED BY <2>3, <3>1, <3>8, ReturnKeeps
  <2>11. CASE UNCHANGED vars
    BY <2>3, <2>11 DEF vars, Matches, Last, Depth, Opening, IsAssoc, TakesValue
  <2> QED BY <2>4, <2>5, <2>6, <2>7, <2>8, <2>9, <2>10, <2>11 DEF Next
<1>3. TypeInv /\ Inv => WellFormed
  <2> SUFFICES ASSUME TypeInv, Uniform, Matches
               PROVE  syntax.next # "error" /\ (Printed => syntax.next = "end")
    BY DEF WellFormed, Uniform
  <2> QED BY DEF Matches, TakesValue, Printed
<1> QED BY <1>1, <1>2, <1>3, TypeInvHolds, PTL DEF Spec
----------------------------------------------------------------------------
(* Induction over the natural numbers, with a set for the predicate.       *)

LEMMA Least ==
  ASSUME NEW S, S \subseteq Nat, S # {}
  PROVE  \E n \in S : \A m \in S : ~(m < n)
<1> DEFINE R == OpToRel(<, Nat)
<1>1. \E n \in S : \A m \in S : <<m, n>> \notin R
  <2>1. IsWellFoundedOn(R, Nat) BY NatLessThanWellFounded
  <2> HIDE DEF R
  <2> QED BY <2>1, WFMin
<1>2. \A m, n \in Nat : m < n => <<m, n>> \in R BY DEF OpToRel
<1> HIDE DEF R
<1> QED BY <1>1, <1>2

LEMMA Upwards ==
  ASSUME NEW m \in Nat, NEW S, 0 \in S, \A n \in 0..m : n \in S /\ n < m => n + 1 \in S
  PROVE  \A n \in 0..m : n \in S
<1> SUFFICES ASSUME (0..m) \ S # {} PROVE FALSE OBVIOUS
<1>1. (0..m) \ S \subseteq Nat OBVIOUS
<1>2. PICK n \in (0..m) \ S : \A k \in (0..m) \ S : ~(k < n) BY <1>1, Least
<1>3. n # 0 BY <1>2
<1>4. n - 1 \in 0..m /\ n - 1 < n /\ n - 1 < m /\ n - 1 + 1 = n BY <1>3
<1> QED BY <1>2, <1>4
----------------------------------------------------------------------------
(* The recursive definition of a text, as equations.                       *)

Token == Plain \cup Marks
Texts == [Value -> Seq(Token)]

\* What precedes the n-th item of an array.
Lead(a, n) == Before(n = 1, heap[a][n].named)

\* The text of no items is empty, and each item adds its part.
LEMMA ItemsUnfold ==
  ASSUME NEW inner \in Texts, NEW a \in Array, Count(a) \in Nat
  PROVE  /\ Items(inner, a)[0] = <<>>
         /\ \A n \in 1..Count(a) : Items(inner, a)[n] =
              Items(inner, a)[n - 1] \o Lead(a, n) \o inner[heap[a][n].value]
<1> DEFINE F(J, n) == IF n = 0 THEN <<>>
                      ELSE J[n - 1] \o Lead(a, n) \o inner[heap[a][n].value]
           Is(J, m) == J = [n \in 0..m |-> F(J, n)]
           S == {m \in Nat : \E J : Is(J, m)}
<1>1. 0 \in S
  <2> DEFINE J == [n \in 0..0 |-> <<>>]
  <2>1. Is(J, 0) OBVIOUS
  <2>2. \E K : Is(K, 0)
    <3> HIDE DEF J, Is
    <3> QED BY <2>1
  <2> QED BY <2>2
<1>2. ASSUME NEW m \in Nat, m \in S PROVE m + 1 \in S
  <2>1. PICK J : Is(J, m) BY <1>2
  <2> DEFINE K == [n \in 0..m + 1 |-> IF n = m + 1 THEN F(J, n) ELSE J[n]]
  <2>2. Is(K, m + 1)
    <3>1. \A n \in 0..m : J[n] = F(J, n)
      <4> HIDE DEF F
      <4> QED BY <2>1
    <3>2. ASSUME NEW n \in 0..m + 1 PROVE K[n] = F(K, n)
      <4>1. CASE n = m + 1 BY <4>1
      <4>2. CASE n # m + 1 BY <4>2, <3>1
      <4> QED BY <4>1, <4>2
    <3>3. K = [n \in 0..m + 1 |-> K[n]] OBVIOUS
    <3> HIDE DEF K, F
    <3> QED BY <3>2, <3>3
  <2>3. \E L : Is(L, m + 1)
    <3> HIDE DEF K, Is
    <3> QED BY <2>2
  <2> QED BY <2>3
<1>3. Count(a) \in S
  <2>1. \A n \in 0..Count(a) : n \in S
    <3> HIDE DEF S
    <3> QED BY <1>1, <1>2, Upwards
  <2> HIDE DEF S
  <2> QED BY <2>1
<1>4. \E J : Is(J, Count(a)) BY <1>3
<1> DEFINE It == CHOOSE J : Is(J, Count(a))
<1>5. Is(It, Count(a))
  <2> HIDE DEF Is
  <2> QED BY <1>4
<1>6. Items(inner, a) = It BY DEF Items, Lead
<1>7. \A n \in 0..Count(a) : It[n] = F(It, n)
  <2> HIDE DEF F, It
  <2> QED BY <1>5
<1> HIDE DEF It
<1>8. It[0] = <<>> BY <1>7
<1>9. ASSUME NEW n \in 1..Count(a)
      PROVE  It[n] = It[n - 1] \o Lead(a, n) \o inner[heap[a][n].value]
  <2>1. It[n] = F(It, n)
    <3> HIDE DEF F
    <3> QED BY <1>7
  <2>2. n # 0 OBVIOUS
  <2> QED BY ZenonT(30), <2>1, <2>2
<1> QED BY <1>6, <1>8, <1>9

\* A value prints the same way one level further out, unless it is cut off there.
LEMMA RenderedUnfold ==
  /\ \A n \in 0..MaxDepth + 1 : Rendered[n] = [v \in Value |-> Rendered[n][v]]
  /\ \A v \in Value : Rendered[0][v] = <<"depth">>
  /\ \A n \in 1..MaxDepth + 1 : \A v \in Value :
       Rendered[n][v] = IF v \in Plain THEN <<v>>
                     ELSE IF Count(v) > MaxCount THEN <<"large">>
                     ELSE ArrayText(Rendered[n - 1], v)
<1> DEFINE F(P, n) ==
             [v \in Value |->
                IF n = 0 THEN <<"depth">>
                ELSE IF v \in Plain THEN <<v>>
                ELSE IF Count(v) > MaxCount THEN <<"large">>
                ELSE ArrayText(P[n - 1], v)]
           Is(P, m) == P = [n \in 0..m |-> F(P, n)]
           S == {m \in Nat : \E P : Is(P, m)}
<1>0. MaxDepth + 1 \in Nat BY ConstantsAssumption
<1>1. 0 \in S
  <2> DEFINE P == [n \in 0..0 |-> F(<<>>, n)]
  <2>1. Is(P, 0) OBVIOUS
  <2>2. \E Q : Is(Q, 0)
    <3> HIDE DEF P, Is
    <3> QED BY <2>1
  <2> QED BY <2>2
<1>2. ASSUME NEW m \in Nat, m \in S PROVE m + 1 \in S
  <2>1. PICK P : Is(P, m) BY <1>2
  <2> DEFINE Q == [n \in 0..m + 1 |-> IF n = m + 1 THEN F(P, n) ELSE P[n]]
  <2>2. Is(Q, m + 1)
    <3>1. \A n \in 0..m : P[n] = F(P, n)
      <4> HIDE DEF F
      <4> QED BY <2>1
    <3>2. ASSUME NEW n \in 0..m + 1 PROVE Q[n] = F(Q, n)
      <4>1. n # 0 => Q[n - 1] = P[n - 1]
        <5> HIDE DEF F
        <5> QED OBVIOUS
      <4>2. F(Q, n) = F(P, n)
        <5> HIDE DEF Q
        <5>1. CASE n = 0 BY <5>1
        <5>2. CASE n # 0 BY <4>1, <5>2
        <5> QED BY <5>1, <5>2
      <4>3. Q[n] = F(P, n)
        <5> HIDE DEF F
        <5> QED BY <3>1
      <4> QED BY <4>2, <4>3
    <3>3. Q = [n \in 0..m + 1 |-> Q[n]]
      <4> HIDE DEF F
      <4> QED OBVIOUS
    <3> HIDE DEF Q, F
    <3> QED BY <3>2, <3>3
  <2>3. \E L : Is(L, m + 1)
    <3> HIDE DEF Q, Is
    <3> QED BY <2>2
  <2> QED BY <2>3
<1>3. MaxDepth + 1 \in S
  <2>1. \A n \in 0..MaxDepth + 1 : n \in S
    <3> HIDE DEF S
    <3> QED BY <1>0, <1>1, <1>2, Upwards
  <2> HIDE DEF S
  <2> QED BY <1>0, <2>1
<1>4. \E P : Is(P, MaxDepth + 1) BY <1>3
<1> DEFINE It == CHOOSE P : Is(P, MaxDepth + 1)
<1>5. Is(It, MaxDepth + 1)
  <2> HIDE DEF Is
  <2> QED BY <1>4
<1>6. Rendered = It BY DEF Rendered
<1>7. \A n \in 0..MaxDepth + 1 : It[n] = F(It, n)
  <2> HIDE DEF F, It
  <2> QED BY <1>5
<1> HIDE DEF It
<1>8. \A v \in Value : Rendered[0][v] = <<"depth">>
  <2>1. It[0] = F(It, 0)
    <3> HIDE DEF F
    <3> QED BY <1>0, <1>7
  <2>2. ASSUME NEW v \in Value PROVE F(It, 0)[v] = <<"depth">> OBVIOUS
  <2> HIDE DEF F
  <2> QED BY <1>6, <2>1, <2>2
<1>9. ASSUME NEW n \in 1..MaxDepth + 1, NEW v \in Value
      PROVE  Rendered[n][v] = IF v \in Plain THEN <<v>>
                           ELSE IF Count(v) > MaxCount THEN <<"large">>
                           ELSE ArrayText(Rendered[n - 1], v)
  <2>1. It[n] = F(It, n)
    <3> HIDE DEF F
    <3> QED BY <1>0, <1>7
  <2>2. n # 0 BY <1>0
  <2> QED BY <1>6, <2>1, <2>2
<1>10. ASSUME NEW n \in 0..MaxDepth + 1 PROVE Rendered[n] = [v \in Value |-> Rendered[n][v]]
  <2>1. It[n] = F(It, n)
    <3> HIDE DEF F
    <3> QED BY <1>7
  <2> QED BY <1>6, <2>1
<1> QED BY <1>8, <1>9, <1>10

\* What an array makes of its items, between its brackets.
LEMMA ArrayTextUnfold ==
  ASSUME NEW inner \in Texts, NEW a \in Array, Count(a) \in Nat
  PROVE  \E n \in 0..Count(a) :
           /\ n = IF Count(a) > MaxItems THEN MaxItems ELSE Count(a)
           /\ ArrayText(inner, a) =
                <<Opening(a)>> \o Items(inner, a)[n] \o Note(a) \o <<Closing(a)>>
<1> DEFINE n == IF Count(a) > MaxItems THEN MaxItems ELSE Count(a)
<1>1. n \in 0..Count(a) BY ConstantsAssumption
<1>2. ArrayText(inner, a) =
        <<Opening(a)>> \o Items(inner, a)[n] \o Note(a) \o <<Closing(a)>>
  BY DEF ArrayText
<1> QED
  <2> WITNESS n \in 0..Count(a)
  <2> QED BY <1>2

LEMMA MarksTyped ==
  ASSUME NEW a \in Array
  PROVE  /\ <<Opening(a)>> \in Seq(Token) /\ <<Closing(a)>> \in Seq(Token)
         /\ Note(a) \in Seq(Token)
<1>1. Opening(a) \in Token /\ Closing(a) \in Token /\ "more" \in Token
  BY MarksAreMarks DEF Token, Marks
<1>2. Before(FALSE, IsAssoc(a)) \in Seq(Token) BY BeforeTyped DEF Token
<1>3. Before(FALSE, IsAssoc(a)) \o <<"more">> \in Seq(Token)
  <2>1. \A s, u \in Seq(Token) : s \o u \in Seq(Token) OBVIOUS
  <2>2. <<"more">> \in Seq(Token) BY <1>1
  <2> QED BY <1>2, <2>1, <2>2
<1>4. Note(a) \in Seq(Token)
  <2>1. CASE Count(a) > MaxItems BY <1>3, <2>1 DEF Note
  <2>2. CASE ~(Count(a) > MaxItems)
    <3>1. <<>> \in Seq(Token) OBVIOUS
    <3>2. Note(a) = <<>> BY <2>2 DEF Note
    <3> QED BY <3>1, <3>2
  <2> QED BY <2>1, <2>2
<1> QED BY <1>1, <1>4

LEMMA ItemsTyped ==
  ASSUME heap \in Heaps, NEW a \in Array, NEW inner \in Texts
  PROVE  \A n \in 0..Count(a) : Items(inner, a)[n] \in Seq(Token)
<1> DEFINE S == {n \in 0..Count(a) : Items(inner, a)[n] \in Seq(Token)}
<1>1. Count(a) \in Nat /\ \A i \in 1..Count(a) : heap[a][i] \in Item BY ItemsAreItems
<1>2. Items(inner, a)[0] = <<>> BY <1>1, ItemsUnfold
<1>3. 0 \in S
  <2>1. <<>> \in Seq(Token) OBVIOUS
  <2>2. Items(inner, a)[0] \in Seq(Token) BY <1>2, <2>1
  <2>3. 0 \in 0..Count(a) BY <1>1
  <2> QED BY <2>2, <2>3
<1>4. ASSUME NEW n \in 0..Count(a), n \in S, n < Count(a) PROVE n + 1 \in S
  <2>1. n + 1 \in 1..Count(a) /\ n + 1 - 1 = n BY <1>1, <1>4
  <2>2. Lead(a, n + 1) \in Seq(Token) BY BeforeTyped DEF Token, Lead
  <2>3. inner[heap[a][n + 1].value] \in Seq(Token)
    <3>1. heap[a][n + 1].value \in Value BY <1>1, <2>1 DEF Item
    <3> QED BY <3>1 DEF Texts
  <2>4. Items(inner, a)[n] \in Seq(Token) BY <1>4
  <2>5. Items(inner, a)[n + 1] =
          Items(inner, a)[n] \o Lead(a, n + 1) \o inner[heap[a][n + 1].value]
    <3> DEFINE k == n + 1
    <3>1. k \in 1..Count(a) /\ k - 1 = n BY <2>1
    <3> HIDE DEF k
    <3>2. Items(inner, a)[k] = Items(inner, a)[k - 1] \o Lead(a, k) \o inner[heap[a][k].value]
      BY <1>1, <3>1, ItemsUnfold
    <3>3. Items(inner, a)[k] = Items(inner, a)[n] \o Lead(a, k) \o inner[heap[a][k].value]
      BY <3>1, <3>2
    <3> QED BY <3>3 DEF k
  <2>6. Items(inner, a)[n + 1] \in Seq(Token)
    <3>1. \A s, t, u \in Seq(Token) : s \o t \o u \in Seq(Token) OBVIOUS
    <3> QED BY <2>2, <2>3, <2>4, <2>5, <3>1
  <2> QED BY <2>1, <2>6
<1>5. \A n \in 0..Count(a) : n \in S
  <2> HIDE DEF S
  <2> QED BY <1>1, <1>3, <1>4, Upwards
<1> QED BY <1>5

LEMMA RenderedTyped ==
  ASSUME heap \in Heaps
  PROVE  \A n \in 0..MaxDepth + 1 : Rendered[n] \in Texts
<1> DEFINE S == {n \in 0..MaxDepth + 1 : Rendered[n] \in Texts}
<1>1. MaxDepth + 1 \in Nat BY ConstantsAssumption
<1>2. "depth" \in Token /\ "large" \in Token /\ \A v \in Plain : v \in Token BY DEF Token, Marks
<1>3. \A t \in Token : <<t>> \in Seq(Token) OBVIOUS
<1>4. 0 \in S
  <2>1. \A v \in Value : Rendered[0][v] = <<"depth">> BY RenderedUnfold
  <2>2. \A v \in Value : Rendered[0][v] \in Seq(Token) BY <1>2, <1>3, <2>1
  <2>3. 0 \in 0..MaxDepth + 1 BY <1>1
  <2>4. Rendered[0] = [v \in Value |-> Rendered[0][v]] BY <2>3, RenderedUnfold
  <2> QED BY <2>2, <2>3, <2>4 DEF Texts
<1>5. ASSUME NEW n \in 0..MaxDepth + 1, n \in S, n < MaxDepth + 1 PROVE n + 1 \in S
  <2>1. n + 1 \in 1..MaxDepth + 1 /\ n + 1 - 1 = n BY <1>1, <1>5
  <2>2. Rendered[n] \in Texts BY <1>5
  <2>3. ASSUME NEW v \in Value PROVE Rendered[n + 1][v] \in Seq(Token)
    <3>1. Rendered[n + 1][v] = IF v \in Plain THEN <<v>>
                            ELSE IF Count(v) > MaxCount THEN <<"large">>
                            ELSE ArrayText(Rendered[n + 1 - 1], v)
      BY <2>1, RenderedUnfold
    <3>2. CASE v \in Plain BY <1>2, <1>3, <3>1, <3>2
    <3>3. CASE v \notin Plain /\ Count(v) > MaxCount BY <1>2, <1>3, <3>1, <3>3
    <3>4. CASE v \notin Plain /\ ~(Count(v) > MaxCount)
      <4>1. v \in Array BY <3>4 DEF Value
      <4>2. Count(v) \in Nat BY <4>1, ItemsAreItems
      <4>3. PICK k \in 0..Count(v) :
              ArrayText(Rendered[n], v) =
                <<Opening(v)>> \o Items(Rendered[n], v)[k] \o Note(v) \o <<Closing(v)>>
        BY <2>2, <4>1, <4>2, ArrayTextUnfold
      <4>4. Items(Rendered[n], v)[k] \in Seq(Token) BY <2>2, <4>1, ItemsTyped
      <4>5. \A s, t, u, w \in Seq(Token) : s \o t \o u \o w \in Seq(Token) OBVIOUS
      <4>6. ArrayText(Rendered[n], v) \in Seq(Token) BY <4>1, <4>3, <4>4, <4>5, MarksTyped
      <4> QED BY <2>1, <3>1, <3>4, <4>6
    <3> QED BY <3>2, <3>3, <3>4
  <2>4. n + 1 \in 0..MaxDepth + 1 BY <2>1
  <2>5. Rendered[n + 1] = [v \in Value |-> Rendered[n + 1][v]] BY <2>4, RenderedUnfold
  <2> QED BY <2>3, <2>4, <2>5 DEF Texts
<1>6. \A n \in 0..MaxDepth + 1 : n \in S
  <2> HIDE DEF S
  <2> QED BY <1>1, <1>4, <1>5, Upwards
<1> QED BY <1>6
----------------------------------------------------------------------------
(* How the text of an array comes to be, item by item.                     *)

\* The text of an array in the d-th call before its k-th item is followed by another.
Reached ==
  [d \in 1..MaxDepth + 1 |-> [a \in Array |-> [k \in Nat |->
     <<Opening(a)>> \o Items(Rendered[MaxDepth + 1 - d], a)[k]]]]
Ahead == [a \in Array |-> [k \in Nat |-> Lead(a, k)]]

LEMMA SameTexts ==
  ASSUME heap' = heap
  PROVE  Reached' = Reached /\ Ahead' = Ahead /\ Rendered' = Rendered
<1>1. Rendered' = Rendered
  BY DEF Rendered, ArrayText, Items, Note, Count, IsAssoc, Opening, Closing
<1>2. Reached' = Reached
  <2> HIDE DEF Rendered
  <2> QED BY <1>1 DEF Reached, Opening, IsAssoc, Items, Count
<1>3. Ahead' = Ahead BY DEF Ahead, Lead
<1> QED BY <1>1, <1>2, <1>3

LEMMA Joined ==
  ASSUME NEW s \in Seq(Token), NEW t \in Seq(Token)
  PROVE  s \o t \in Seq(Token)
BY ConcatProperties

LEMMA Pieced ==
  ASSUME NEW s \in Seq(Token), NEW t \in Seq(Token), NEW u \in Seq(Token)
  PROVE  s \o (t \o u) = (s \o t) \o u
BY SMTT(30), ConcatAssociative

LEMMA ReachedTyped ==
  ASSUME heap \in Heaps, NEW d \in 1..MaxDepth + 1, NEW a \in Array, NEW k \in 0..Count(a)
  PROVE  Reached[d][a][k] \in Seq(Token) /\ Ahead[a][k] \in Seq(Token)
<1>1. MaxDepth + 1 - d \in 0..MaxDepth + 1 BY ConstantsAssumption
<1>2. Rendered[MaxDepth + 1 - d] \in Texts BY <1>1, RenderedTyped
<1>3. Items(Rendered[MaxDepth + 1 - d], a)[k] \in Seq(Token) BY <1>2, ItemsTyped
<1>4. k \in Nat BY ItemsAreItems
<1>5. Reached[d][a][k] = <<Opening(a)>> \o Items(Rendered[MaxDepth + 1 - d], a)[k]
  BY <1>4 DEF Reached
<1>6. Reached[d][a][k] \in Seq(Token) BY <1>3, <1>5, MarksTyped, Joined
<1>7. Ahead[a][k] \in Seq(Token) BY <1>4, BeforeTyped DEF Ahead, Lead, Token
<1> QED BY <1>6, <1>7

LEMMA ReachedFirst ==
  ASSUME heap \in Heaps, NEW d \in 1..MaxDepth + 1, NEW a \in Array
  PROVE  Reached[d][a][0] = <<Opening(a)>>
<1>1. MaxDepth + 1 - d \in 0..MaxDepth + 1 BY ConstantsAssumption
<1>2. Rendered[MaxDepth + 1 - d] \in Texts BY <1>1, RenderedTyped
<1>3. Items(Rendered[MaxDepth + 1 - d], a)[0] = <<>> BY <1>2, ItemsAreItems, ItemsUnfold
<1>4. Reached[d][a][0] = <<Opening(a)>> \o <<>> BY <1>3 DEF Reached
<1>5. <<Opening(a)>> \in Seq(Token) BY MarksTyped
<1> QED BY <1>4, <1>5, ConcatEmptySeq

\* One more item: what precedes it, and its own text.
LEMMA ReachedNext ==
  ASSUME heap \in Heaps, NEW d \in 1..MaxDepth + 1, NEW a \in Array, NEW k \in 1..Count(a)
  PROVE  /\ Rendered[MaxDepth + 1 - d][heap[a][k].value] \in Seq(Token)
         /\ Reached[d][a][k] =
              (Reached[d][a][k - 1] \o Ahead[a][k]) \o Rendered[MaxDepth + 1 - d][heap[a][k].value]
<1> DEFINE inner == Rendered[MaxDepth + 1 - d]
           s == Items(inner, a)[k - 1]
           t == Lead(a, k)
           u == inner[heap[a][k].value]
<1>1. MaxDepth + 1 - d \in 0..MaxDepth + 1 BY ConstantsAssumption
<1>2. inner \in Texts BY <1>1, RenderedTyped
<1>3. Count(a) \in Nat /\ heap[a][k].value \in Value BY ItemsAreItems DEF Item
<1>4. k \in Nat /\ k - 1 \in Nat /\ k - 1 \in 0..Count(a) BY <1>3
<1>5. u \in Seq(Token) BY <1>2, <1>3 DEF Texts
<1>6. s \in Seq(Token)
  <2> HIDE DEF inner
  <2> QED BY <1>2, <1>4, ItemsTyped
<1>7. t \in Seq(Token) BY BeforeTyped DEF Token, Lead
<1>8. Items(inner, a)[k] = (s \o t) \o u
  <2> HIDE DEF inner
  <2> QED BY <1>2, <1>3, ItemsUnfold
<1>9. Reached[d][a][k] = <<Opening(a)>> \o Items(inner, a)[k]
  BY <1>4 DEF Reached
<1>10. Reached[d][a][k - 1] = <<Opening(a)>> \o s
  BY <1>4 DEF Reached
<1>11. Ahead[a][k] = t BY <1>4 DEF Ahead
<1>12. <<Opening(a)>> \in Seq(Token) BY MarksTyped
<1> HIDE DEF s, t, u
<1>13. <<Opening(a)>> \o ((s \o t) \o u) = (<<Opening(a)>> \o (s \o t)) \o u
  <2> DEFINE v == s \o t
  <2>1. v \in Seq(Token) BY <1>6, <1>7, Joined
  <2> HIDE DEF v
  <2>2. <<Opening(a)>> \o (v \o u) = (<<Opening(a)>> \o v) \o u BY <1>5, <1>12, <2>1, Pieced
  <2> QED BY <2>2 DEF v
<1>14. <<Opening(a)>> \o (s \o t) = (<<Opening(a)>> \o s) \o t
  BY <1>6, <1>7, <1>12, Pieced
<1>15. Reached[d][a][k] = (Reached[d][a][k - 1] \o Ahead[a][k]) \o u
  BY <1>8, <1>9, <1>10, <1>11, <1>13, <1>14
<1> QED BY <1>5, <1>15 DEF u

\* The note of what is left, and the closing bracket, complete the text.
LEMMA ReachedEnd ==
  ASSUME heap \in Heaps, NEW d \in 1..MaxDepth + 1, NEW a \in Array, ~(Count(a) > MaxCount)
  PROVE  \E n \in 0..Count(a) :
           /\ n = IF Count(a) > MaxItems THEN MaxItems ELSE Count(a)
           /\ \A p \in Seq(Token) :
                ((p \o Reached[d][a][n]) \o Note(a)) \o <<Closing(a)>>
                  = p \o Rendered[MaxDepth + 1 - (d - 1)][a]
<1> DEFINE e == MaxDepth + 1 - (d - 1)
           inner == Rendered[MaxDepth + 1 - d]
<1>1. /\ MaxDepth + 1 - d \in 0..MaxDepth + 1 /\ e \in 1..MaxDepth + 1
      /\ e - 1 = MaxDepth + 1 - d
  BY ConstantsAssumption
<1>2. inner \in Texts BY <1>1, RenderedTyped
<1>3. Count(a) \in Nat BY ItemsAreItems
<1>4. a \in Value /\ a \notin Plain BY ConstantsAssumption DEF Value
<1>5. Rendered[e][a] = ArrayText(inner, a)
  <2> HIDE DEF e
  <2>1. Rendered[e][a] = ArrayText(Rendered[e - 1], a) BY <1>1, <1>4, RenderedUnfold
  <2> QED BY <1>1, <2>1
<1>6. PICK n \in 0..Count(a) :
        /\ n = IF Count(a) > MaxItems THEN MaxItems ELSE Count(a)
        /\ ArrayText(inner, a) = <<Opening(a)>> \o Items(inner, a)[n] \o Note(a) \o <<Closing(a)>>
  <2> HIDE DEF inner
  <2> QED BY <1>2, <1>3, ArrayTextUnfold
<1>7. Reached[d][a][n] = <<Opening(a)>> \o Items(inner, a)[n]
  BY <1>3 DEF Reached
<1>8. Rendered[e][a] = (Reached[d][a][n] \o Note(a)) \o <<Closing(a)>>
  BY <1>5, <1>6, <1>7
<1>9. ASSUME NEW p \in Seq(Token)
      PROVE  ((p \o Reached[d][a][n]) \o Note(a)) \o <<Closing(a)>> = p \o Rendered[e][a]
  <2> DEFINE r == Reached[d][a][n]
             u == Note(a)
             c == <<Closing(a)>>
  <2>1. r \in Seq(Token) /\ u \in Seq(Token) /\ c \in Seq(Token) BY ReachedTyped, MarksTyped
  <2>2. Rendered[e][a] = (r \o u) \o c BY <1>8
  <2> HIDE DEF r, u, c, e
  <2>3. p \o (r \o u) = (p \o r) \o u BY ZenonT(40), <2>1, Pieced
  <2>4. r \o u \in Seq(Token) BY <2>1, Joined
  <2> DEFINE v == r \o u
  <2>5. v \in Seq(Token) BY <2>4
  <2> HIDE DEF v
  <2>6. p \o (v \o c) = (p \o v) \o c BY ZenonT(40), <2>1, <2>5, Pieced
  <2>7. p \o Rendered[e][a] = ((p \o r) \o u) \o c BY <2>2, <2>3, <2>6 DEF v
  <2> QED BY <2>7 DEF r, u, c
<1> QED BY <1>6, <1>9
----------------------------------------------------------------------------
(* The text so far is that of the arrays on the way, each up to the item   *)
(* that is being printed.                                                  *)

\* What the i-th call has been given by the one before, or as the argument.
HandedOn(i) == IF i = 0 THEN top ELSE heap[stack[i].array][stack[i].items].value

\* The way leads from each array to the one its counted item is, so always on
\* to later arrays, and through no array that is too large.
Way ==
  /\ \A i, j \in DOMAIN stack : i < j => stack[i].array < stack[j].array
  /\ \A i \in DOMAIN stack :
       /\ ~(Count(stack[i].array) > MaxCount)
       /\ stack[i].items <= Count(stack[i].array)
       /\ stack[i].array = HandedOn(i - 1)
  /\ todo # None => todo = HandedOn(Len(stack))

\* pre[i] is what had been printed when the i-th call was made.
Pieces(pre) ==
  /\ pre[1] = <<>>
  /\ \A i \in DOMAIN stack : (i < Len(stack) \/ todo # None) =>
       pre[i + 1] = (pre[i] \o Reached[i][stack[i].array][stack[i].items - 1])
                      \o Ahead[stack[i].array][stack[i].items]
  /\ todo # None => out = pre[Len(stack) + 1]
  /\ todo = None /\ stack # <<>> =>
       out = pre[Len(stack)] \o Reached[Len(stack)][Last.array][Last.items]
  /\ todo = None /\ stack = <<>> => out = Text

Assembled == \E pre \in [1..Len(stack) + 1 -> Seq(Token)] : Pieces(pre)

\* A later array is entered each time, so none that is being printed.
LEMMA NeverCircular ==
  ASSUME TypeInv, Way, todo \in Array
  PROVE  /\ \A i \in DOMAIN stack : stack[i].array < todo
         /\ todo \notin visited
<1>1. \A i \in DOMAIN stack : stack[i] \in Frame /\ stack[i].array \in Array
  BY StackTyped
<1>2. Len(stack) \in Nat /\ DOMAIN stack = 1..Len(stack) BY StackTyped
<1>3. todo # None /\ todo = HandedOn(Len(stack)) BY DEF Way, None, Array
<1>4. ASSUME NEW i \in DOMAIN stack PROVE stack[i].array < todo
  <2> DEFINE n == Len(stack)
             a == stack[n].array
  <2>1. n \in DOMAIN stack /\ n # 0 BY <1>2
  <2>2. a \in Array /\ stack[n].items \in Nat BY <1>1, <2>1, ConstantsAssumption DEF Frame
  <2>3. stack[n].items > 0 BY <1>2, <1>3, <2>1 DEF TypeInv, Counted
  <2>4. stack[n].items <= Count(a) BY <2>1 DEF Way
  <2>5. stack[n].items \in 1..Count(a) BY <2>2, <2>3, <2>4, ItemsAreItems DEF TypeInv
  <2>6. todo = heap[a][stack[n].items].value BY <1>3, <2>1 DEF HandedOn
  <2>7. DOMAIN heap[a] = 1..Count(a) BY <2>2, ItemsAreItems, LenProperties DEF TypeInv, Count
  <2>8. a < todo
    <3>1. \A k \in DOMAIN heap[a] : heap[a][k].value \in Array => heap[a][k].value > a
      BY <2>2, ConstantsAssumption DEF TypeInv
    <3>2. todo > a BY <2>5, <2>6, <2>7, <3>1
    <3> QED BY <2>2, <3>2 DEF Array
  <2>9. CASE i = n BY <2>8, <2>9
  <2>10. CASE i # n
    <3>1. i < n BY <1>2, <2>10
    <3>2. stack[i].array < a BY <2>1, <3>1 DEF Way
    <3>3. stack[i].array \in Nat /\ a \in Nat /\ todo \in Nat BY <1>1, <2>2 DEF Array
    <3> QED BY <2>8, <3>2, <3>3
  <2> QED BY <2>9, <2>10
<1>5. todo \notin visited
  <2>1. visited = {stack[i].array : i \in DOMAIN stack} BY DEF TypeInv, SerializerTypeOK
  <2>2. \A i \in DOMAIN stack : stack[i].array # todo
    <3>1. \A i \in DOMAIN stack : stack[i].array \in Nat BY <1>1 DEF Array
    <3> QED BY <1>4, <3>1
  <2> QED BY <2>1, <2>2
<1> QED BY <1>4, <1>5

LEMMA WayKept ==
  ASSUME TypeInv, Way, [Next]_vars
  PROVE  Way'
<1>0. heap' = heap /\ top' = top
  BY DEF Next, TooDeep, PrintPlain, TooLarge, EnterArray, NextItem, EndArray, Truncate,
         Return, Emit, vars
<1>1. /\ stack \in Seq(Frame) /\ Len(stack) \in Nat /\ DOMAIN stack = 1..Len(stack)
      /\ \A i \in DOMAIN stack : stack[i] \in Frame /\ stack[i].array \in Array
  BY StackTyped
<1>s. ASSUME stack' = stack, todo' = None \/ todo' = todo PROVE Way'
  BY <1>0, <1>s DEF Way, HandedOn, Count
<1>p. ASSUME NEW token, Emit(token) PROVE Way' BY <1>p, <1>s DEF Emit
<1>2. CASE EnterArray
  <2>1. CASE todo \in visited BY <1>2, <1>p, <2>1 DEF EnterArray
  <2>2. CASE todo \notin visited
    <3> DEFINE f == [array |-> todo, items |-> 0]
               n == Len(stack)
    <3>1. /\ todo \in Array /\ f \in Frame /\ stack' = Append(stack, f) /\ todo' = None
          /\ ~(Count(todo) > MaxCount) /\ f.array = todo /\ f.items = 0
      <4>1. todo \in Array /\ Count(todo) <= MaxCount /\ stack' = Append(stack, f) /\ todo' = None
        BY <1>2, <2>2 DEF EnterArray
      <4>2. Count(todo) \in Nat BY <4>1, ItemsAreItems DEF TypeInv
      <4> QED BY <4>1, <4>2, ConstantsAssumption DEF Frame
    <3> HIDE DEF f
    <3>2. /\ \A i \in 1..n : stack'[i] = stack[i]
          /\ stack'[n + 1] = f /\ DOMAIN stack' = 1..n + 1 /\ Len(stack') = n + 1
      BY <1>1, <3>1, Pushed
    <3>3. \A i \in 1..n : stack[i].array < todo BY <1>1, <3>1, NeverCircular
    <3>4. \A i, j \in DOMAIN stack' : i < j => stack'[i].array < stack'[j].array
      <4>1. ASSUME NEW i \in 1..n + 1, NEW j \in 1..n + 1, i < j
            PROVE  stack'[i].array < stack'[j].array
        <5>1. i \in 1..n BY <1>1, <4>1
        <5>2. CASE j = n + 1 BY <3>1, <3>2, <3>3, <5>1, <5>2
        <5>3. CASE j # n + 1
          <6>1. j \in 1..n BY <1>1, <5>3
          <6>2. stack[i].array < stack[j].array BY <1>1, <4>1, <5>1, <6>1 DEF Way
          <6> QED BY <3>2, <5>1, <6>1, <6>2
        <5> QED BY <5>2, <5>3
      <4> QED BY <3>2, <4>1
    <3>5. ASSUME NEW i \in DOMAIN stack'
          PROVE  /\ ~(Count(stack[i].array) > MaxCount)'
                 /\ (stack[i].items <= Count(stack[i].array))'
                 /\ stack'[i].array = HandedOn(i - 1)'
      <4>1. HandedOn(i - 1)' = HandedOn(i - 1)
        <5>1. i - 1 = 0 \/ i - 1 \in 1..n BY <1>1, <3>2
        <5> QED BY <1>0, <3>2, <5>1 DEF HandedOn
      <4>2. CASE i \in 1..n
        <5>1. stack'[i] = stack[i] BY <3>2, <4>2
        <5>2. /\ ~(Count(stack[i].array) > MaxCount) /\ stack[i].items <= Count(stack[i].array)
              /\ stack[i].array = HandedOn(i - 1)
          BY <1>1, <4>2 DEF Way
        <5> QED BY <1>0, <4>1, <5>1, <5>2 DEF Count
      <4>3. CASE i \notin 1..n
        <5>1. i = n + 1 /\ i - 1 = n BY <1>1, <3>2, <4>3
        <5>2. todo = HandedOn(n) BY <3>1 DEF Way, None, Array
        <5>3. stack'[i].array = todo /\ stack'[i].items = 0 BY <3>1, <3>2, <5>1
        <5>4. Count(todo) \in Nat BY <3>1, ItemsAreItems DEF TypeInv
        <5>5. Count(stack[i].array)' = Count(todo) BY <1>0, <5>3 DEF Count
        <5>6. (stack[i].items <= Count(stack[i].array))' BY <5>3, <5>4, <5>5
        <5>7. ~(Count(stack[i].array) > MaxCount)' BY <3>1, <5>5
        <5>8. stack'[i].array = HandedOn(i - 1)' BY <4>1, <5>1, <5>2, <5>3
        <5> QED BY <5>6, <5>7, <5>8
      <4> QED BY <4>2, <4>3
    <3> QED BY <3>1, <3>4, <3>5 DEF Way
  <2> QED BY <2>1, <2>2
<1>3. CASE NextItem
  <2> DEFINE n == Len(stack)
  <2>1. /\ Last \in Frame /\ n \in Nat \ {0} /\ Len(stack') = n
        /\ DOMAIN stack' = DOMAIN stack
        /\ \A i \in DOMAIN stack : stack'[i].array = stack[i].array
        /\ \A i \in DOMAIN stack : i # n => stack'[i].items = stack[i].items
        /\ stack'[n].items = Last.items + 1
    BY <1>3, Stepped
  <2>2. todo' = heap[Last.array][Last.items + 1].value /\ Last.items < Count(Last.array)
    BY <1>3 DEF NextItem
  <2>3. \A i, j \in DOMAIN stack' : i < j => stack'[i].array < stack'[j].array
    BY <2>1 DEF Way
  <2>4. ASSUME NEW i \in DOMAIN stack'
        PROVE  /\ ~(Count(stack[i].array) > MaxCount)'
               /\ (stack[i].items <= Count(stack[i].array))'
               /\ stack'[i].array = HandedOn(i - 1)'
    <3>1. i \in 1..n /\ stack'[i].array = stack[i].array BY <1>1, <2>1
    <3>2. Count(stack[i].array)' = Count(stack[i].array) BY <1>0, <3>1 DEF Count
    <3>3. /\ ~(Count(stack[i].array) > MaxCount) /\ stack[i].items <= Count(stack[i].array)
          /\ stack[i].array = HandedOn(i - 1)
      BY <1>1, <3>1 DEF Way
    <3>4. HandedOn(i - 1)' = HandedOn(i - 1)
      <4>1. i - 1 = 0 \/ (i - 1 \in 1..n /\ i - 1 # n) BY <2>1, <3>1
      <4> QED BY <1>0, <1>1, <2>1, <4>1 DEF HandedOn
    <3>5. (stack[i].items <= Count(stack[i].array))'
      <4>1. CASE i = n
        <5>1. Last.items \in Nat BY <2>1, ConstantsAssumption DEF Frame
        <5>2. Count(Last.array) \in Nat BY <2>1, ItemsAreItems DEF TypeInv, Frame
        <5>3. Last.items + 1 <= Count(Last.array) BY <2>2, <5>1, <5>2
        <5>4. stack[i] = Last BY <4>1 DEF Last, Depth
        <5> QED BY <2>1, <3>2, <4>1, <5>3, <5>4
      <4>2. CASE i # n BY <1>1, <2>1, <3>1, <3>2, <3>3, <4>2
      <4> QED BY <4>1, <4>2
    <3> QED BY <3>1, <3>2, <3>3, <3>4, <3>5
  <2>5. todo' = HandedOn(Len(stack))'
    <3>1. n \in DOMAIN stack /\ stack[n] = Last BY <1>1, <2>1 DEF Last, Depth
    <3>2. stack'[n].array = Last.array BY <2>1, <3>1
    <3>3. HandedOn(Len(stack))' = heap[Last.array][Last.items + 1].value
      BY <1>0, <2>1, <3>2 DEF HandedOn
    <3> QED BY <2>2, <3>3
  <2> QED BY <2>3, <2>4, <2>5 DEF Way
<1>r. ASSUME NEW text, NEW s, todo = None, stack # <<>>, Return(text, s) PROVE Way'
  <2>1. todo' = None /\ stack' = SubSeq(stack, 1, Depth - 1) /\ visited' = visited \ {Last.array}
    BY <1>r DEF Return
  <2>2. stack' \in Seq(Frame) /\ Len(stack') = Len(stack) - 1 /\ Len(stack) \in Nat \ {0}
        /\ \A i \in DOMAIN stack' : stack'[i] = stack[i]
    BY <1>r, <2>1, Popped
  <2>3. DOMAIN stack' = 1..Len(stack) - 1 BY <2>2, LenProperties
  <2>4. \A i \in DOMAIN stack' : i \in DOMAIN stack BY <1>1, <2>2, <2>3
  <2>5. \A i \in DOMAIN stack' : HandedOn(i - 1)' = HandedOn(i - 1)
    <3>1. \A i \in DOMAIN stack' : i - 1 = 0 \/ i - 1 \in DOMAIN stack' BY <2>2, <2>3
    <3> QED BY <1>0, <2>2, <3>1 DEF HandedOn
  <2>6. \A i \in DOMAIN stack' : Count(stack[i].array)' = Count(stack[i].array)
    BY <1>0, <2>2 DEF Count
  <2> QED BY <2>1, <2>2, <2>4, <2>5, <2>6 DEF Way
<1>4. CASE EndArray BY <1>4, <1>r DEF EndArray
<1>5. CASE Truncate BY <1>5, <1>r DEF Truncate
<1>6. CASE TooDeep BY <1>6, <1>p DEF TooDeep
<1>7. CASE PrintPlain BY <1>7, <1>p DEF PrintPlain
<1>8. CASE TooLarge BY <1>8, <1>p DEF TooLarge
<1>9. CASE UNCHANGED vars BY <1>9, <1>s DEF vars
<1> QED BY <1>2, <1>3, <1>4, <1>5, <1>6, <1>7, <1>8, <1>9 DEF Next

\* A call that waits for the text of an item has counted it.
LEMMA Waiting ==
  ASSUME TypeInv, Way, NEW i \in DOMAIN stack, i < Len(stack) \/ todo # None
  PROVE  /\ i \in 1..MaxDepth + 1 /\ stack[i].array \in Array
         /\ stack[i].items \in 1..Count(stack[i].array)
<1>1. Len(stack) \in Nat /\ DOMAIN stack = 1..Len(stack) /\ stack[i] \in Frame /\ stack[i].array \in Array
  BY StackTyped
<1>2. Len(stack) <= MaxDepth + 1 BY DEF TypeInv, SerializerTypeOK
<1>3. i \in 1..MaxDepth + 1 BY <1>1, <1>2, ConstantsAssumption
<1>4. stack[i].items > 0 BY DEF TypeInv, Counted
<1>5. stack[i].items <= Count(stack[i].array) BY DEF Way
<1>6. stack[i].items \in Nat BY <1>1, ConstantsAssumption DEF Frame
<1>7. Count(stack[i].array) \in Nat BY <1>1, ItemsAreItems DEF TypeInv
<1> QED BY <1>1, <1>3, <1>4, <1>5, <1>6, <1>7

\* When the value handed on by the n-th call is printed, that call has one item more.
LEMMA Delivered ==
  ASSUME TypeInv, Way, NEW n \in 0..Len(stack), n < Len(stack) \/ todo # None,
         NEW pre \in [1..Len(stack) + 1 -> Seq(Token)], Pieces(pre)
  PROVE  pre[n + 1] \o Rendered[MaxDepth + 1 - n][HandedOn(n)] =
           IF n = 0 THEN Text
           ELSE pre[n] \o Reached[n][stack[n].array][stack[n].items]
<1>0. Len(stack) \in Nat /\ DOMAIN stack = 1..Len(stack) BY StackTyped
<1>1. CASE n = 0
  <2>1. pre[n + 1] = <<>>
    <3>1. pre[1] = <<>> BY Zenon DEF Pieces
    <3>2. n + 1 = 1 BY <1>1
    <3> QED BY <3>1, <3>2
  <2>2. Rendered[MaxDepth + 1 - n][HandedOn(n)] = Text
    <3>1. MaxDepth + 1 - n = MaxDepth + 1 BY <1>1, ConstantsAssumption
    <3>2. HandedOn(n) = top BY <1>1 DEF HandedOn
    <3> QED BY <3>1, <3>2 DEF Text
  <2>3. Text \in Seq(Token)
    <3>1. MaxDepth + 1 \in 0..MaxDepth + 1 BY ConstantsAssumption
    <3>2. top \in Value BY DEF TypeInv, SerializerTypeOK
    <3>3. Rendered[MaxDepth + 1] \in Texts BY <3>1, RenderedTyped DEF TypeInv
    <3> QED BY <3>2, <3>3 DEF Texts, Text
  <2>4. <<>> \o Text = Text BY <2>3, ConcatEmptySeq
  <2> QED BY <1>1, <2>1, <2>2, <2>4
<1>2. CASE n # 0
  <2> DEFINE a == stack[n].array
             k == stack[n].items
             r == Reached[n][a][k - 1]
             u == Rendered[MaxDepth + 1 - n][heap[a][k].value]
  <2>1. n \in DOMAIN stack BY <1>0, <1>2
  <2>2. n \in 1..MaxDepth + 1 /\ a \in Array /\ k \in 1..Count(a) BY <2>1, Waiting
  <2>3. HandedOn(n) = heap[a][k].value BY <1>2 DEF HandedOn
  <2>4. pre[n + 1] = (pre[n] \o r) \o Ahead[a][k] BY <2>1 DEF Pieces
  <2>5. pre[n] \in Seq(Token) BY <1>0, <2>1
  <2>6. u \in Seq(Token) /\ Reached[n][a][k] = (r \o Ahead[a][k]) \o u
    <3> HIDE DEF a, k
    <3> QED BY <2>2, ReachedNext DEF TypeInv
  <2>7. r \in Seq(Token) /\ Ahead[a][k] \in Seq(Token)
    <3>1. Count(a) \in Nat BY <2>2, ItemsAreItems DEF TypeInv
    <3> HIDE DEF a, k
    <3>2. k - 1 \in 0..Count(a) /\ k \in 0..Count(a) BY <2>2, <3>1
    <3> QED BY <2>2, <3>2, ReachedTyped DEF TypeInv
  <2>8. ((pre[n] \o r) \o Ahead[a][k]) \o u = pre[n] \o ((r \o Ahead[a][k]) \o u)
    <3> HIDE DEF r, u, a, k
    <3>1. (pre[n] \o r) \o Ahead[a][k] = pre[n] \o (r \o Ahead[a][k]) BY <2>5, <2>7, Pieced
    <3> DEFINE v == r \o Ahead[a][k]
    <3>2. v \in Seq(Token) BY <2>7, Joined
    <3> HIDE DEF v
    <3>3. (pre[n] \o v) \o u = pre[n] \o (v \o u) BY <2>5, <2>6, <3>2, Pieced
    <3> QED BY <3>1, <3>3 DEF v
  <2> HIDE DEF a, k, r, u
  <2>9. pre[n + 1] \o Rendered[MaxDepth + 1 - n][HandedOn(n)] = pre[n] \o Reached[n][a][k]
    <3>1. Rendered[MaxDepth + 1 - n][HandedOn(n)] = u BY <2>3 DEF u
    <3> QED BY <2>4, <2>6, <2>8, <3>1
  <2> QED BY Zenon, <1>2, <2>9 DEF a, k
<1> QED BY Zenon, <1>1, <1>2

\* So the pieces are still those of the calls that are left.
LEMMA Finished ==
  ASSUME TypeInv, Way, NEW n \in 0..Len(stack), n < Len(stack) \/ todo # None,
         NEW pre \in [1..Len(stack) + 1 -> Seq(Token)], Pieces(pre),
         heap' = heap, top' = top, todo' = None,
         stack' \in Seq(Frame), Len(stack') = n, \A i \in 1..n : stack'[i] = stack[i],
         out' = pre[n + 1] \o Rendered[MaxDepth + 1 - n][HandedOn(n)]
  PROVE  Assembled'
<1>0. Len(stack) \in Nat /\ DOMAIN stack = 1..Len(stack) BY StackTyped
<1>1. n \in Nat /\ DOMAIN stack' = 1..n BY <1>0, LenProperties
<1>2. Reached' = Reached /\ Ahead' = Ahead /\ Rendered' = Rendered BY SameTexts
<1>3. Text' = Text BY <1>2 DEF Text
<1> DEFINE now == [i \in 1..n + 1 |-> pre[i]]
<1>4. now \in [1..n + 1 -> Seq(Token)] BY <1>0
<1>5. \A i \in 1..n : i < Len(stack) \/ todo # None BY <1>0
<1>6. ASSUME NEW i \in 1..n
      PROVE  pre[i + 1] = (pre[i] \o Reached[i][stack[i].array][stack[i].items - 1])
                            \o Ahead[stack[i].array][stack[i].items]
  <2>1. i \in DOMAIN stack /\ (i < Len(stack) \/ todo # None) BY <1>0, <1>5
  <2> QED BY Zenon, <2>1 DEF Pieces
<1>7. out' = IF n = 0 THEN Text ELSE pre[n] \o Reached[n][stack[n].array][stack[n].items]
  BY Zenon, Delivered
<1>8. \A i \in 1..n : now[i + 1] = (now[i] \o Reached'[i][stack'[i].array][stack'[i].items - 1])
                                     \o Ahead'[stack'[i].array][stack'[i].items]
  <2>1. \A i \in 1..n : now[i] = pre[i] /\ now[i + 1] = pre[i + 1] BY <1>1
  <2> HIDE DEF now
  <2> QED BY Zenon, <1>2, <1>6, <2>1
<1>9. now[1] = <<>>
  <2>1. 1 \in 1..n + 1 BY <1>1
  <2>2. pre[1] = <<>> BY DEF Pieces
  <2> QED BY Zenon, <2>1, <2>2
<1>10. CASE n = 0
  <2>1. stack' = <<>> BY <1>1, <1>10, EmptySeq
  <2>2. out' = Text' BY <1>3, <1>7, <1>10
  <2>3. Pieces(now)'
    <3> HIDE DEF now
    <3>1. \A i \in DOMAIN stack' : FALSE BY <1>1, <1>10
    <3> QED BY Zenon, <1>9, <2>1, <2>2, <3>1 DEF Pieces
  <2> HIDE DEF now
  <2> QED BY <1>4, <2>3 DEF Assembled
<1>11. CASE n # 0
  <2>1. n \in 1..n /\ stack'[n] = stack[n] BY <1>1, <1>11
  <2>2. stack' # <<>> BY <1>11
  <2>3. Last' = stack'[n] BY DEF Last, Depth
  <2>4. out' = pre[n] \o Reached[n][stack[n].array][stack[n].items] BY Zenon, <1>7, <1>11
  <2>5. now[n] = pre[n] BY <1>1, <2>1
  <2> HIDE DEF now
  <2>6. out' = now[Len(stack')] \o Reached'[Len(stack')][Last'.array][Last'.items]
    BY Zenon, <1>2, <2>1, <2>3, <2>4, <2>5
  <2>7. Pieces(now)' BY Zenon, <1>1, <1>8, <1>9, <2>2, <2>6 DEF Pieces
  <2> QED BY <1>4, <2>7 DEF Assembled
<1> QED BY <1>10, <1>11

\* What is printed without going into an array is the text of the value.
LEMMA PrintAssembles ==
  ASSUME TypeInv, Way, Assembled, NEW token \in Token, todo # None, Emit(token),
         Rendered[MaxDepth + 1 - Len(stack)][todo] = <<token>>
  PROVE  Assembled'
<1>1. PICK pre \in [1..Len(stack) + 1 -> Seq(Token)] : Pieces(pre) BY DEF Assembled
<1>2. Len(stack) \in Nat /\ DOMAIN stack = 1..Len(stack) /\ stack \in Seq(Frame) BY StackTyped
<1>3. /\ heap' = heap /\ top' = top /\ todo' = None /\ stack' = stack
      /\ out' = Append(out, token)
  BY DEF Emit
<1>4. out = pre[Len(stack) + 1] /\ todo = HandedOn(Len(stack)) BY <1>1 DEF Pieces, Way
<1>5. out \in Seq(Token) BY DEF TypeInv, SerializerTypeOK, Token
<1>6. out' = out \o <<token>> BY <1>3, <1>5, AppendIsConcat
<1>7. out' = pre[Len(stack) + 1] \o Rendered[MaxDepth + 1 - Len(stack)][HandedOn(Len(stack))]
  BY <1>4, <1>6
<1>8. Len(stack) \in 0..Len(stack) BY <1>2
<1>9. stack' \in Seq(Frame) /\ Len(stack') = Len(stack) /\ \A i \in 1..Len(stack) : stack'[i] = stack[i]
  BY <1>2, <1>3
<1> QED BY <1>1, <1>3, <1>7, <1>8, <1>9, Finished

LEMMA EnterAssembles ==
  ASSUME TypeInv, Way, Assembled, EnterArray
  PROVE  Assembled'
<1> DEFINE n == Len(stack)
           f == [array |-> todo, items |-> 0]
<1>1. PICK pre \in [1..n + 1 -> Seq(Token)] : Pieces(pre) BY DEF Assembled
<1>2. /\ n \in Nat /\ DOMAIN stack = 1..n /\ stack \in Seq(Frame)
      /\ \A i \in 1..n : stack[i] \in Frame
  BY StackTyped
<1>3. todo \in Array /\ todo # None /\ n <= MaxDepth BY DEF EnterArray, None, Array, Depth
<1>4. todo \notin visited BY <1>3, NeverCircular
<1>5. /\ heap' = heap /\ top' = top /\ todo' = None /\ stack' = Append(stack, f)
      /\ out' = Append(out, Opening(todo))
  BY <1>4 DEF EnterArray
<1>6. f \in Frame /\ f.array = todo /\ f.items = 0 BY <1>3, ConstantsAssumption DEF Frame
<1> HIDE DEF f
<1>7. /\ \A i \in 1..n : stack'[i] = stack[i]
      /\ stack'[n + 1] = f /\ DOMAIN stack' = 1..n + 1 /\ Len(stack') = n + 1
  BY <1>2, <1>5, <1>6, Pushed
<1>8. Reached' = Reached /\ Ahead' = Ahead BY <1>5, SameTexts
<1>9. PICK now \in [1..Len(stack') + 1 -> Seq(Token)] : \A i \in 1..n + 1 : now[i] = pre[i]
  <2> DEFINE longer == [i \in 1..(n + 1) + 1 |-> IF i \in 1..n + 1 THEN pre[i] ELSE <<>>]
  <2>1. <<>> \in Seq(Token) OBVIOUS
  <2>2. \A i \in 1..n + 1 : pre[i] \in Seq(Token) OBVIOUS
  <2>3. longer \in [1..(n + 1) + 1 -> Seq(Token)] BY <2>1, <2>2
  <2>4. \A i \in 1..n + 1 : longer[i] = pre[i] BY <1>2
  <2>5. Len(stack') = n + 1 BY <1>7
  <2> HIDE DEF longer
  <2> QED BY <2>3, <2>4, <2>5
<1>11. ASSUME NEW i \in DOMAIN stack', i < Len(stack') \/ todo' # None
       PROVE  now[i + 1] = (now[i] \o Reached'[i][stack'[i].array][stack'[i].items - 1])
                             \o Ahead'[stack'[i].array][stack'[i].items]
  <2>1. i \in 1..n /\ i \in 1..n + 1 /\ i + 1 \in 1..n + 1 BY <1>2, <1>5, <1>7, <1>11
  <2>2. pre[i + 1] = (pre[i] \o Reached[i][stack[i].array][stack[i].items - 1])
                       \o Ahead[stack[i].array][stack[i].items]
    <3>1. i \in DOMAIN stack BY <1>2, <2>1
    <3> QED BY Zenon, <1>1, <1>3, <3>1 DEF Pieces
  <2>3. now[i] = pre[i] /\ now[i + 1] = pre[i + 1] /\ stack'[i] = stack[i] BY <1>7, <1>9, <2>1
  <2> QED BY Zenon, <1>8, <2>2, <2>3
<1>12. now[1] = <<>>
  <2>1. 1 \in 1..n + 1 BY <1>2
  <2> QED BY <1>1, <1>9, <2>1 DEF Pieces
<1>13. out' = now[Len(stack')] \o Reached'[Len(stack')][Last'.array][Last'.items]
  <2>1. n + 1 \in 1..n + 1 /\ n + 1 \in 1..MaxDepth + 1 BY <1>2, <1>3, ConstantsAssumption
  <2>2. out = now[n + 1]
    <3>1. out = pre[n + 1] BY <1>1, <1>3 DEF Pieces
    <3> QED BY <1>9, <2>1, <3>1
  <2>3. Last' = f BY <1>7 DEF Last, Depth
  <2>4. Reached[n + 1][todo][0] = <<Opening(todo)>> BY <1>3, <2>1, ReachedFirst DEF TypeInv
  <2>5. out \in Seq(Token) /\ Opening(todo) \in Token
    BY <1>3, MarksAreMarks DEF TypeInv, SerializerTypeOK, Token, Marks
  <2>6. out' = out \o <<Opening(todo)>> BY <1>5, <2>5, AppendIsConcat
  <2> QED BY <1>6, <1>7, <1>8, <2>2, <2>3, <2>4, <2>6
<1>14. stack' # <<>> BY <1>2, <1>7
<1>15. Pieces(now)' BY ZenonT(30), <1>5, <1>11, <1>12, <1>13, <1>14 DEF Pieces
<1> QED BY <1>9, <1>15 DEF Assembled

LEMMA NextAssembles ==
  ASSUME TypeInv, Way, Way', Assembled, NextItem
  PROVE  Assembled'
<1>0. PICK n \in Nat \ {0}, a \in Array, k \in Nat \ {0} :
        /\ n = Len(stack) /\ n = Len(stack')
        /\ a = Last.array /\ k = Last.items + 1 /\ k - 1 = Last.items
  <2>1. Last.array \in Array /\ Last.items \in Nat BY Stepped, ConstantsAssumption DEF Frame
  <2>2. Len(stack) \in Nat \ {0} /\ Len(stack') = Len(stack) BY Stepped
  <2>3. Last.items + 1 \in Nat \ {0} /\ Last.items + 1 - 1 = Last.items BY <2>1
  <2> QED BY <2>1, <2>2, <2>3
<1>u. 1 \in 1..n OBVIOUS
<1>1. PICK pre \in [1..n + 1 -> Seq(Token)] : Pieces(pre) BY Zenon, <1>0 DEF Assembled
<1>2. /\ DOMAIN stack = 1..n /\ DOMAIN stack' = 1..n
      /\ \A i \in 1..n : stack'[i].array = stack[i].array
      /\ \A i \in 1..n : i # n => stack'[i].items = stack[i].items
      /\ stack'[n].items = k
  BY Zenon, <1>0, Stepped, StackTyped
<1>3. /\ todo = None /\ stack # <<>> /\ heap' = heap
      /\ todo' = heap[a][k].value /\ Last.items < Count(a)
      /\ out' = out \o Before(Last.items = 0, heap[a][k].named)
  BY Zenon, <1>0 DEF NextItem
<1>4. Count(a) \in Nat BY ItemsAreItems DEF TypeInv
<1>5. k \in 1..Count(a)
  <2>1. k - 1 < Count(a) BY <1>0, <1>3
  <2> QED BY <1>4, <2>1
<1>6. Reached' = Reached /\ Ahead' = Ahead BY Zenon, <1>3, SameTexts
<1>7. stack[n] = Last /\ stack'[n].array = a /\ n \in 1..n
  <2>1. n \in 1..n OBVIOUS
  <2>2. stack[n] = Last BY Zenon, <1>0 DEF Last, Depth
  <2> QED BY Zenon, <1>0, <1>2, <2>1, <2>2
<1>8. todo' # None
  <2>1. heap[a][k].value \in Value BY <1>4, <1>5, ItemsAreItems DEF Item, TypeInv
  <2> QED BY <1>3, <2>1, ConstantsAssumption DEF Value, Array, None
<1>9. n \in 1..MaxDepth + 1
  BY <1>0, ConstantsAssumption DEF TypeInv, SerializerTypeOK
<1>10. Reached[n][a][k - 1] \in Seq(Token) /\ Ahead[a][k] \in Seq(Token)
  <2>1. k \in 0..Count(a) /\ k - 1 \in 0..Count(a) BY <1>4, <1>5
  <2> QED BY <1>9, <2>1, ReachedTyped DEF TypeInv
<1>11. Before(Last.items = 0, heap[a][k].named) = Ahead[a][k]
  <2>1. (k - 1 = 0) = (k = 1) OBVIOUS
  <2>2. Ahead[a][k] = Before(k = 1, heap[a][k].named) BY DEF Ahead, Lead
  <2> QED BY <1>0, <2>1, <2>2
<1>12. out = pre[n] \o Reached[n][a][k - 1] BY Zenon, <1>0, <1>1, <1>3 DEF Pieces
<1> DEFINE text == (pre[n] \o Reached[n][a][k - 1]) \o Ahead[a][k]
<1>13. out' = text BY Zenon, <1>3, <1>11, <1>12
<1>14. text \in Seq(Token)
  <2>1. pre[n] \in Seq(Token) OBVIOUS
  <2>2. pre[n] \o Reached[n][a][k - 1] \in Seq(Token) BY <1>10, <2>1, Joined
  <2> QED BY <1>10, <2>2, Joined
<1> HIDE DEF text
<1>16. PICK now \in [1..Len(stack') + 1 -> Seq(Token)] :
         (\A i \in 1..n : now[i] = pre[i]) /\ now[n + 1] = text
  <2> DEFINE longer == [i \in 1..n + 1 |-> IF i = n + 1 THEN text ELSE pre[i]]
  <2>1. longer \in [1..n + 1 -> Seq(Token)] BY <1>14
  <2>2. (\A i \in 1..n : longer[i] = pre[i]) /\ longer[n + 1] = text OBVIOUS
  <2>3. Len(stack') = n BY <1>0
  <2> HIDE DEF longer
  <2> QED BY <2>1, <2>2, <2>3
<1>17. now[1] = <<>>
  <2>1. now[1] = pre[1] BY Zenon, <1>u, <1>16
  <2> QED BY Zenon, <1>1, <2>1 DEF Pieces
<1>18. ASSUME NEW i \in DOMAIN stack'
       PROVE  now[i + 1] = (now[i] \o Reached'[i][stack'[i].array][stack'[i].items - 1])
                             \o Ahead'[stack'[i].array][stack'[i].items]
  <2>1. CASE i = n
    <3>1. now[i] = pre[n] /\ now[i + 1] = text BY Zenon, <1>7, <1>16, <2>1
    <3>2. stack'[i].array = a /\ stack'[i].items = k BY Zenon, <1>2, <1>7, <2>1
    <3> QED BY Zenon, <1>6, <2>1, <3>1, <3>2 DEF text
  <2>2. CASE i # n
    <3>0. i \in 1..n BY Zenon, <1>2
    <3>1. i \in 1..n /\ i + 1 \in 1..n /\ i < n BY <2>2, <3>0
    <3>2. pre[i + 1] = (pre[i] \o Reached[i][stack[i].array][stack[i].items - 1])
                         \o Ahead[stack[i].array][stack[i].items]
      <4>1. i \in DOMAIN stack BY Zenon, <1>2, <3>1
      <4> QED BY Zenon, <1>0, <1>1, <3>1, <4>1 DEF Pieces
    <3>3. /\ now[i] = pre[i] /\ now[i + 1] = pre[i + 1]
          /\ stack'[i].array = stack[i].array /\ stack'[i].items = stack[i].items
      BY Zenon, <1>2, <1>16, <2>2, <3>1
    <3> QED BY Zenon, <1>6, <3>2, <3>3
  <2> QED BY <2>1, <2>2
<1>19. out' = now[Len(stack') + 1] BY Zenon, <1>0, <1>13, <1>16
<1>20. Pieces(now)' BY ZenonT(30), <1>8, <1>17, <1>18, <1>19 DEF Pieces
<1> QED BY Zenon, <1>16, <1>20 DEF Assembled

\* A call that returns has printed its array: all of it, or what the limit shows and the note.
LEMMA ReturnAssembles ==
  ASSUME TypeInv, Way, Assembled, todo = None, stack # <<>>,
         Last.items = IF Count(Last.array) > MaxItems THEN MaxItems ELSE Count(Last.array),
         NEW text \in Seq(Token), text = out \o Note(Last.array), NEW s, Return(text, s)
  PROVE  Assembled'
<1> DEFINE n == Len(stack)
           a == Last.array
<1>1. PICK pre \in [1..n + 1 -> Seq(Token)] : Pieces(pre) BY DEF Assembled
<1>2. /\ heap' = heap /\ top' = top /\ todo' = None
      /\ stack' = SubSeq(stack, 1, Depth - 1) /\ visited' = visited \ {Last.array}
      /\ out' = Append(text, Closing(a))
  BY DEF Return
<1>3. /\ stack' \in Seq(Frame) /\ Len(stack') = n - 1 /\ n \in Nat \ {0} /\ Last \in Frame
      /\ \A i \in DOMAIN stack' : stack'[i] = stack[i]
  BY <1>2, Popped
<1>4. DOMAIN stack' = 1..n - 1 /\ DOMAIN stack = 1..n BY <1>3, LenProperties, StackTyped
<1>5. a \in Array /\ stack[n] = Last /\ n \in DOMAIN stack
  BY <1>3, <1>4 DEF Frame, Last, Depth
<1>6. n \in 1..MaxDepth + 1 BY <1>3, ConstantsAssumption DEF TypeInv, SerializerTypeOK
<1>7. ~(Count(a) > MaxCount) /\ a = HandedOn(n - 1) BY <1>5 DEF Way
<1>8. PICK m \in 0..Count(a) :
        /\ m = IF Count(a) > MaxItems THEN MaxItems ELSE Count(a)
        /\ \A p \in Seq(Token) :
             ((p \o Reached[n][a][m]) \o Note(a)) \o <<Closing(a)>>
               = p \o Rendered[MaxDepth + 1 - (n - 1)][a]
  <2> HIDE DEF n, a
  <2> QED BY Zenon, <1>5, <1>6, <1>7, ReachedEnd DEF TypeInv
<1>9. out = pre[n] \o Reached[n][a][m]
  <2>1. m = Last.items BY Zenon, <1>8
  <2> QED BY Zenon, <1>1, <2>1 DEF Pieces
<1>10. pre[n] \in Seq(Token) BY <1>3
<1>11. out' = (((pre[n] \o Reached[n][a][m]) \o Note(a)) \o <<Closing(a)>>)
  <2>1. Closing(a) \in Token BY <1>5, MarksAreMarks DEF Token, Marks
  <2>2. out' = text \o <<Closing(a)>> BY <1>2, <2>1, AppendIsConcat
  <2> QED BY Zenon, <1>9, <2>2
<1>12. out' = pre[n] \o Rendered[MaxDepth + 1 - (n - 1)][a]
  <2> HIDE DEF n, a
  <2> QED BY Zenon, <1>8, <1>10, <1>11
<1>13. /\ n - 1 \in 0..n /\ n - 1 < n /\ (n - 1) + 1 = n
       /\ \A i \in 1..n - 1 : stack'[i] = stack[i]
  <2>1. n \in Nat \ {0} BY <1>3
  <2>2. \A i \in 1..n - 1 : stack'[i] = stack[i] BY <1>3, <1>4
  <2>3. n - 1 \in 0..n /\ n - 1 < n /\ (n - 1) + 1 = n BY <2>1
  <2> QED BY <2>2, <2>3
<1>14. out' = pre[(n - 1) + 1] \o Rendered[MaxDepth + 1 - (n - 1)][HandedOn(n - 1)]
  BY <1>7, <1>12, <1>13
<1> DEFINE d == n - 1
<1>15. /\ d \in 0..Len(stack) /\ d < Len(stack) /\ Len(stack') = d
       /\ \A i \in 1..d : stack'[i] = stack[i]
       /\ out' = pre[d + 1] \o Rendered[MaxDepth + 1 - d][HandedOn(d)]
  BY <1>3, <1>13, <1>14
<1> HIDE DEF d
<1> QED BY <1>1, <1>2, <1>3, <1>15, Finished

\* The three ways in which a value is printed at once.
LEMMA AtOnce ==
  ASSUME TypeInv, todo # None
  PROVE  /\ "depth" \in Token /\ "large" \in Token /\ (todo \in Plain => todo \in Token)
         /\ TooDeep => Rendered[MaxDepth + 1 - Len(stack)][todo] = <<"depth">>
         /\ PrintPlain => Rendered[MaxDepth + 1 - Len(stack)][todo] = <<todo>>
         /\ TooLarge => Rendered[MaxDepth + 1 - Len(stack)][todo] = <<"large">>
<1> DEFINE d == MaxDepth + 1 - Len(stack)
<1>1. Len(stack) \in Nat /\ Len(stack) <= MaxDepth + 1 /\ MaxDepth \in Nat
  BY StackTyped, ConstantsAssumption DEF TypeInv, SerializerTypeOK
<1>2. todo \in Value BY DEF TypeInv, SerializerTypeOK
<1>3. ASSUME TooDeep PROVE Rendered[d][todo] = <<"depth">>
  <2>1. d = 0 BY <1>1, <1>3 DEF TooDeep, Depth
  <2> HIDE DEF d
  <2> QED BY <1>2, <2>1, RenderedUnfold
<1>4. Depth <= MaxDepth => d \in 1..MaxDepth + 1 BY <1>1 DEF Depth
<1>5. ASSUME PrintPlain PROVE Rendered[d][todo] = <<todo>>
  <2>1. d \in 1..MaxDepth + 1 /\ todo \in Plain BY <1>4, <1>5 DEF PrintPlain
  <2> HIDE DEF d
  <2> QED BY <1>2, <2>1, RenderedUnfold
<1>6. ASSUME TooLarge PROVE Rendered[d][todo] = <<"large">>
  <2>1. d \in 1..MaxDepth + 1 /\ todo \in Array /\ Count(todo) > MaxCount BY <1>4, <1>6 DEF TooLarge
  <2>2. todo \notin Plain BY <2>1, ConstantsAssumption
  <2> HIDE DEF d
  <2> QED BY <1>2, <2>1, <2>2, RenderedUnfold
<1>7. "depth" \in Token /\ "large" \in Token /\ (todo \in Plain => todo \in Token)
  BY DEF Token, Marks
<1> QED BY <1>3, <1>5, <1>6, <1>7

LEMMA AssembledKept ==
  ASSUME TypeInv, Way, Way', Assembled, [Next]_vars
  PROVE  Assembled'
<1>1. CASE TooDeep BY <1>1, AtOnce, PrintAssembles DEF TooDeep
<1>2. CASE PrintPlain
  <2>1. todo # None BY <1>2, ConstantsAssumption DEF PrintPlain
  <2> QED BY <1>2, <2>1, AtOnce, PrintAssembles DEF PrintPlain
<1>3. CASE TooLarge
  <2>1. todo # None BY <1>3 DEF TooLarge, None, Array
  <2> QED BY <1>3, <2>1, AtOnce, PrintAssembles DEF TooLarge
<1>4. CASE EnterArray BY <1>4, EnterAssembles
<1>5. CASE NextItem BY <1>5, NextAssembles
<1>r. ASSUME stack # <<>>
      PROVE  /\ Last \in Frame /\ Last.array \in Array /\ Count(Last.array) \in Nat
             /\ Last.items \in 0..MaxItems /\ Last.items <= Count(Last.array)
  <2>1. Len(stack) \in DOMAIN stack BY <1>r, StackTyped, FrontOfSeq, LenProperties
  <2>2. Last \in Frame BY <2>1, StackTyped DEF Last, Depth
  <2>3. Last.items <= Count(Last.array) BY <2>1 DEF Way, Last, Depth
  <2> QED BY <2>2, <2>3, ItemsAreItems DEF Frame, TypeInv
<1>o. out \in Seq(Token) BY DEF TypeInv, SerializerTypeOK, Token
<1>6. CASE EndArray
  <2>1. todo = None /\ stack # <<>> /\ Last.items = Count(Last.array) /\ Return(out, syntax)
    BY <1>6 DEF EndArray
  <2>2. ~(Count(Last.array) > MaxItems) BY <1>r, <2>1, ConstantsAssumption
  <2>3. out = out \o Note(Last.array)
    <3>1. Note(Last.array) = <<>> BY <2>2 DEF Note
    <3> QED BY <1>o, <3>1, ConcatEmptySeq
  <2>4. Last.items = IF Count(Last.array) > MaxItems THEN MaxItems ELSE Count(Last.array)
    BY <2>1, <2>2
  <2> QED BY <1>o, <2>1, <2>3, <2>4, ReturnAssembles
<1>7. CASE Truncate
  <2> DEFINE text == out \o Before(FALSE, IsAssoc(Last.array)) \o <<"more">>
             s == Read(ReadBefore(syntax, FALSE, IsAssoc(Last.array)), "more")
  <2>1. /\ todo = None /\ stack # <<>> /\ Last.items < Count(Last.array)
        /\ Last.items = MaxItems /\ Return(text, s)
    BY <1>7 DEF Truncate
  <2>2. Count(Last.array) > MaxItems BY <1>r, <2>1, ConstantsAssumption
  <2>3. text = out \o Note(Last.array)
    <3> DEFINE b == Before(FALSE, IsAssoc(Last.array))
               m == <<"more">>
    <3>1. Note(Last.array) = b \o m BY <2>2 DEF Note
    <3>2. b \in Seq(Token) BY BeforeTyped DEF Token
    <3>3. "more" \in Token BY DEF Token, Marks
    <3>4. m \in Seq(Token) BY <3>3
    <3>5. text = (out \o b) \o m OBVIOUS
    <3> HIDE DEF b, m, text
    <3>6. out \o (b \o m) = (out \o b) \o m BY <1>o, <3>2, <3>4, Pieced
    <3> QED BY <3>1, <3>5, <3>6
  <2>4. text \in Seq(Token)
    <3>1. Last.array \in Array BY <1>r, <2>1
    <3>2. Note(Last.array) \in Seq(Token) BY <3>1, MarksTyped
    <3> HIDE DEF text
    <3> QED BY <1>o, <2>3, <3>2, Joined
  <2>5. Last.items = IF Count(Last.array) > MaxItems THEN MaxItems ELSE Count(Last.array)
    BY <2>1, <2>2
  <2> HIDE DEF text, s
  <2> QED BY <2>1, <2>3, <2>4, <2>5, ReturnAssembles
<1>8. CASE UNCHANGED vars
  <2>1. heap' = heap /\ top' = top /\ todo' = todo /\ stack' = stack /\ out' = out
    BY <1>8 DEF vars
  <2>2. Reached' = Reached /\ Ahead' = Ahead /\ Rendered' = Rendered BY <2>1, SameTexts
  <2>3. Text' = Text BY <2>1, <2>2 DEF Text
  <2>4. Last' = Last BY <2>1 DEF Last, Depth
  <2>5. ASSUME NEW pre, Pieces(pre) PROVE Pieces(pre)'
    BY <2>1, <2>2, <2>3, <2>4, <2>5 DEF Pieces
  <2> QED BY <2>1, <2>5 DEF Assembled
<1> QED BY <1>1, <1>2, <1>3, <1>4, <1>5, <1>6, <1>7, <1>8 DEF Next

\* For values of any size and depth and any limits, the printed text is that of
\* the value alone: every item within the limits is there, and no array is taken
\* for a circular one because it occurs twice.
THEOREM TextIsComplete == Spec => []PrintsText
<1>1. Init => Way /\ Assembled
  <2> SUFFICES ASSUME Init PROVE Way /\ Assembled OBVIOUS
  <2>1. /\ stack = <<>> /\ Len(stack) = 0 /\ DOMAIN stack = {} /\ todo = top /\ out = <<>>
        /\ \A i \in DOMAIN stack : FALSE
    BY DEF Init
  <2>2. Way BY <2>1 DEF Way, HandedOn
  <2>3. todo # None
    <3>1. top \in Value BY DEF Init
    <3> QED BY <2>1, <3>1, ConstantsAssumption DEF Value, Array, None
  <2> DEFINE pre == [i \in 1..1 |-> <<>>]
  <2>4. pre \in [1..Len(stack) + 1 -> Seq(Token)] /\ pre[1] = <<>>
    <3>1. 1..Len(stack) + 1 = 1..1 BY <2>1
    <3>2. <<>> \in Seq(Token) OBVIOUS
    <3> QED BY <3>1, <3>2
  <2> HIDE DEF pre
  <2>5. Pieces(pre)
    <3>1. out = pre[Len(stack) + 1] BY <2>1, <2>4
    <3> QED BY Zenon, <2>1, <2>3, <2>4, <3>1 DEF Pieces
  <2> QED BY <2>2, <2>4, <2>5 DEF Assembled
<1>2. TypeInv /\ Way /\ Assembled /\ [Next]_vars => Way' /\ Assembled'
  BY WayKept, AssembledKept
<1>3. Assembled => PrintsText
  <2> SUFFICES ASSUME Assembled, Printed PROVE out = Text BY DEF PrintsText
  <2> QED BY DEF Assembled, Pieces, Printed
<1> QED BY <1>1, <1>2, <1>3, TypeInvHolds, PTL DEF Spec
=============================================================================
