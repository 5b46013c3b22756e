------------------------------ MODULE Serializer ------------------------------
(***************************************************************************)
(* serialize_zval_json: a PHP value as JSON text, cut off at a depth, at a *)
(* number of items of an array, and at a size of an array.                 *)
(*                                                                         *)
(* A state is one between two calls or returns of the recursive function.  *)
(* Everything but an array is printed without recursion: scalars, strings, *)
(* objects (their class only), resources, and references, which are not    *)
(* followed.  So an array that can be reached is never inside itself; the  *)
(* same array may be an item in several places.                            *)
(***************************************************************************)
EXTENDS Naturals, Sequences

CONSTANTS
  Plain,     \* values other than arrays
  Arrays,    \* number of arrays; an array contains only ones after it
  Heaps,     \* the possible contents of the arrays
  MaxDepth,  \* MAX_SERIALIZE_DEPTH, 10
  MaxItems,  \* items printed of an array, 100
  MaxCount   \* items of an array that is printed at all, 1000

Array == 1..Arrays
Value == Plain \cup Array
Marks == {"object", "endobject", "list", "endlist", "comma", "key", "depth", "large", "circular", "more"}
None  == 0
Item  == [named : BOOLEAN, value : Value]

ASSUME ConstantsAssumption ==
  /\ Arrays \in Nat
  /\ \A v \in Plain : v \notin Array /\ v # None /\ v \notin Marks
  /\ Heaps \subseteq [Array -> Seq(Item)]
  /\ \A h \in Heaps, a \in Array : \A i \in DOMAIN h[a] :
       h[a][i].value \in Array => h[a][i].value > a
  /\ MaxDepth \in Nat /\ MaxItems \in Nat \ {0} /\ MaxCount \in Nat

VARIABLES
  heap,     \* the arrays
  top,      \* the argument
  todo,     \* the value the next call prints, or None
  stack,    \* the calls that are inside an array: which one, and item_count
  visited,  \* the arrays on the way to here
  out,      \* the text so far
  syntax    \* the brackets it has open, and what must come next

vars == <<heap, top, todo, stack, visited, out, syntax>>
----------------------------------------------------------------------------
(* The brackets of a text that are open, and what JSON allows next.        *)

Bracket == {"object", "list"}
Syntax == [open : Seq(Bracket),
           next : {"value", "firstkey", "firstitem", "key", "rest", "end", "error"}]

Then(open, next) == [open |-> open, next |-> next]
Begun         == Then(<<>>, "value")
Bad           == Then(<<>>, "error")
Took(open)    == Then(open, IF open = <<>> THEN "end" ELSE "rest")
TakesValue(s) == s.next \in {"value", "firstitem"}
Closes(s, b)  == s.open # <<>> /\ s.open[Len(s.open)] = b
Closed(s)     == Took(SubSeq(s.open, 1, Len(s.open) - 1))

Read(s, token) ==
  CASE token = "object" /\ TakesValue(s) -> Then(Append(s.open, "object"), "firstkey")
    [] token = "list" /\ TakesValue(s) -> Then(Append(s.open, "list"), "firstitem")
    [] token = "endobject" /\ Closes(s, "object") /\ s.next \in {"firstkey", "rest"} -> Closed(s)
    [] token = "endlist" /\ Closes(s, "list") /\ s.next \in {"firstitem", "rest"} -> Closed(s)
    [] token = "comma" /\ s.next = "rest" ->
         Then(s.open, IF Closes(s, "object") THEN "key" ELSE "value")
    [] token = "key" /\ s.next \in {"firstkey", "key"} -> Then(s.open, "value")
    [] token \notin {"object", "endobject", "list", "endlist", "comma", "key"} /\ TakesValue(s) -> Took(s.open)
    [] OTHER -> Bad
----------------------------------------------------------------------------
Count(a) == Len(heap[a])
IsAssoc(a) == \E i \in DOMAIN heap[a] : heap[a][i].named
Opening(a) == IF IsAssoc(a) THEN "object" ELSE "list"
Closing(a) == IF IsAssoc(a) THEN "endobject" ELSE "endlist"

Depth == Len(stack)
Last  == stack[Depth]

\* A value that is not an array, or is not gone into, is printed at once.
Emit(token) ==
  /\ out' = Append(out, token)
  /\ syntax' = Read(syntax, token)
  /\ todo' = None
  /\ UNCHANGED <<heap, top, stack, visited>>

TooDeep ==
  /\ todo # None
  /\ Depth > MaxDepth
  /\ Emit("depth")

PrintPlain ==
  /\ todo \in Plain
  /\ Depth <= MaxDepth
  /\ Emit(todo)

TooLarge ==
  /\ todo \in Array
  /\ Depth <= MaxDepth
  /\ Count(todo) > MaxCount
  /\ Emit("large")

\* An array that is being printed already is not gone into.
EnterArray ==
  /\ todo \in Array
  /\ Depth <= MaxDepth
  /\ Count(todo) <= MaxCount
  /\ IF todo \in visited
     THEN Emit("circular")
     ELSE /\ visited' = visited \cup {todo}
          /\ stack' = Append(stack, [array |-> todo, items |-> 0])
          /\ out' = Append(out, Opening(todo))
          /\ syntax' = Read(syntax, Opening(todo))
          /\ todo' = None
          /\ UNCHANGED <<heap, top>>

\* Mutant: no comma.
BeforeUnseparated(first, named) == IF named THEN <<"key">> ELSE <<>>

\* What precedes an item: a comma unless it is the first, and the key if it is
\* a string.  An integer key is not printed, in an object either.
Before(first, named) ==
  IF first THEN IF named THEN <<"key">> ELSE <<>>
  ELSE IF named THEN <<"comma", "key">> ELSE <<"comma">>

\* The two tokens at most that precede an item, read.
ReadBefore(s, first, named) ==
  LET b == Before(first, named) IN
    IF b = <<>> THEN s
    ELSE IF Len(b) = 1 THEN Read(s, b[1])
    ELSE Read(Read(s, b[1]), b[2])

\* Mutant: the first item after the limit is printed too.
NextItemTooMany ==
  /\ todo = None /\ stack # <<>>
  /\ Last.items < Count(Last.array) /\ Last.items <= MaxItems
  /\ LET item == heap[Last.array][Last.items + 1] IN
       /\ out' = out \o Before(Last.items = 0, item.named)
       /\ syntax' = ReadBefore(syntax, Last.items = 0, item.named)
       /\ todo' = item.value
  /\ stack' = [stack EXCEPT ![Depth].items = @ + 1]
  /\ UNCHANGED <<heap, top, visited>>

NextItem ==
  /\ todo = None /\ stack # <<>>
  /\ Last.items < Count(Last.array) /\ Last.items < MaxItems
  /\ LET item == heap[Last.array][Last.items + 1] IN
       /\ out' = out \o Before(Last.items = 0, item.named)
       /\ syntax' = ReadBefore(syntax, Last.items = 0, item.named)
       /\ todo' = item.value
  /\ stack' = [stack EXCEPT ![Depth].items = @ + 1]
  /\ UNCHANGED <<heap, top, visited>>

\* Mutant: the array stays in the visited set.
ReturnVisited(text, s) ==
  /\ out' = Append(text, Closing(Last.array))
  /\ syntax' = Read(s, Closing(Last.array))
  /\ stack' = SubSeq(stack, 1, Depth - 1)
  /\ UNCHANGED <<heap, top, todo, visited>>

Return(text, s) ==
  /\ out' = Append(text, Closing(Last.array))
  /\ syntax' = Read(s, Closing(Last.array))
  /\ visited' = visited \ {Last.array}
  /\ stack' = SubSeq(stack, 1, Depth - 1)
  /\ UNCHANGED <<heap, top, todo>>

EndArray ==
  /\ todo = None /\ stack # <<>>
  /\ Last.items = Count(Last.array)
  /\ Return(out, syntax)

\* The loop ends with a note of how many items are left.
Truncate ==
  /\ todo = None /\ stack # <<>>
  /\ Last.items < Count(Last.array) /\ Last.items = MaxItems
  /\ LET named == IsAssoc(Last.array) IN
       Return(out \o Before(FALSE, named) \o <<"more">>,
              Read(ReadBefore(syntax, FALSE, named), "more"))
----------------------------------------------------------------------------
Init ==
  /\ heap \in Heaps
  /\ top \in Value
  /\ todo = top
  /\ stack = <<>>
  /\ visited = {}
  /\ out = <<>>
  /\ syntax = Begun

Next == TooDeep \/ PrintPlain \/ TooLarge \/ EnterArray \/ NextItem \/ EndArray \/ Truncate

Spec == Init /\ [][Next]_vars
----------------------------------------------------------------------------
Printed == todo = None /\ stack = <<>>

\* The recursion is no deeper than the limit, and the visited set is the way
\* from the argument to the array being printed.
SerializerTypeOK ==
  /\ heap \in [Array -> Seq(Item)]
  /\ top \in Value
  /\ todo \in Value \cup {None}
  /\ stack \in Seq([array : Array, items : 0..MaxItems])
  /\ Len(stack) <= MaxDepth + 1
  /\ visited = {stack[i].array : i \in DOMAIN stack}
  /\ out \in Seq(Plain \cup Marks)
  /\ syntax \in Syntax

\* The text of a value is JSON, wherever it is cut off, unless an array has
\* string keys and integer keys, which are not printed.
Mixed(a) == \E i, j \in DOMAIN heap[a] : heap[a][i].named /\ ~heap[a][j].named
WellFormed ==
  (\A a \in Array : ~Mixed(a)) =>
    /\ syntax.next # "error"
    /\ Printed => syntax.next = "end"

\* The text of the first n items of an array, if its items print as inner says.
Items(inner, a) ==
  LET J[n \in 0..Count(a)] ==
        IF n = 0 THEN <<>>
        ELSE J[n - 1] \o Before(n = 1, heap[a][n].named) \o inner[heap[a][n].value]
  IN J

Note(a) == IF Count(a) > MaxItems THEN Before(FALSE, IsAssoc(a)) \o <<"more">> ELSE <<>>

ArrayText(inner, a) ==
  LET shown == IF Count(a) > MaxItems THEN MaxItems ELSE Count(a)
  IN <<Opening(a)>> \o Items(inner, a)[shown] \o Note(a) \o <<Closing(a)>>

\* How a value is rendered that has n levels left to the limit.
Rendered[n \in 0..MaxDepth + 1] ==
  [v \in Value |->
     IF n = 0 THEN <<"depth">>
     ELSE IF v \in Plain THEN <<v>>
     ELSE IF Count(v) > MaxCount THEN <<"large">>
     ELSE ArrayText(Rendered[n - 1], v)]

\* The printed text is that of the value alone: no item within the limits is
\* missing, and no array that occurs twice is taken for a circular one.
Text == Rendered[MaxDepth + 1][top]

PrintsText == Printed => out = Text
=============================================================================
