------------------------------- MODULE SpanApi -------------------------------
(***************************************************************************)
(* What the manual span functions promise a PHP program, one request at a  *)
(* time: a span is open from opa_start_span to opa_end_span, collects the  *)
(* tags, the parent and the dumps it is given, and is sent once, with all  *)
(* of them.  Dumps made outside any span are sent with the root span of    *)
(* their own request.  Spans left open are dropped with the request.       *)
(*                                                                         *)
(* The documentation has a dump attached to the current span (README,      *)
(* opa_api.c 266).  Here a dump made while spans are open goes to one of   *)
(* them and to no other message; that it arrives at all is not promised,   *)
(* and the code, which takes another address for the span, loses it.       *)
(***************************************************************************)
EXTENDS Naturals, Sequences

CONSTANTS Key, Value, NoValue

VARIABLES
  live,   \* a request is being served
  open,   \* its open spans: [id, tags, parent, dumps]
  loose,  \* the dumps it made outside any span
  sent    \* the messages sent so far, oldest first

vars == <<live, open, loose, sent>>

Tags == [Key -> Value \cup {NoValue}]
NoId == 0

Init == live = FALSE /\ open = {} /\ loose = <<>> /\ sent = <<>>

Begin ==
  /\ ~live
  /\ live' = TRUE
  /\ UNCHANGED <<open, loose, sent>>

Start ==
  /\ live
  /\ \E s \in open' \ open :
       /\ s.tags \in Tags
       /\ s.parent = NoId
       /\ s.dumps = <<>>
       /\ \A o \in open : o.id # s.id
       /\ open' = open \cup {s}
  /\ UNCHANGED <<live, loose, sent>>

\* A tag replaces the one with the same key; so does a parent.
Describe ==
  /\ \E s \in open :
       \/ \E k \in Key, v \in Value :
            open' = (open \ {s}) \cup {[s EXCEPT !.tags[k] = v]}
       \/ \E r \in open' : open' = (open \ {s}) \cup {[s EXCEPT !.parent = r.parent]}
  /\ UNCHANGED <<live, loose, sent>>

End ==
  /\ \E s \in open :
       /\ open' = open \ {s}
       /\ sent' = Append(sent, [kind |-> "span", span |-> s])
  /\ UNCHANGED <<live, loose>>

\* One more dump in a list of dumps.
OneMore(old, new) == Len(new) = Len(old) + 1 /\ SubSeq(new, 1, Len(old)) = old

Dump ==
  /\ live
  /\ open = {}
  /\ OneMore(loose, loose')
  /\ UNCHANGED <<live, open, sent>>

DumpInSpan ==
  /\ \E s \in open, r \in open' :
       /\ OneMore(s.dumps, r.dumps)
       /\ open' = (open \ {s}) \cup {[s EXCEPT !.dumps = r.dumps]}
  /\ UNCHANGED <<live, loose, sent>>

Finish ==
  /\ live
  /\ live' = FALSE
  /\ open' = {}
  /\ loose' = <<>>
  /\ sent' = Append(sent, [kind |-> "root", dumps |-> loose])

Next == Begin \/ Start \/ Describe \/ End \/ Dump \/ DumpInSpan \/ Finish

Spec == Init /\ [][Next]_vars
=============================================================================
