------------------------------ MODULE Transport ------------------------------
(***************************************************************************)
(* How a message reaches the agent: pre_resolve_agent_address at the start *)
(* of a request, and send_message_direct with its sampling, compression,   *)
(* cache of the agent's address, socket and release of the message.        *)
(*                                                                         *)
(* The cache, the settings and the descriptors belong to the process.  A   *)
(* step is what a thread does between two points where other threads or    *)
(* the agent come in: a critical section of agent_addr_cache_mutex or a    *)
(* system call.  The host in the cache is memory of the request that put   *)
(* it there, although the cache outlives that request.                     *)
(***************************************************************************)
EXTENDS Naturals, Sequences

CONSTANTS
  Thread,
  Name, Numeric,  \* hosts: names to resolve, and addresses in dotted form
  Unix,           \* stands for the host when the path begins with a slash
  AnyAddress,     \* 0.0.0.0, which no connection can be made to
  Paths,          \* the values opa.socket_path may have
  Lz4,            \* whether the extension was built with LZ4
  Sampling,       \* whether opa.sampling_rate is below 1
  Fd,             \* numbers a descriptor may have
  Free,           \* what a descriptor stands for that is not open
  MaxMessages,    \* bound: messages submitted
  MaxRequests     \* bound: requests served

\* Port 0 stands for every port number the code refuses.
Path == [host : Name \cup Numeric \cup {Unix}, port : Nat, colon : BOOLEAN]

ASSUME ConstantsAssumption ==
  /\ Name \cap Numeric = {}
  /\ Unix \notin Name \cup Numeric
  /\ AnyAddress \notin Name \cup {Unix}
  /\ Paths \subseteq Path
  /\ Lz4 \in BOOLEAN /\ Sampling \in BOOLEAN
  /\ Fd \subseteq Nat \ {0} /\ Free \notin Thread
  /\ MaxMessages \in Nat /\ MaxRequests \in Nat

NoFd     == 0
NoPeer   == [host |-> Unix, port |-> 0]
NoPath   == [host |-> Unix, port |-> 0, colon |-> FALSE]
EmptyCache == [set |-> FALSE, host |-> Unix, port |-> 0, addr |-> Unix, owner |-> 0]
Outside  == [pc |-> "out", msg |-> 0, size |-> 0, left |-> 0, held |-> {}, final |-> "msg",
             path |-> NoPath, addr |-> Unix, via |-> "none", fd |-> NoFd]
NoSocket == [msg |-> 0, size |-> 1, to |-> NoPeer, linked |-> FALSE, asked |-> NoPath,
             via |-> "none", got |-> <<>>, cut |-> FALSE]

VARIABLES
  settings,  \* opa.enabled and opa.socket_path
  requests,  \* requests started so far; numbers them
  request,   \* of each thread: the request it serves, or 0
  cache,     \* cached_agent_host, _port, _addr; owner: the request whose memory has the host
  fds,       \* of each descriptor number: the thread whose socket it stands for, or Free
  wire,      \* of each thread: the socket it opened last, what it is connected to and has carried
  op,        \* of each thread: the transport function it is in, with the buffers it
             \* has to free (held), the one it writes (final) and where its address is from (via)
  submitted, \* messages submitted so far; numbers them
  answering, \* whether the agent accepts, reads or closes connections
  fault      \* what memory was freed wrongly when the process ended, or "none"

tvars == <<settings, requests, request, cache, fds, wire, op, submitted, answering, fault>>
----------------------------------------------------------------------------
\* Memory of a request is gone when the request is over.
Alive(r) == \E t \in Thread : request[t] = r /\ r # 0

\* Mutant: the cache is taken for that of the current host.
AnyCached(p) == {cache.set}

\* Whether the cache is for p.  The host of a finished request may still be
\* there, or the memory may hold anything else, p's host included.
Cached(p) ==
  IF ~cache.set THEN {FALSE}
  ELSE IF Alive(cache.owner) THEN {cache.host = p.host /\ cache.port = p.port}
  ELSE {FALSE, cache.port = p.port}

At(t, pc) == fault = "none" /\ op[t].pc = pc

\* What a thread has in hand after return, and after efree(m) and return.
Back(o)     == [Outside EXCEPT !.held = o.held]
Freed(o, m) == [Outside EXCEPT !.held = o.held \ {m}]

Goto(t, pc)   == op' = [op EXCEPT ![t].pc = pc]
Addressed(t, a, via) == op' = [op EXCEPT ![t].pc = "connect", ![t].addr = a, ![t].via = via]
ReturnOf(t)   == op' = [op EXCEPT ![t] = Back(op[t])]
Fault(what)   ==
  /\ fault' = what
  /\ UNCHANGED <<settings, requests, request, cache, fds, wire, op, submitted, answering>>

Closed(t) == fds' = [fds EXCEPT ![op[t].fd] = Free]

\* Replacing the cached host frees the old one.  That may end the process when
\* the old one is memory of another request; else it goes unnoticed.
StoreHost(t, p) ==
  cache' = [set |-> TRUE, host |-> p.host, port |-> p.port, addr |-> p.host,
            owner |-> request[t]]
ForeignHost(t) == cache.set /\ cache.owner # request[t]
----------------------------------------------------------------------------
\* RINIT: pre_resolve_agent_address is called when the request is profiled.
BeginRequest(t, s, profiled) ==
  /\ At(t, "out")
  /\ request[t] = 0
  /\ requests < MaxRequests
  /\ requests' = requests + 1
  /\ request' = [request EXCEPT ![t] = requests + 1]
  /\ settings' = s
  /\ IF profiled /\ s.enabled /\ s.path.host # Unix /\ s.path.colon /\ s.path.port # 0
     THEN op' = [op EXCEPT ![t].pc = "rlookup", ![t].path = s.path]
     ELSE UNCHANGED op
  /\ UNCHANGED <<cache, fds, wire, submitted, answering, fault>>

PreLookup(t) ==
  /\ At(t, "rlookup")
  /\ \/ TRUE \in Cached(op[t].path) /\ ReturnOf(t)
     \/ FALSE \in Cached(op[t].path) /\ op[t].path.host \in Numeric /\ Goto(t, "rstore")
     \/ FALSE \in Cached(op[t].path) /\ op[t].path.host \in Name /\ Goto(t, "resolve")
  /\ UNCHANGED <<settings, requests, request, cache, fds, wire, submitted, answering, fault>>

\* getaddrinfo; when it fails the cache stays as it is.
Resolve(t) ==
  /\ At(t, "resolve")
  /\ Goto(t, "rstore") \/ ReturnOf(t)
  /\ UNCHANGED <<settings, requests, request, cache, fds, wire, submitted, answering, fault>>

PreStore(t) ==
  /\ At(t, "rstore")
  /\ \/ ForeignHost(t) /\ Fault("host")
     \/ /\ StoreHost(t, op[t].path)
        /\ ReturnOf(t)
        /\ UNCHANGED <<settings, requests, request, fds, wire, submitted, answering, fault>>

\* ini_set by the program: all opa.* settings may be changed at any time.
Configure(t, s) ==
  /\ At(t, "out")
  /\ request[t] # 0
  /\ settings' = s
  /\ UNCHANGED <<requests, request, cache, fds, wire, op, submitted, answering, fault>>

\* The end of a request frees its memory, the cached host included.
EndRequest(t) ==
  /\ At(t, "out")
  /\ request[t] # 0
  /\ request' = [request EXCEPT ![t] = 0]
  /\ UNCHANGED <<settings, requests, cache, fds, wire, op, submitted, answering, fault>>
----------------------------------------------------------------------------
Small == 1
Large == 2  \* more than 1024 bytes

\* send_message_direct up to its socket: a message is freed at once when sending
\* is off or it is not in the sample; a large one is packed, its original freed.
Submit(t, size) ==
  /\ At(t, "out")
  /\ request[t] # 0
  /\ submitted' = submitted + 1
  /\ LET o == [Outside EXCEPT !.pc = "socket", !.msg = submitted + 1, !.held = {"msg"},
                                !.size = size, !.left = size] IN
       \/ /\ ~settings.enabled \/ Sampling
          /\ op' = [op EXCEPT ![t] = Freed(o, "msg")]
       \/ /\ settings.enabled
          /\ op' = [op EXCEPT ![t] = o]
       \/ /\ settings.enabled /\ Lz4 /\ size = Large
          /\ op' = [op EXCEPT ![t] = [o EXCEPT !.size = Small, !.left = Small,
                                               !.held = {"packed"}, !.final = "packed"]]
  /\ UNCHANGED <<settings, requests, request, cache, fds, wire, answering, fault>>

Lowest(n) == n \in Fd /\ fds[n] = Free /\ \A k \in Fd : k < n => fds[k] # Free

\* The path is read here.  There is no socket when its port is no port number
\* or socket() fails.
Socket(t) ==
  /\ At(t, "socket")
  /\ \/ /\ op' = [op EXCEPT ![t].pc = "free"]
        /\ UNCHANGED <<fds, wire>>
     \/ /\ settings.path.host = Unix \/ settings.path.port # 0
        /\ \E n \in Fd :
             /\ Lowest(n)
             /\ fds' = [fds EXCEPT ![n] = t]
             /\ wire' = [wire EXCEPT ![t] = [NoSocket EXCEPT !.msg = op[t].msg, !.size = op[t].size,
                                                             !.asked = settings.path]]
             /\ op' = [op EXCEPT ![t].pc = IF settings.path.host = Unix THEN "connect" ELSE "lookup",
                                 ![t].path = settings.path, ![t].addr = Unix, ![t].via = "own",
                                 ![t].fd = n]
  /\ UNCHANGED <<settings, requests, request, cache, submitted, answering, fault>>

Lookup(t) ==
  /\ At(t, "lookup")
  /\ \/ /\ TRUE \in Cached(op[t].path)
        /\ Addressed(t, cache.addr, IF Alive(cache.owner) THEN "cache" ELSE "stale")
     \/ FALSE \in Cached(op[t].path) /\ op[t].path.host \in Numeric /\ Goto(t, "store")
     \/ FALSE \in Cached(op[t].path) /\ op[t].path.host \in Name /\ Goto(t, "fallback")
  /\ UNCHANGED <<settings, requests, request, cache, fds, wire, submitted, answering, fault>>

\* An address in dotted form is cached too.
Store(t) ==
  /\ At(t, "store")
  /\ \/ ForeignHost(t) /\ Fault("host")
     \/ /\ StoreHost(t, op[t].path)
        /\ Addressed(t, op[t].path.host, "own")
        /\ UNCHANGED <<settings, requests, request, fds, wire, submitted, answering, fault>>

\* A name that is not in the cache is not resolved here.  With an empty cache
\* the function closes the socket, frees msg and returns: msg is the original,
\* which is freed already if the message was packed.
Fallback(t) ==
  /\ At(t, "fallback")
  /\ \/ /\ cache.set
        /\ Goto(t, "copy")
        /\ UNCHANGED <<settings, requests, request, cache, fds, wire, submitted, answering, fault>>
     \/ /\ ~cache.set
        /\ IF "msg" \in op[t].held
           THEN /\ Closed(t)
                /\ op' = [op EXCEPT ![t] = Freed(op[t], "msg")]
                /\ UNCHANGED <<settings, requests, request, cache, wire, submitted, answering, fault>>
           ELSE Fault("message")

\* Mutant: with an address in the cache, the cache is looked up again.
CopyRetrying(t) ==
  /\ At(t, "copy")
  /\ Goto(t, "lookup")
  /\ UNCHANGED <<settings, requests, request, cache, fds, wire, submitted, answering, fault>>

\* With any address in the cache, that one is used.  (Nothing ever empties the
\* cache, so the branch for a cache emptied in between is not taken.)
Copy(t) ==
  /\ At(t, "copy")
  /\ Addressed(t, cache.addr, "copy")
  /\ UNCHANGED <<settings, requests, request, cache, fds, wire, submitted, answering, fault>>

NoAddress(t) ==
  /\ At(t, "connect")
  /\ op[t].addr = AnyAddress
  /\ Closed(t)
  /\ Goto(t, "free")
  /\ UNCHANGED <<settings, requests, request, cache, wire, submitted, answering, fault>>

\* connect acts on whatever socket has the descriptor's number by now.
Connect(t) ==
  /\ At(t, "connect")
  /\ op[t].addr # AnyAddress
  /\ answering
  /\ LET s == fds[op[t].fd] IN
       \/ /\ Goto(t, "failed")
          /\ UNCHANGED wire
       \/ /\ s # Free /\ ~wire[s].linked
          /\ wire' = [wire EXCEPT ![s].to = [host |-> op[t].addr, port |-> op[t].path.port],
                                  ![s].linked = TRUE, ![s].via = op[t].via]
          /\ Goto(t, "write")
  /\ UNCHANGED <<settings, requests, request, cache, fds, submitted, answering, fault>>

\* Mutant: the loop ends with the first write, however little it took.
WriteOnce(t) ==
  /\ At(t, "write")
  /\ answering
  /\ LET s == fds[op[t].fd] IN
       /\ s # Free /\ wire[s].linked
       /\ \E n \in 1..op[t].left :
            /\ wire' = [wire EXCEPT ![s].got = @ \o [i \in 1..n |-> op[t].msg]]
            /\ op' = [op EXCEPT ![t].left = @ - n, ![t].pc = "close"]
  /\ UNCHANGED <<settings, requests, request, cache, fds, submitted, answering, fault>>

\* Mutant: what write returns is subtracted before it is looked at, -1 too.
WriteAddingErrors(t) ==
  /\ At(t, "write")
  /\ answering
  /\ op[t].left <= 2
  /\ LET s == fds[op[t].fd] IN
       \/ op' = [op EXCEPT ![t].left = @ + 1] /\ UNCHANGED wire
       \/ /\ s # Free /\ wire[s].linked
          /\ \E n \in 1..op[t].left :
               /\ wire' = [wire EXCEPT ![s].got = @ \o [i \in 1..n |-> op[t].msg]]
               /\ op' = [op EXCEPT ![t].left = @ - n,
                                   ![t].pc = IF n = op[t].left THEN "close" ELSE "write"]
  /\ UNCHANGED <<settings, requests, request, cache, fds, submitted, answering, fault>>

\* One turn of the loop: a part of what is left is taken, or the write fails
\* and the rest is given up.
Write(t) ==
  /\ At(t, "write")
  /\ answering
  /\ LET s == fds[op[t].fd] IN
       \/ /\ wire' = [wire EXCEPT ![t].cut = TRUE]
          /\ Goto(t, "close")
       \/ /\ s # Free /\ wire[s].linked
          /\ \E n \in 1..op[t].left :
               /\ wire' = [wire EXCEPT ![s].got = @ \o [i \in 1..n |-> op[t].msg]]
               /\ op' = [op EXCEPT ![t].left = @ - n,
                                   ![t].pc = IF n = op[t].left THEN "close" ELSE "write"]
  /\ UNCHANGED <<settings, requests, request, cache, fds, submitted, answering, fault>>

\* After a failed connect the socket is closed here, and again by Close.
CloseFailed(t) ==
  /\ At(t, "failed")
  /\ Closed(t)
  /\ Goto(t, "close")
  /\ UNCHANGED <<settings, requests, request, cache, wire, submitted, answering, fault>>

\* Mutant: the socket stays open.
Unclosed(t) ==
  /\ At(t, "close")
  /\ Goto(t, "free")
  /\ UNCHANGED <<settings, requests, request, cache, fds, wire, submitted, answering, fault>>

Close(t) ==
  /\ At(t, "close")
  /\ Closed(t)
  /\ Goto(t, "free")
  /\ UNCHANGED <<settings, requests, request, cache, wire, submitted, answering, fault>>

\* Mutant: the original is freed, packed or not.
FreeOriginal(t) ==
  /\ At(t, "free")
  /\ IF "msg" \in op[t].held
     THEN /\ op' = [op EXCEPT ![t] = Freed(op[t], "msg")]
          /\ UNCHANGED <<settings, requests, request, cache, fds, wire, submitted, answering, fault>>
     ELSE Fault("message")

\* efree(final_msg), which is the packed copy if there is one.
FreeMessage(t) ==
  /\ At(t, "free")
  /\ IF op[t].final \in op[t].held
     THEN /\ op' = [op EXCEPT ![t] = Freed(op[t], op[t].final)]
          /\ UNCHANGED <<settings, requests, request, cache, fds, wire, submitted, answering, fault>>
     ELSE Fault("message")

\* The agent stops answering, or answers again; looked at only when it matters.
AgentTurns ==
  /\ fault = "none"
  /\ \E t \in Thread : op[t].pc \in {"connect", "write"}
  /\ answering' = ~answering
  /\ UNCHANGED <<settings, requests, request, cache, fds, wire, op, submitted, fault>>
----------------------------------------------------------------------------
Settings == [enabled : BOOLEAN, path : Paths]

TInit ==
  /\ settings \in Settings
  /\ requests = 0
  /\ request = [t \in Thread |-> 0]
  /\ cache = EmptyCache
  /\ fds = [n \in Fd |-> Free]
  /\ wire = [t \in Thread |-> NoSocket]
  /\ op = [t \in Thread |-> Outside]
  /\ submitted = 0
  /\ answering = TRUE
  /\ fault = "none"

\* What a thread does inside pre_resolve_agent_address and send_message_direct.
Inside(t) ==
  \/ PreLookup(t) \/ Resolve(t) \/ PreStore(t)
  \/ Socket(t) \/ Lookup(t) \/ Store(t) \/ Fallback(t) \/ Copy(t) \/ NoAddress(t)
  \/ Connect(t) \/ Write(t) \/ CloseFailed(t) \/ Close(t) \/ FreeMessage(t)

TNext ==
  \/ \E t \in Thread :
       \/ \E s \in Settings, profiled \in BOOLEAN : BeginRequest(t, s, profiled)
       \/ \E s \in Settings : Configure(t, s)
       \/ submitted < MaxMessages /\ \E size \in {Small, Large} : Submit(t, size)
       \/ Inside(t)
       \/ EndRequest(t)
  \/ AgentTurns

\* A thread inside a function of the extension runs on; a hung agent holds it.
TSpec == TInit /\ [][TNext]_tvars /\ \A t \in Thread : WF_tvars(Inside(t))
----------------------------------------------------------------------------
Via    == {"none", "own", "cache", "stale", "copy"}
Peer   == [host : Name \cup Numeric \cup {Unix}, port : Nat]
Socket_ == [msg : Nat, size : {Small, Large}, to : Peer, linked : BOOLEAN,
            asked : Path, via : Via, got : Seq(Nat), cut : BOOLEAN]
Op     == [pc : {"out", "rlookup", "resolve", "rstore", "socket", "lookup", "store",
                 "fallback", "copy", "connect", "write", "failed", "close", "free"},
           msg : Nat, size : 0..2, left : 0..2, held : SUBSET {"msg", "packed"},
           final : {"msg", "packed"},
           path : Path, addr : Name \cup Numeric \cup {Unix}, via : Via,
           fd : Fd \cup {NoFd}]

\* The globals and the arguments of the functions have their C types, and a
\* descriptor stands for the socket of a thread.
TransportTypeOK ==
  /\ settings \in Settings
  /\ requests \in Nat
  /\ request \in [Thread -> Nat]
  /\ cache \in [set : BOOLEAN, host : Name \cup Numeric \cup {Unix}, port : Nat,
                addr : Name \cup Numeric \cup {Unix}, owner : Nat]
  /\ wire \in [Thread -> Socket_]
  /\ fds \in [Fd -> {Free} \cup Thread]
  /\ op \in [Thread -> Op]
  /\ submitted \in Nat
  /\ answering \in BOOLEAN
  /\ fault \in {"none", "host", "message"}

\* No way out of send_message_direct leaves the message or its packed copy
\* allocated, and one way only frees memory that is free already: the early
\* return for a name that is in no cache, after the message was packed.
FreedOnce ==
  /\ \A t \in Thread : op[t].pc = "out" => op[t].held = {}
  /\ fault = "message"
       => \E t \in Thread : op[t].pc = "fallback" /\ op[t].final = "packed" /\ ~cache.set

\* Every way out closes the socket: no descriptor is open but that of a send
\* that is under way, whatever descriptors other threads reuse meanwhile.
NoSocketLeak ==
  \A n \in Fd : fds[n] # Free => op[fds[n]].fd = n /\ op[fds[n]].pc # "out"

\* With one thread, a connection is made to the port the settings gave when the
\* message was sent, and to their host, although the address comes from a cache
\* that other messages and requests fill, but for two ways: the host in the
\* cache is memory of a request that is over, or the settings gave a name that
\* is not in the cache, for which Copy takes what it finds.
OwnAgent ==
  \A t \in Thread :
    wire[t].linked =>
      /\ wire[t].to.port = wire[t].asked.port
      /\ \/ wire[t].to.host = wire[t].asked.host
         \/ wire[t].via = "stale"
         \/ wire[t].via = "copy" /\ wire[t].asked.host \in Name

\* With one thread, a connection carries its own message only, never more than
\* all of it; all of it when the send is over and no write has failed.
ArrivesWhole ==
  \A t \in Thread :
    /\ \A i \in DOMAIN wire[t].got : wire[t].got[i] = wire[t].msg
    /\ Len(wire[t].got) <= wire[t].size
    /\ op[t].pc = "out" /\ wire[t].linked /\ ~wire[t].cut => Len(wire[t].got) = wire[t].size

\* A send ends whatever fails, unless the agent keeps a connection without
\* reading from it: there is no timeout.
SendReturns ==
  \A t \in Thread :
    op[t].pc # "out" ~> op[t].pc = "out" \/ ~answering \/ fault # "none"
=============================================================================
