--------------------------- MODULE SessionRoutes ---------------------------
(* The address pool and the route table of the server.                      *)
(*                                                                          *)
(* Every accepted connection is served by one detached coroutine,           *)
(* SessionsControl::startConnection.  Once the client is authenticated the  *)
(* coroutine takes an address from a pool of 16-bit host numbers            *)
(* (getNewAddress), sends it to the client (sendIp) and pushes an "add"     *)
(* record on tunQueue; when the session ends it pushes a "remove" record    *)
(* and gives the address back.  The coroutine routeTunToClients is the only *)
(* consumer: after every read of the tun device it applies the records to   *)
(* tunRouter (emptyQueue) and looks the destination of the packet up.       *)
(*                                                                          *)
(* Coroutines of the context interleave at co_awaits.  With Pool = FALSE    *)
(* the context has the one thread it has today, so a piece of code without  *)
(* a co_await is not interrupted; with Pool = TRUE it has the thread pool   *)
(* that asyncStart and threadchecking.hpp announce, and only the mutex and  *)
(* the atomic queue order the coroutines.                                   *)
EXTENDS Integers, Sequences, FiniteSets

CONSTANTS
    Sessions,    \* the connections that are accepted, each served once
    NoSession,   \* tunRouter has no entry
    CounterMax,  \* numeric_limits<uint16_t>::max()
    Capacity,    \* routes_q::CAPACITY
    Pool,        \* whether the context runs on several threads
    Probes       \* whether the two unconditional cuabort(res) are there, as they
                 \* are in the code; without them it can be seen what the rest does

ASSUME SessionsAssumption == NoSession \notin Sessions
ASSUME CounterAssumption == CounterMax \in Nat /\ CounterMax > 2
ASSUME CapacityAssumption == Capacity \in Nat /\ Capacity > 0
ASSUME FlagsAssumption == Pool \in BOOLEAN /\ Probes \in BOOLEAN

\* Host numbers a client can get: 0 and CounterMax belong to the network, 1 to
\* the tun device itself.
Addresses == 2 .. CounterMax - 1

NoAddress == 0   \* assigned_address is empty
NoSize == -1     \* size_t size = -1, a value no queue length equals

\* aq_route
Records == [add : BOOLEAN, addr : Addresses, con : Sessions]
AddRecord(s, a) == [add |-> TRUE, addr |-> a, con |-> s]
RemoveRecord(s, a) == [add |-> FALSE, addr |-> a, con |-> s]

VARIABLES
    pc,         \* pc[s]: where the coroutine of session s is
    addr,       \* addr[s]: its assigned_address, kept after the end as history
    unmatched,  \* history: sessions that got an address and never registered
    counter,    \* unique_address_counter
    used,       \* unique_address_set
    queue,      \* tunQueue
    router,     \* tunRouter
    rpc,        \* where routeTunToClients is
    local,      \* local_handle of emptyQueue
    prev,       \* prev_size
    size,       \* size
    todo,       \* size_ - i, the iterations left of the for loop
    aborted     \* cuabort was called

sessionVars == <<pc, addr, unmatched>>
poolVars == <<counter, used>>
retryVars == <<prev, size, todo>>
vars == <<pc, addr, unmatched, counter, used, queue, router, rpc, local, prev,
          size, todo, aborted>>

SessionPcs == {"new", "handshake", "probe", "sendip", "data", "unregister",
               "release", "done"}
RouterPcs == {"read", "drain", "retry", "round", "lookup"}

Init ==
    /\ pc = [s \in Sessions |-> "new"]
    /\ addr = [s \in Sessions |-> NoAddress]
    /\ unmatched = {}
    /\ counter = 1
    /\ used = {}
    /\ queue = <<>>
    /\ router = [a \in Addresses |-> NoSession]
    /\ rpc = "read"
    /\ local = <<>>
    /\ prev = 0
    /\ size = NoSize
    /\ todo = 0
    /\ aborted = FALSE

-----------------------------------------------------------------------------
(* Scheduling.  A session is inside a piece of code without co_await while  *)
(* it probes for an address and between its last push and its end; the      *)
(* router is everywhere but at its reads and sends.                         *)

Inside == {s \in Sessions : pc[s] \in {"probe", "release"}}
SessionMayRun(s) ==
    /\ ~aborted
    /\ Pool \/ (rpc = "read" /\ Inside \subseteq {s})
RouterMayRun ==
    /\ ~aborted
    /\ Pool \/ Inside = {}

\* unique_address_mutex is held by getNewAddress until it has found an address.
MutexFree == \A s \in Sessions : pc[s] # "probe"

-----------------------------------------------------------------------------
(* The session coroutine.                                                   *)

Goto(s, l) == pc' = [pc EXCEPT ![s] = l]

\* acceptConnection got a socket and starts the detached coroutine.
StartConnection(s) ==
    /\ SessionMayRun(s)
    /\ pc[s] = "new"
    /\ Goto(s, "handshake")
    /\ UNCHANGED <<addr, unmatched, poolVars, queue, router, rpc, local,
                   retryVars, aborted>>

\* exchangeAESkey or authenticateUser throws, or the login is not allowed: the
\* coroutine ends before an address was assigned.
HandshakeFails(s) ==
    /\ SessionMayRun(s)
    /\ pc[s] = "handshake"
    /\ Goto(s, "done")
    /\ UNCHANGED <<addr, unmatched, poolVars, queue, router, rpc, local,
                   retryVars, aborted>>

\* The login is allowed: getNewAddress takes the mutex.
EnterGetNewAddress(s) ==
    /\ SessionMayRun(s)
    /\ pc[s] = "handshake"
    /\ MutexFree
    /\ Goto(s, "probe")
    /\ UNCHANGED <<addr, unmatched, poolVars, queue, router, rpc, local,
                   retryVars, aborted>>

\* Mutant of NextCounter: the counter starts again with every try.
NextCounterRestarts(c) == 2

NextCounter(c) == IF c + 1 = CounterMax THEN 2 ELSE c + 1

\* One iteration of the do-while loop of getNewAddress.  The diagnostic abort
\* in the loop body comes before the test for a free address.
ProbeAddress(s) ==
    /\ SessionMayRun(s)
    /\ pc[s] = "probe"
    /\ counter' = NextCounter(counter)
    /\ aborted' = Probes
    /\ IF Probes \/ counter' \in used
       THEN UNCHANGED <<pc, addr, used>>
       ELSE /\ used' = used \union {counter'}
            /\ addr' = [addr EXCEPT ![s] = counter']
            /\ Goto(s, "sendip")
    /\ UNCHANGED <<unmatched, queue, router, rpc, local, retryVars>>

\* Mutant of SendIpFails: the early return skips the unregister part.
SendIpFailsLeaks(s) ==
    /\ SessionMayRun(s)
    /\ pc[s] = "sendip"
    /\ Goto(s, "done")
    /\ UNCHANGED <<addr, unmatched, poolVars, queue, router, rpc, local,
                   retryVars, aborted>>

\* sendIp closes the connection and throws; the handler falls through to the
\* unregister part although no route was ever registered.
SendIpFails(s) ==
    /\ SessionMayRun(s)
    /\ pc[s] = "sendip"
    /\ Goto(s, "unregister")
    /\ unmatched' = unmatched \union {s}
    /\ UNCHANGED <<addr, poolVars, queue, router, rpc, local, retryVars, aborted>>

\* The address is sent; try_push of the add record.  A full queue closes the
\* connection and throws, with the same consequence.
Register(s) ==
    /\ SessionMayRun(s)
    /\ pc[s] = "sendip"
    /\ IF Len(queue) < Capacity
       THEN /\ queue' = Append(queue, AddRecord(s, addr[s]))
            /\ Goto(s, "data")
            /\ UNCHANGED unmatched
       ELSE /\ Goto(s, "unregister")
            /\ unmatched' = unmatched \union {s}
            /\ UNCHANGED queue
    /\ UNCHANGED <<addr, poolVars, router, rpc, local, retryVars, aborted>>

\* Mutants of DataExchangeEnds: the session forgets to unregister; it gives its
\* address back before it unregisters.
DataExchangeEndsForgets(s) ==
    /\ SessionMayRun(s)
    /\ pc[s] = "data"
    /\ Goto(s, "release")
    /\ UNCHANGED <<addr, unmatched, poolVars, queue, router, rpc, local,
                   retryVars, aborted>>
DataExchangeEndsFrees(s) ==
    /\ SessionMayRun(s)
    /\ pc[s] = "data"
    /\ Goto(s, "unregister")
    /\ used' = used \ {addr[s]}
    /\ UNCHANGED <<addr, unmatched, counter, queue, router, rpc, local,
                   retryVars, aborted>>

\* performDataExchange returns or throws.
DataExchangeEnds(s) ==
    /\ SessionMayRun(s)
    /\ pc[s] = "data"
    /\ Goto(s, "unregister")
    /\ UNCHANGED <<addr, unmatched, poolVars, queue, router, rpc, local,
                   retryVars, aborted>>

\* The push of the remove record is repeated, with a reschedule in between,
\* until the queue has room.
PushUnregister(s) ==
    /\ SessionMayRun(s)
    /\ pc[s] = "unregister"
    /\ Len(queue) < Capacity
    /\ queue' = Append(queue, RemoveRecord(s, addr[s]))
    /\ Goto(s, "release")
    /\ UNCHANGED <<addr, unmatched, poolVars, router, rpc, local, retryVars,
                   aborted>>

\* The address goes back to the pool, under the mutex.
ReleaseAddress(s) ==
    /\ SessionMayRun(s)
    /\ pc[s] = "release"
    /\ MutexFree
    /\ used' = used \ {addr[s]}
    /\ Goto(s, "done")
    /\ UNCHANGED <<addr, unmatched, counter, queue, router, rpc, local,
                   retryVars, aborted>>

-----------------------------------------------------------------------------
(* routeTunToClients and emptyQueue.                                        *)

\* Mutants: a remove waits for its route to disappear; a remove is not applied.
MustWaitRouted(e) == router[e.addr] # NoSession
AppliedKeeps(e) == IF e.add THEN [router EXCEPT ![e.addr] = e.con] ELSE router

\* A record has to wait: an add whose address is still routed, a remove whose
\* address is not routed yet.
MustWait(e) == e.add <=> router[e.addr] # NoSession

\* What is written in tunRouter for a record that need not wait.
Applied(e) == [router EXCEPT ![e.addr] = IF e.add THEN e.con ELSE NoSession]

\* Mutant of TunRead: the packet is looked up without emptyQueue.
TunReadSkipsQueue ==
    /\ RouterMayRun
    /\ rpc = "read"
    /\ rpc' \in {"drain", "lookup"}
    /\ UNCHANGED <<sessionVars, poolVars, queue, router, local, retryVars, aborted>>

\* The read of the tun device ends with a packet or by its timeout, and
\* emptyQueue starts with an empty local queue.
TunRead ==
    /\ RouterMayRun
    /\ rpc = "read"
    /\ rpc' = "drain"
    /\ UNCHANGED <<sessionVars, poolVars, queue, router, local, retryVars, aborted>>

\* One iteration of the first loop of emptyQueue.
DrainPop ==
    /\ RouterMayRun
    /\ rpc = "drain"
    /\ queue # <<>>
    /\ queue' = Tail(queue)
    /\ IF MustWait(Head(queue))
       THEN local' = Append(local, Head(queue)) /\ UNCHANGED router
       ELSE router' = Applied(Head(queue)) /\ UNCHANGED local
    /\ UNCHANGED <<sessionVars, poolVars, rpc, retryVars, aborted>>

\* tunQueue was empty: return, or go on with the records that had to wait.
DrainEnds ==
    /\ RouterMayRun
    /\ rpc = "drain"
    /\ queue = <<>>
    /\ rpc' = IF local = <<>> THEN "lookup" ELSE "retry"
    /\ prev' = Len(local)
    /\ size' = NoSize
    /\ UNCHANGED <<sessionVars, poolVars, queue, router, local, todo, aborted>>

\* Mutant of RetryCheck: rounds that change nothing are repeated.
RetryCheckForever ==
    /\ RouterMayRun
    /\ rpc = "retry"
    /\ prev' = size
    /\ todo' = Len(local)
    /\ rpc' = "round"
    /\ UNCHANGED <<sessionVars, poolVars, queue, router, local, size, aborted>>

\* The top of the do-while loop: two rounds that left the same number of
\* records waiting mean that no round will apply them, and they are dropped.
RetryCheck ==
    /\ RouterMayRun
    /\ rpc = "retry"
    /\ IF prev = size
       THEN local' = <<>> /\ rpc' = "lookup" /\ UNCHANGED <<prev, todo>>
       ELSE prev' = size /\ todo' = Len(local) /\ rpc' = "round" /\ UNCHANGED local
    /\ UNCHANGED <<sessionVars, poolVars, queue, router, size, aborted>>

\* One iteration of the for loop: a record that must still wait goes to the end.
RoundStep ==
    /\ RouterMayRun
    /\ rpc = "round"
    /\ todo > 0
    /\ todo' = todo - 1
    /\ IF MustWait(Head(local))
       THEN local' = Append(Tail(local), Head(local)) /\ UNCHANGED router
       ELSE local' = Tail(local) /\ router' = Applied(Head(local))
    /\ UNCHANGED <<sessionVars, poolVars, queue, rpc, prev, size, aborted>>

\* The end of the for loop and the condition of the do-while loop.
RoundEnds ==
    /\ RouterMayRun
    /\ rpc = "round"
    /\ todo = 0
    /\ size' = Len(local)
    /\ rpc' = IF local = <<>> THEN "lookup" ELSE "retry"
    /\ UNCHANGED <<sessionVars, poolVars, queue, router, local, prev, todo, aborted>>

\* The packet, if there is one, is looked up in tunRouter and sent; the
\* coroutine is at a co_await again.  The second diagnostic abort precedes the
\* lookup of every IPv4 packet.
Lookup ==
    /\ RouterMayRun
    /\ rpc = "lookup"
    /\ rpc' = "read"
    /\ aborted' \in {FALSE, Probes}
    /\ UNCHANGED <<sessionVars, poolVars, queue, router, local, retryVars>>

-----------------------------------------------------------------------------
SessionStep(s) ==
    \/ StartConnection(s)
    \/ HandshakeFails(s)
    \/ EnterGetNewAddress(s)
    \/ ProbeAddress(s)
    \/ SendIpFails(s)
    \/ Register(s)
    \/ DataExchangeEnds(s)
    \/ PushUnregister(s)
    \/ ReleaseAddress(s)

RouterStep ==
    \/ TunRead
    \/ DrainPop
    \/ DrainEnds
    \/ RetryCheck
    \/ RoundStep
    \/ RoundEnds
    \/ Lookup

Next == RouterStep \/ \E s \in Sessions : SessionStep(s)

Spec == Init /\ [][Next]_vars

\* The io_context runs its ready handlers in turn, so a coroutine that is ready
\* again and again is resumed (strong fairness: with one thread a session is
\* not ready while the router runs), and the tun read has a timeout.  A client
\* may stay silent: nothing makes a connection arrive, a handshake end or a
\* data exchange end.
OwnStep(s) ==
    ProbeAddress(s) \/ SendIpFails(s) \/ Register(s) \/ PushUnregister(s) \/ ReleaseAddress(s)
Fairness == WF_vars(RouterStep) /\ \A s \in Sessions : SF_vars(OwnStep(s))

FairSpec == Spec /\ Fairness

-----------------------------------------------------------------------------
(* Safety.                                                                  *)

\* Sessions whose address is in use: from getNewAddress until the erase at the
\* end of startConnection.
Holders == {s \in Sessions : pc[s] \in {"sendip", "data", "unregister", "release"}}

\* Type invariant of the session coroutines, the pool, tunQueue and emptyQueue.
TypeOK ==
    /\ pc \in [Sessions -> SessionPcs]
    /\ addr \in [Sessions -> Addresses \union {NoAddress}]
    /\ unmatched \subseteq Sessions
    /\ counter \in 1 .. CounterMax - 1
    /\ used \subseteq Addresses
    /\ queue \in Seq(Records)
    /\ Len(queue) <= Capacity
    /\ router \in [Addresses -> Sessions \union {NoSession}]
    /\ rpc \in RouterPcs
    /\ local \in Seq(Records)
    /\ prev \in Nat \union {NoSize}
    /\ size \in Nat \union {NoSize}
    /\ todo \in Nat
    /\ rpc = "round" => todo <= Len(local)
    /\ aborted \in BOOLEAN

\* No two live sessions share an address, and unique_address_set holds exactly
\* the addresses of the live ones: none is leaked by an early end of
\* startConnection, and none is free while it is in use.
UniqueAddresses ==
    /\ \A s, t \in Holders : addr[s] = addr[t] => s = t
    /\ used = {addr[s] : s \in Holders}

Queued(s, add) == \E i \in 1 .. Len(queue) : queue[i].con = s /\ queue[i].add = add

\* A route names a session that was given that address and either still holds
\* it or has its remove record in tunQueue: no route outlives its session by
\* more than one run of emptyQueue.
RoutesOwned ==
    \A a \in Addresses : router[a] # NoSession =>
        /\ addr[router[a]] = a
        /\ router[a] \in Holders \/ Queued(router[a], FALSE)

\* When a packet is looked up, the session it is sent to is a live one that
\* holds the packet's destination address: a packet for a new owner of a
\* reused address never goes to the old one.
PacketsReachOwner ==
    rpc = "lookup" /\ ~Pool =>
        \A a \in Addresses : router[a] # NoSession =>
            addr[router[a]] = a /\ pc[router[a]] \in {"data", "unregister"}

\* An add record at the head of tunQueue finds its address unrouted: because a
\* session pushes its remove before it frees the address, the "wasnt deleted
\* yet, requeue" branch of emptyQueue is never taken.
AddsNeverWait ==
    rpc = "drain" /\ queue # <<>> /\ Head(queue).add => ~MustWait(Head(queue))

\* The retry loop of emptyQueue has records only when some session unregistered
\* without having registered.
RetryOnlyForOrphans == local # <<>> => unmatched # {}

\* As long as every session registered before it unregistered, a session in
\* its data exchange is routed or its add record is on the way.
ActiveRoutedOrPending ==
    unmatched = {} => \A s \in Sessions : pc[s] = "data" =>
        router[addr[s]] = s \/ Queued(s, TRUE)

\* "all possible active connections are in router now", the comment on the
\* lookup in routeTunToClients; it needs a condition (ActiveSessionsRouted).
EveryActiveSessionRouted ==
    rpc = "lookup" /\ ~Pool =>
        \A s \in Sessions : pc[s] = "data" => router[addr[s]] = s

\* The same under the condition it needs: no session unregistered a route it
\* had not registered.
ActiveSessionsRouted == unmatched = {} => EveryActiveSessionRouted

-----------------------------------------------------------------------------
(* Refinement.                                                              *)

\* A session leases its address while it is live, and a route counts as long
\* as it leads to a live session: what tunRouter still has of a session that
\* gave its address back only waits to be erased.
Lease == [s \in Sessions |-> IF s \in Holders THEN addr[s] ELSE NoAddress]
Route == [a \in Addresses |-> IF router[a] \in Holders THEN router[a] ELSE NoSession]

Leases == INSTANCE AddressPool WITH lease <- Lease, route <- Route

\* The pool, tunQueue and emptyQueue together behave as a table of leases and
\* routes that is updated at once: however late the records of a session are
\* applied, in whatever order, no route is set for a session that does not
\* have its address, none is replaced, and none outlives the lease.
ImplementsAddressPool == Leases!Spec

-----------------------------------------------------------------------------
(* Liveness.                                                                *)

\* A session probes although no address is free: with one thread it never stops,
\* and nobody else runs (getNewAddress has no way out for a full pool).
Exhausted == used = Addresses /\ \E s \in Sessions : pc[s] = "probe"

\* getNewAddress returns whenever an address is free when it starts.
AddressGranted ==
    \A s \in Sessions :
        pc[s] = "probe" /\ Cardinality(Holders) < Cardinality(Addresses)
            ~> pc[s] = "sendip"

\* "send ip, that client should assign to their tun" (sessionscontrol.hpp:41): a
\* session whose login was allowed gets from getNewAddress to sendIp.
AddressIsSent ==
    \A s \in Sessions : pc[s] = "probe" ~> pc[s] = "sendip" \/ Exhausted

\* emptyQueue returns, whatever records it finds.
EmptyQueueReturns == rpc = "drain" ~> rpc = "read"

\* A session that is over disappears from tunRouter for good, unless the pool is
\* exhausted.
RoutesForgotten ==
    \A s \in Sessions :
        pc[s] = "done" ~> Exhausted \/ [](\A a \in Addresses : router[a] # s)
=============================================================================
