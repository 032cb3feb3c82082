---------------------------- MODULE AddressPool ----------------------------
(* What the address pool and the route table promise, without tunQueue, the *)
(* retries of emptyQueue or the order of coroutines: an address is leased   *)
(* to one session at a time, a route leads to the session that leases its   *)
(* address, and giving an address back takes its route away at once.        *)
(* SessionRoutes implements this specification.                             *)
CONSTANTS
    Sessions,   \* the sessions of clients
    Addresses,  \* the host numbers they can lease
    NoSession,  \* an address without a route
    NoAddress   \* a session without a lease

VARIABLES
    lease,      \* lease[s]: the address session s has
    route       \* route[a]: the session that packets for address a go to

leaseVars == <<lease, route>>

Init ==
    /\ lease = [s \in Sessions |-> NoAddress]
    /\ route = [a \in Addresses |-> NoSession]

\* s gets an address that nobody has.
Grant(s) ==
    /\ lease[s] = NoAddress
    /\ \E a \in Addresses :
         /\ \A t \in Sessions : lease[t] # a
         /\ lease' = [lease EXCEPT ![s] = a]
    /\ UNCHANGED route

\* The address of s, unrouted so far, is routed to s.
Attach(s) ==
    /\ lease[s] # NoAddress
    /\ route[lease[s]] = NoSession
    /\ route' = [route EXCEPT ![lease[s]] = s]
    /\ UNCHANGED lease

\* The route of an address is taken away.
Detach(a) ==
    /\ route[a] # NoSession
    /\ route' = [route EXCEPT ![a] = NoSession]
    /\ UNCHANGED lease

\* s gives its address back, and the route with it.
GiveBack(s) ==
    /\ lease[s] # NoAddress
    /\ lease' = [lease EXCEPT ![s] = NoAddress]
    /\ route' = [a \in Addresses |-> IF route[a] = s THEN NoSession ELSE route[a]]

Next ==
    \/ \E s \in Sessions : Grant(s) \/ Attach(s) \/ GiveBack(s)
    \/ \E a \in Addresses : Detach(a)

Spec == Init /\ [][Next]_leaseVars
=============================================================================
