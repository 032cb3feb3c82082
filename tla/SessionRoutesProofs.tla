------------------------ MODULE SessionRoutesProofs ------------------------
(* Proofs that the properties of SessionRoutes hold for any set of          *)
(* sessions, any size of the address pool and any capacity of tunQueue,     *)
(* with one thread or with several.                                         *)
EXTENDS SessionRoutes, SequenceTheorems, TLAPS

-----------------------------------------------------------------------------
(* The inductive invariant.                                                 *)

Ended == {"release", "done"}                                \* remove record pushed
Registered == {"data", "unregister", "release", "done"}     \* add record may be pushed

\* The position k of tunQueue has the remove record of session s.
RemoveAt(k, s) == ~queue[k].add /\ queue[k].con = s
AddAt(k, s) == queue[k].add /\ queue[k].con = s

\* A record carries the address of its session, and tells how far it has come.
QueueInv ==
    \A i \in 1 .. Len(queue) :
        /\ queue[i].addr = addr[queue[i].con]
        /\ queue[i].add => pc[queue[i].con] \in Registered
        /\ ~queue[i].add => pc[queue[i].con] \in Ended

\* An entry of tunRouter is that of a session that registered its address.
RouterInv ==
    \A a \in Addresses : router[a] # NoSession =>
        addr[router[a]] = a /\ pc[router[a]] \in Registered

\* A route whose session has ended has its remove record in tunQueue.
RemovePending ==
    \A a \in Addresses : router[a] # NoSession /\ pc[router[a]] \in Ended =>
        \E k \in 1 .. Len(queue) : RemoveAt(k, router[a])

\* So has an add record whose session has ended, behind it.
RemoveBehindAdd ==
    \A i \in 1 .. Len(queue) : queue[i].add /\ pc[queue[i].con] \in Ended =>
        \E k \in i + 1 .. Len(queue) : RemoveAt(k, queue[i].con)

\* Before an add record for a routed address, the route's remove is in the queue.
RemoveBeforeAdd ==
    \A j \in 1 .. Len(queue) : queue[j].add /\ router[queue[j].addr] # NoSession =>
        \E k \in 1 .. j - 1 : RemoveAt(k, router[queue[j].addr])

\* Between two add records for one address, the remove of the first is.
RemoveBetweenAdds ==
    \A i, j \in 1 .. Len(queue) :
        i < j /\ queue[i].add /\ queue[j].add /\ queue[i].addr = queue[j].addr =>
            \E k \in i + 1 .. j - 1 : RemoveAt(k, queue[i].con)

\* Only removes are ever put aside.
LocalInv == \A i \in 1 .. Len(local) : ~local[i].add

\* With one thread, tunQueue stays empty from the end of the first loop of
\* emptyQueue to the next read.
EmptyAfterDrain == ~Pool /\ rpc \in {"retry", "round", "lookup"} => queue = <<>>

PathInv ==
    /\ QueueInv
    /\ RouterInv
    /\ RemovePending
    /\ RemoveBehindAdd
    /\ RemoveBeforeAdd
    /\ RemoveBetweenAdds

Inv == TypeOK /\ UniqueAddresses /\ PathInv /\ LocalInv /\ EmptyAfterDrain

\* What holds besides while every unregister had its register.
OneRemove ==
    \A i, k \in 1 .. Len(queue) :
        ~queue[i].add /\ ~queue[k].add /\ queue[i].con = queue[k].con => i = k
NothingAside == local = <<>>
LiveReachable ==
    \A s \in Sessions : pc[s] \in {"data", "unregister"} =>
        router[addr[s]] = s \/ \E i \in 1 .. Len(queue) : AddAt(i, s)
RemoveHasRoute ==
    \A k \in 1 .. Len(queue) : ~queue[k].add =>
        \/ router[queue[k].addr] = queue[k].con
        \/ \E i \in 1 .. k - 1 : AddAt(i, queue[k].con)

MatchedInv ==
    /\ OneRemove
    /\ unmatched = {} => NothingAside /\ LiveReachable /\ RemoveHasRoute

-----------------------------------------------------------------------------
(* Lemmas.                                                                  *)

\* The counter of getNewAddress stays among the host numbers a client can get.
LEMMA NextCounterInRange ==
    ASSUME NEW c \in 1 .. CounterMax - 1
    PROVE  NextCounter(c) \in Addresses /\ NextCounter(c) \in 1 .. CounterMax - 1
  BY CounterAssumption DEF NextCounter, Addresses

\* What a push at the end of tunQueue or of local_handle does.
LEMMA PushFacts ==
    ASSUME NEW S, NEW q \in Seq(S), NEW e \in S
    PROVE  /\ Append(q, e) \in Seq(S)
           /\ Len(Append(q, e)) = Len(q) + 1
           /\ Append(q, e)[Len(q) + 1] = e
           /\ \A i \in 1 .. Len(q) : Append(q, e)[i] = q[i]
  OBVIOUS

\* What a pop from their head does.
LEMMA PopFacts ==
    ASSUME NEW S, NEW q \in Seq(S), q # <<>>
    PROVE  /\ Tail(q) \in Seq(S)
           /\ Len(q) \in Nat /\ Len(q) > 0
           /\ Len(Tail(q)) = Len(q) - 1
           /\ Head(q) = q[1] /\ q[1] \in S
           /\ \A i \in 1 .. Len(q) - 1 : Tail(q)[i] = q[i + 1]
  OBVIOUS

\* The entries of tunQueue name sessions and addresses.
LEMMA QueueFields ==
    ASSUME TypeOK, NEW i \in 1 .. Len(queue)
    PROVE  queue[i].con \in Sessions /\ queue[i].addr \in Addresses
<1>1. queue[i] \in Records
    <2>1. queue \in Seq(Records) BY DEF TypeOK
    <2> QED BY <2>1, ElementOfSeq
<1> QED BY <1>1 DEF Records

\* The address of a live session is a real address.
LEMMA HolderAddress ==
    ASSUME TypeOK, UniqueAddresses, NEW s \in Holders
    PROVE  s \in Sessions /\ addr[s] \in Addresses
  BY DEF TypeOK, UniqueAddresses, Holders

\* The next-state relation as the list of its actions.
LEMMA NextActions ==
    ASSUME [Next]_vars
    PROVE  \/ TunRead \/ DrainPop \/ DrainEnds \/ RetryCheck \/ RoundStep
           \/ RoundEnds \/ Lookup \/ UNCHANGED vars
           \/ \E s \in Sessions :
                \/ StartConnection(s) \/ HandshakeFails(s) \/ EnterGetNewAddress(s)
                \/ ProbeAddress(s) \/ SendIpFails(s) \/ Register(s)
                \/ DataExchangeEnds(s) \/ PushUnregister(s) \/ ReleaseAddress(s)
  BY DEF Next, RouterStep, SessionStep

-----------------------------------------------------------------------------
(* Types.                                                                   *)

\* Every step keeps the types of the variables.
LEMMA TypeStep == TypeOK /\ UniqueAddresses /\ [Next]_vars => TypeOK'
<1> SUFFICES ASSUME TypeOK, UniqueAddresses, [Next]_vars PROVE TypeOK'
    OBVIOUS
<1> USE CapacityAssumption, FlagsAssumption
<1>1. CASE UNCHANGED vars
    BY <1>1 DEF vars, TypeOK
<1>2. CASE TunRead
    BY <1>2 DEF TunRead, TypeOK, sessionVars, poolVars, retryVars, RouterPcs
<1>3. CASE DrainPop
    <2>1. Head(queue) \in Records /\ Tail(queue) \in Seq(Records) /\ Len(Tail(queue)) <= Capacity
        BY <1>3, PopFacts DEF DrainPop, TypeOK
    <2>2. local' \in Seq(Records)
        BY <1>3, <2>1, PushFacts DEF DrainPop, TypeOK
    <2>3. router' \in [Addresses -> Sessions \union {NoSession}]
        BY <1>3, <2>1 DEF DrainPop, TypeOK, Applied, Records
    <2>4. queue' \in Seq(Records) /\ Len(queue') <= Capacity
        BY <1>3, <2>1 DEF DrainPop
    <2> QED
        BY <1>3, <2>2, <2>3, <2>4 DEF DrainPop, TypeOK, sessionVars, poolVars, retryVars
<1>4. CASE DrainEnds
    BY <1>4 DEF DrainEnds, TypeOK, sessionVars, poolVars, RouterPcs, NoSize
<1>5. CASE RetryCheck
    <2>1. /\ UNCHANGED <<pc, addr, unmatched, counter, used, queue, router, size, aborted>>
          /\ rpc' \in RouterPcs
          /\ local' = local \/ local' = <<>>
        BY <1>5 DEF RetryCheck, sessionVars, poolVars, RouterPcs
    <2>2. /\ prev' \in Nat \union {NoSize} /\ todo' \in Nat
          /\ rpc' = "round" => local' = local /\ todo' = Len(local)
        BY <1>5 DEF RetryCheck, TypeOK
    <2>3. local' \in Seq(Records)
        BY <2>1, EmptySeq, Zenon DEF TypeOK
    <2>4. rpc' = "round" => todo' <= Len(local')
        BY <2>2, <2>3
    <2> QED BY <2>1, <2>2, <2>3, <2>4 DEF TypeOK
<1>6. CASE RoundStep
    <2>1. local # <<>> /\ todo \in Nat /\ todo > 0 /\ todo <= Len(local)
        BY <1>6 DEF RoundStep, TypeOK
    <2>2. /\ Head(local) \in Records /\ Tail(local) \in Seq(Records)
          /\ Len(local) \in Nat /\ Len(Tail(local)) = Len(local) - 1
        BY <2>1, PopFacts DEF TypeOK
    <2>3. /\ Append(Tail(local), Head(local)) \in Seq(Records)
          /\ Len(Append(Tail(local), Head(local))) = Len(local)
        BY <2>2, PushFacts
    <2>4. local' \in Seq(Records) /\ todo' \in Nat /\ todo' <= Len(local')
        BY <1>6, <2>1, <2>2, <2>3 DEF RoundStep
    <2>5. router' \in [Addresses -> Sessions \union {NoSession}]
        BY <1>6, <2>2 DEF RoundStep, TypeOK, Applied, Records
    <2> QED
        BY <1>6, <2>4, <2>5 DEF RoundStep, TypeOK, sessionVars, poolVars
<1>7. CASE RoundEnds
    BY <1>7 DEF RoundEnds, TypeOK, sessionVars, poolVars, RouterPcs
<1>8. CASE Lookup
    BY <1>8 DEF Lookup, TypeOK, sessionVars, poolVars, retryVars, RouterPcs
<1>9. ASSUME NEW s \in Sessions,
             \/ StartConnection(s) \/ HandshakeFails(s) \/ EnterGetNewAddress(s)
             \/ SendIpFails(s) \/ DataExchangeEnds(s) \/ ReleaseAddress(s)
      PROVE  TypeOK'
    BY <1>9 DEF StartConnection, HandshakeFails, EnterGetNewAddress, SendIpFails,
        DataExchangeEnds, ReleaseAddress, Goto, TypeOK, poolVars, retryVars, SessionPcs
<1>10. ASSUME NEW s \in Sessions, ProbeAddress(s) PROVE TypeOK'
    <2>1. counter' \in Addresses /\ counter' \in 1 .. CounterMax - 1
        BY <1>10, NextCounterInRange DEF ProbeAddress, TypeOK
    <2>2. aborted' \in BOOLEAN
        BY <1>10, Zenon DEF ProbeAddress
    <2>3. CASE Probes \/ counter' \in used
        BY <1>10, <2>1, <2>2, <2>3 DEF ProbeAddress, TypeOK, retryVars
    <2>4. CASE ~(Probes \/ counter' \in used)
        <3>1. /\ pc' \in [Sessions -> SessionPcs]
              /\ addr' \in [Sessions -> Addresses \union {NoAddress}]
              /\ used' \subseteq Addresses
            BY <1>10, <2>1, <2>4 DEF ProbeAddress, Goto, TypeOK, SessionPcs
        <3> QED
            BY <1>10, <2>1, <2>2, <3>1 DEF ProbeAddress, TypeOK, retryVars
    <2> QED BY <2>3, <2>4
<1>11. ASSUME NEW s \in Sessions, Register(s) PROVE TypeOK'
    <2>1. AddRecord(s, addr[s]) \in Records
        BY <1>11, HolderAddress DEF Register, Holders, Records, AddRecord
    <2>2. queue' \in Seq(Records) /\ Len(queue') <= Capacity
        <3>1. CASE Len(queue) < Capacity
            <4>1. queue' = Append(queue, AddRecord(s, addr[s]))
                BY <1>11, <3>1 DEF Register
            <4> QED BY <2>1, <3>1, <4>1, PushFacts DEF TypeOK
        <3>2. CASE ~(Len(queue) < Capacity)
            BY <1>11, <3>2 DEF Register, TypeOK
        <3> QED BY <3>1, <3>2
    <2> QED
        BY <1>11, <2>2 DEF Register, Goto, TypeOK, poolVars, retryVars, SessionPcs
<1>12. ASSUME NEW s \in Sessions, PushUnregister(s) PROVE TypeOK'
    <2>1. RemoveRecord(s, addr[s]) \in Records
        BY <1>12, HolderAddress DEF PushUnregister, Holders, Records, RemoveRecord
    <2>2. queue' \in Seq(Records) /\ Len(queue') <= Capacity
        BY <1>12, <2>1, PushFacts DEF PushUnregister, TypeOK
    <2> QED
        BY <1>12, <2>2 DEF PushUnregister, Goto, TypeOK, poolVars, retryVars, SessionPcs
<1> QED
    BY NextActions, <1>1, <1>2, <1>3, <1>4, <1>5, <1>6, <1>7, <1>8, <1>9, <1>10, <1>11, <1>12

-----------------------------------------------------------------------------
(* The address pool.                                                        *)

\* Every step keeps live addresses different and the pool equal to the set of them.
LEMMA UniqueStep == TypeOK /\ UniqueAddresses /\ [Next]_vars => UniqueAddresses'
<1> SUFFICES ASSUME TypeOK, UniqueAddresses, [Next]_vars PROVE UniqueAddresses'
    OBVIOUS
<1>1. ASSUME UNCHANGED <<pc, addr, used>> PROVE UniqueAddresses'
    BY <1>1 DEF UniqueAddresses, Holders
<1>2. CASE TunRead \/ DrainPop \/ DrainEnds \/ RetryCheck \/ RoundStep \/ RoundEnds
           \/ Lookup \/ UNCHANGED vars
    BY <1>1, <1>2 DEF TunRead, DrainPop, DrainEnds, RetryCheck, RoundStep, RoundEnds,
        Lookup, vars, sessionVars, poolVars
<1>3. ASSUME NEW s \in Sessions,
             \/ StartConnection(s) \/ HandshakeFails(s) \/ EnterGetNewAddress(s)
             \/ SendIpFails(s) \/ Register(s) \/ DataExchangeEnds(s) \/ PushUnregister(s)
      PROVE  UniqueAddresses'
    <2>1. Holders' = Holders
        BY <1>3 DEF TypeOK, Holders, Goto, StartConnection, HandshakeFails,
            EnterGetNewAddress, SendIpFails, Register, DataExchangeEnds, PushUnregister
    <2>2. UNCHANGED <<addr, used>>
        BY <1>3 DEF StartConnection, HandshakeFails, EnterGetNewAddress, SendIpFails,
            Register, DataExchangeEnds, PushUnregister, poolVars
    <2> QED BY <2>1, <2>2 DEF UniqueAddresses
<1>4. ASSUME NEW s \in Sessions, ProbeAddress(s) PROVE UniqueAddresses'
    <2>1. CASE Probes \/ counter' \in used
        BY <1>1, <1>4, <2>1 DEF ProbeAddress
    <2>2. CASE ~Probes /\ counter' \notin used
        <3>1. /\ pc' = [pc EXCEPT ![s] = "sendip"]
              /\ addr' = [addr EXCEPT ![s] = counter']
              /\ used' = used \union {counter'}
              /\ pc[s] = "probe"
            BY <1>4, <2>2 DEF ProbeAddress, Goto
        <3>2. s \notin Holders /\ Holders' = Holders \union {s}
            BY <3>1 DEF TypeOK, Holders
        <3>3. addr'[s] = counter' /\ \A t \in Holders : addr'[t] = addr[t]
            BY <3>1, <3>2 DEF TypeOK, Holders
        <3> QED BY <2>2, <3>1, <3>2, <3>3 DEF UniqueAddresses
    <2> QED BY <2>1, <2>2
<1>5. ASSUME NEW s \in Sessions, ReleaseAddress(s) PROVE UniqueAddresses'
    <2>1. /\ pc' = [pc EXCEPT ![s] = "done"] /\ pc[s] = "release"
          /\ addr' = addr /\ used' = used \ {addr[s]}
        BY <1>5 DEF ReleaseAddress, Goto
    <2>2. s \in Holders /\ Holders' = Holders \ {s}
        BY <2>1 DEF TypeOK, Holders
    <2> QED BY <2>1, <2>2 DEF UniqueAddresses
<1> QED BY NextActions, <1>2, <1>3, <1>4, <1>5

-----------------------------------------------------------------------------
(* The way of a registration through tunQueue to tunRouter.                 *)

\* A step that leaves tunQueue and tunRouter alone, and of the sessions that
\* have registered changes at most one from "data" to "unregister" or from
\* "release" to "done".
LEMMA PathFrame ==
    ASSUME TypeOK, PathInv, UNCHANGED <<queue, router>>,
           \A t \in Sessions : pc[t] \in Registered =>
               /\ addr'[t] = addr[t]
               /\ pc'[t] \in Registered
               /\ pc'[t] \in Ended <=> pc[t] \in Ended
    PROVE  PathInv'
<1>1. \A i \in 1 .. Len(queue) :
        queue[i].con \in Sessions /\ queue[i].addr \in Addresses
    BY QueueFields
<1>2. \A a \in Addresses : router[a] # NoSession => router[a] \in Sessions
    BY DEF TypeOK
<1>3. \A i \in 1 .. Len(queue) : pc[queue[i].con] \in Registered
    BY DEF PathInv, QueueInv, Registered, Ended
<1>4. QueueInv' BY <1>1, <1>3 DEF PathInv, QueueInv
<1>5. RouterInv' BY <1>2 DEF PathInv, RouterInv
<1>6. RemovePending' BY <1>2 DEF PathInv, RouterInv, RemovePending, RemoveAt
<1>7. RemoveBehindAdd' BY <1>1, <1>3 DEF PathInv, RemoveBehindAdd, RemoveAt
<1>8. RemoveBeforeAdd' /\ RemoveBetweenAdds'
    BY DEF PathInv, RemoveBeforeAdd, RemoveBetweenAdds, RemoveAt
<1> QED BY <1>4, <1>5, <1>6, <1>7, <1>8 DEF PathInv

\* Register pushes the add record of s.  Whoever had the address before has
\* ended, so its remove record is in tunQueue, in front of the new record.
LEMMA PathRegister ==
    ASSUME Inv, NEW s \in Sessions, pc[s] = "sendip",
           queue' = Append(queue, AddRecord(s, addr[s])),
           pc' = [pc EXCEPT ![s] = "data"], UNCHANGED <<addr, router>>
    PROVE  PathInv'
<1> DEFINE n == Len(queue)
           e == AddRecord(s, addr[s])
<1>1. e \in Records /\ e.add /\ e.addr = addr[s] /\ e.con = s
    BY HolderAddress DEF Inv, Holders, Records, AddRecord
<1>2. /\ n \in Nat /\ Len(queue') = n + 1 /\ queue'[n + 1] = e
      /\ \A i \in 1 .. n : queue'[i] = queue[i]
    BY <1>1, PushFacts DEF Inv, TypeOK
<1>3. \A i \in 1 .. n :
        queue[i].con \in Sessions /\ queue[i].addr \in Addresses
    BY QueueFields DEF Inv
<1>4. \A i \in 1 .. n : pc[queue[i].con] \in Registered /\ queue[i].con # s
    BY DEF Inv, PathInv, QueueInv, Registered, Ended
<1>5. \A a \in Addresses : router[a] # NoSession => router[a] \in Sessions /\ router[a] # s
    BY DEF Inv, TypeOK, PathInv, RouterInv, Registered
<1>6. \A t \in Sessions : t # s => pc'[t] = pc[t]
    BY DEF Inv, TypeOK
<1>7. pc'[s] = "data" BY DEF Inv, TypeOK
<1>8. \A t \in Sessions : pc[t] \in Registered /\ addr[t] = addr[s] => pc[t] \in Ended
    BY DEF Inv, UniqueAddresses, Holders, Registered, Ended
<1>9. QueueInv'
    <2> SUFFICES ASSUME NEW i \in 1 .. n + 1
                 PROVE  /\ queue'[i].addr = addr[queue'[i].con]
                        /\ queue'[i].add => pc'[queue'[i].con] \in Registered
                        /\ ~queue'[i].add => pc'[queue'[i].con] \in Ended
        BY <1>2 DEF QueueInv
    <2>1. CASE i = n + 1 BY <1>1, <1>2, <1>7, <2>1 DEF Registered
    <2>2. CASE i \in 1 .. n
        BY <1>2, <1>3, <1>4, <1>6, <2>2 DEF Inv, PathInv, QueueInv
    <2> QED BY <1>2, <2>1, <2>2
<1>10. RouterInv' BY <1>5, <1>6 DEF Inv, PathInv, RouterInv
<1>11. RemovePending'
    BY <1>2, <1>5, <1>6 DEF Inv, PathInv, RemovePending, RemoveAt
<1>12. RemoveBehindAdd'
    <2> SUFFICES ASSUME NEW i \in 1 .. n + 1, queue'[i].add, pc'[queue'[i].con] \in Ended
                 PROVE  \E k \in i + 1 .. n + 1 : RemoveAt(k, queue[i].con)' /\ i <= n
        BY <1>2 DEF RemoveBehindAdd, RemoveAt
    <2>1. i \in 1 .. n BY <1>1, <1>2, <1>7 DEF Ended
    <2>2. PICK k \in i + 1 .. n : RemoveAt(k, queue[i].con)
        BY <1>2, <1>3, <1>4, <1>6, <2>1 DEF Inv, PathInv, RemoveBehindAdd
    <2> QED BY <1>2, <2>1, <2>2 DEF RemoveAt
<1>13. RemoveBeforeAdd'
    <2> SUFFICES ASSUME NEW j \in 1 .. n + 1, queue'[j].add,
                        router[queue'[j].addr] # NoSession
                 PROVE  \E k \in 1 .. j - 1 :
                            ~queue'[k].add /\ queue'[k].con = router[queue'[j].addr]
        BY <1>2 DEF RemoveBeforeAdd, RemoveAt
    <2>1. CASE j = n + 1
        <3>1. queue'[j].addr = addr[s] /\ addr[s] \in Addresses
            BY <1>1, <1>2, <2>1 DEF Records
        <3>2. router[addr[s]] \in Sessions /\ pc[router[addr[s]]] \in Ended
            BY <1>5, <1>8, <3>1 DEF Inv, PathInv, RouterInv
        <3>3. PICK k \in 1 .. n : RemoveAt(k, router[addr[s]])
            BY <3>1, <3>2 DEF Inv, PathInv, RemovePending
        <3> QED BY <1>2, <2>1, <3>1, <3>3 DEF RemoveAt
    <2>2. CASE j \in 1 .. n
        <3>1. PICK k \in 1 .. j - 1 : RemoveAt(k, router[queue[j].addr])
            BY <1>2, <2>2 DEF Inv, PathInv, RemoveBeforeAdd
        <3> QED BY <1>2, <2>2, <3>1 DEF RemoveAt
    <2> QED BY <1>2, <2>1, <2>2
<1>14. RemoveBetweenAdds'
    <2> SUFFICES ASSUME NEW i \in 1 .. n + 1, NEW j \in 1 .. n + 1, i < j,
                        queue'[i].add, queue'[j].add, queue'[i].addr = queue'[j].addr
                 PROVE  \E k \in i + 1 .. j - 1 :
                            ~queue'[k].add /\ queue'[k].con = queue'[i].con
        BY <1>2 DEF RemoveBetweenAdds, RemoveAt
    <2>1. i \in 1 .. n BY <1>2
    <2>2. CASE j = n + 1
        <3>1. addr[queue[i].con] = addr[s] /\ queue[i].add
            BY <1>1, <1>2, <2>1, <2>2 DEF Inv, PathInv, QueueInv
        <3>2. pc[queue[i].con] \in Ended BY <1>3, <1>4, <1>8, <2>1, <3>1
        <3>3. PICK k \in i + 1 .. n : RemoveAt(k, queue[i].con)
            BY <2>1, <3>1, <3>2 DEF Inv, PathInv, RemoveBehindAdd
        <3> QED BY <1>2, <2>1, <2>2, <3>3 DEF RemoveAt
    <2>3. CASE j \in 1 .. n
        <3>1. PICK k \in i + 1 .. j - 1 : RemoveAt(k, queue[i].con)
            BY <1>2, <2>1, <2>3 DEF Inv, PathInv, RemoveBetweenAdds
        <3> QED BY <1>2, <2>1, <2>3, <3>1 DEF RemoveAt
    <2> QED BY <1>2, <2>2, <2>3
<1> QED BY <1>9, <1>10, <1>11, <1>12, <1>13, <1>14 DEF PathInv

\* PushUnregister puts the remove record of s behind everything s has queued.
LEMMA PathUnregister ==
    ASSUME Inv, NEW s \in Sessions, pc[s] = "unregister",
           queue' = Append(queue, RemoveRecord(s, addr[s])),
           pc' = [pc EXCEPT ![s] = "release"], UNCHANGED <<addr, router>>
    PROVE  PathInv'
<1> DEFINE n == Len(queue)
           e == RemoveRecord(s, addr[s])
<1>1. e \in Records /\ ~e.add /\ e.addr = addr[s] /\ e.con = s
    BY HolderAddress DEF Inv, Holders, Records, RemoveRecord
<1>2. /\ n \in Nat /\ Len(queue') = n + 1 /\ queue'[n + 1] = e
      /\ \A i \in 1 .. n : queue'[i] = queue[i]
    BY <1>1, PushFacts DEF Inv, TypeOK
<1>3. \A i \in 1 .. n : queue[i].con \in Sessions /\ queue[i].addr \in Addresses
    BY QueueFields DEF Inv
<1>4. \A a \in Addresses : router[a] # NoSession => router[a] \in Sessions
    BY DEF Inv, TypeOK
<1>5. /\ \A t \in Sessions : t # s => pc'[t] = pc[t]
      /\ pc'[s] = "release"
    BY DEF Inv, TypeOK
<1>6. QueueInv'
    <2> SUFFICES ASSUME NEW i \in 1 .. n + 1
                 PROVE  /\ queue'[i].addr = addr[queue'[i].con]
                        /\ queue'[i].add => pc'[queue'[i].con] \in Registered
                        /\ ~queue'[i].add => pc'[queue'[i].con] \in Ended
        BY <1>2 DEF QueueInv
    <2>1. CASE i = n + 1 BY <1>1, <1>2, <1>5, <2>1 DEF Ended
    <2>2. CASE i \in 1 .. n
        BY <1>2, <1>3, <1>5, <2>2 DEF Inv, PathInv, QueueInv, Registered, Ended
    <2> QED BY <1>2, <2>1, <2>2
<1>7. RouterInv' BY <1>4, <1>5 DEF Inv, PathInv, RouterInv, Registered
<1>8. RemovePending'
    <2> SUFFICES ASSUME NEW a \in Addresses, router[a] # NoSession, pc'[router[a]] \in Ended
                 PROVE  \E k \in 1 .. n + 1 : ~queue'[k].add /\ queue'[k].con = router[a]
        BY <1>2 DEF RemovePending, RemoveAt
    <2>1. CASE router[a] = s BY <1>1, <1>2, <2>1
    <2>2. CASE router[a] # s
        <3>1. PICK k \in 1 .. n : RemoveAt(k, router[a])
            BY <1>4, <1>5, <2>2 DEF Inv, PathInv, RemovePending
        <3> QED BY <1>2, <3>1 DEF RemoveAt
    <2> QED BY <2>1, <2>2
<1>9. RemoveBehindAdd'
    <2> SUFFICES ASSUME NEW i \in 1 .. n + 1, queue'[i].add, pc'[queue'[i].con] \in Ended
                 PROVE  \E k \in i + 1 .. n + 1 :
                            ~queue'[k].add /\ queue'[k].con = queue'[i].con
        BY <1>2 DEF RemoveBehindAdd, RemoveAt
    <2>1. i \in 1 .. n BY <1>1, <1>2
    <2>2. CASE queue[i].con = s BY <1>1, <1>2, <2>1, <2>2
    <2>3. CASE queue[i].con # s
        <3>1. PICK k \in i + 1 .. n : RemoveAt(k, queue[i].con)
            BY <1>2, <1>3, <1>5, <2>1, <2>3 DEF Inv, PathInv, RemoveBehindAdd
        <3> QED BY <1>2, <2>1, <3>1 DEF RemoveAt
    <2> QED BY <2>2, <2>3
<1>10. RemoveBeforeAdd'
    <2> SUFFICES ASSUME NEW j \in 1 .. n + 1, queue'[j].add,
                        router[queue'[j].addr] # NoSession
                 PROVE  \E k \in 1 .. j - 1 :
                            ~queue'[k].add /\ queue'[k].con = router[queue'[j].addr]
        BY <1>2 DEF RemoveBeforeAdd, RemoveAt
    <2>1. j \in 1 .. n BY <1>1, <1>2
    <2>2. PICK k \in 1 .. j - 1 : RemoveAt(k, router[queue[j].addr])
        BY <1>2, <2>1 DEF Inv, PathInv, RemoveBeforeAdd
    <2> QED BY <1>2, <2>1, <2>2 DEF RemoveAt
<1>11. RemoveBetweenAdds'
    <2> SUFFICES ASSUME NEW i \in 1 .. n + 1, NEW j \in 1 .. n + 1, i < j,
                        queue'[i].add, queue'[j].add, queue'[i].addr = queue'[j].addr
                 PROVE  \E k \in i + 1 .. j - 1 :
                            ~queue'[k].add /\ queue'[k].con = queue'[i].con
        BY <1>2 DEF RemoveBetweenAdds, RemoveAt
    <2>0. j # n + 1 BY <1>1, <1>2
    <2>1. i \in 1 .. n /\ j \in 1 .. n BY <1>2, <2>0
    <2>2. PICK k \in i + 1 .. j - 1 : RemoveAt(k, queue[i].con)
        BY <1>2, <2>1 DEF Inv, PathInv, RemoveBetweenAdds
    <2> QED BY <1>2, <2>1, <2>2 DEF RemoveAt
<1> QED BY <1>6, <1>7, <1>8, <1>9, <1>10, <1>11 DEF PathInv

\* An add record at the head of tunQueue need not wait: the remove that would
\* have to be in front of it is not.
LEMMA HeadAddApplies ==
    ASSUME Inv, queue # <<>>, Head(queue).add
    PROVE  router[Head(queue).addr] = NoSession
<1>1. Head(queue) = queue[1] /\ Len(queue) \in Nat /\ Len(queue) > 0
    BY PopFacts DEF Inv, TypeOK
<1> QED BY <1>1 DEF Inv, PathInv, RemoveBeforeAdd

\* DrainPop: the records move one position to the head, and the route of the
\* first one is entered or erased.
LEMMA PathPop ==
    ASSUME Inv, DrainPop
    PROVE  PathInv'
<1> DEFINE n == Len(queue)
           e == Head(queue)
           a0 == e.addr
           s == e.con
<1>1. /\ queue # <<>> /\ queue' = Tail(queue) /\ UNCHANGED <<pc, addr>>
      /\ router' = IF MustWait(e) THEN router ELSE Applied(e)
    BY DEF DrainPop, sessionVars
<1>2. /\ n \in Nat /\ n > 0 /\ Len(queue') = n - 1 /\ e = queue[1]
      /\ \A i \in 1 .. n - 1 : queue'[i] = queue[i + 1]
    BY <1>1, PopFacts DEF Inv, TypeOK
<1>3. \A i \in 1 .. n : queue[i].con \in Sessions /\ queue[i].addr \in Addresses
    BY QueueFields DEF Inv
<1>4. s \in Sessions /\ a0 \in Addresses /\ addr[s] = a0
    BY <1>2, <1>3 DEF Inv, PathInv, QueueInv
<1>5. /\ \A a \in Addresses : a # a0 => router'[a] = router[a]
      /\ router'[a0] = IF e.add THEN s ELSE NoSession
    BY <1>1, <1>4, HeadAddApplies DEF Inv, TypeOK, MustWait, Applied
<1>6. QueueInv'
    BY <1>1, <1>2 DEF Inv, PathInv, QueueInv
<1>7. RouterInv'
    <2>1. e.add => pc[s] \in Registered BY <1>2 DEF Inv, PathInv, QueueInv
    <2> QED BY <1>1, <1>4, <1>5, <2>1 DEF Inv, PathInv, RouterInv
<1>8. RemovePending'
    <2> SUFFICES ASSUME NEW a \in Addresses, router'[a] # NoSession, pc[router'[a]] \in Ended
                 PROVE  \E k \in 1 .. n - 1 : ~queue'[k].add /\ queue'[k].con = router'[a]
        BY <1>1, <1>2 DEF RemovePending, RemoveAt
    <2>1. CASE a = a0
        <3>1. e.add /\ router'[a] = s BY <1>5, <2>1
        <3>2. PICK k \in 2 .. n : RemoveAt(k, s)
            BY <1>2, <3>1 DEF Inv, PathInv, RemoveBehindAdd
        <3>3. k - 1 \in 1 .. n - 1 /\ queue'[k - 1] = queue[k] BY <1>2
        <3> QED BY <3>1, <3>2, <3>3 DEF RemoveAt
    <2>2. CASE a # a0
        <3>1. router'[a] = router[a] /\ addr[router[a]] = a
            BY <1>5, <2>2 DEF Inv, PathInv, RouterInv
        <3>2. PICK k \in 1 .. n : RemoveAt(k, router[a])
            BY <3>1 DEF Inv, PathInv, RemovePending
        <3>3. k # 1 BY <1>2, <1>4, <2>2, <3>1, <3>2 DEF RemoveAt
        <3>4. k - 1 \in 1 .. n - 1 /\ queue'[k - 1] = queue[k] BY <1>2, <3>3
        <3> QED BY <3>1, <3>2, <3>4 DEF RemoveAt
    <2> QED BY <2>1, <2>2
<1>9. RemoveBehindAdd'
    <2> SUFFICES ASSUME NEW i \in 1 .. n - 1, queue'[i].add, pc[queue'[i].con] \in Ended
                 PROVE  \E k \in i + 1 .. n - 1 :
                            ~queue'[k].add /\ queue'[k].con = queue'[i].con
        BY <1>1, <1>2 DEF RemoveBehindAdd, RemoveAt
    <2>1. i + 1 \in 1 .. n /\ queue'[i] = queue[i + 1] BY <1>2
    <2>2. PICK k \in (i + 1) + 1 .. n : RemoveAt(k, queue[i + 1].con)
        BY <2>1 DEF Inv, PathInv, RemoveBehindAdd
    <2>3. k - 1 \in i + 1 .. n - 1 /\ queue'[k - 1] = queue[k] BY <1>2
    <2> QED BY <2>1, <2>2, <2>3 DEF RemoveAt
<1>10. RemoveBeforeAdd'
    <2> SUFFICES ASSUME NEW j \in 1 .. n - 1, queue'[j].add,
                        router'[queue'[j].addr] # NoSession
                 PROVE  \E k \in 1 .. j - 1 :
                            ~queue'[k].add /\ queue'[k].con = router'[queue'[j].addr]
        BY <1>2 DEF RemoveBeforeAdd, RemoveAt
    <2> DEFINE b == queue[j + 1].addr
    <2>1. j + 1 \in 1 .. n /\ queue'[j] = queue[j + 1] /\ b \in Addresses BY <1>2, <1>3
    <2>2. CASE b = a0
        <3>1. e.add /\ router'[b] = s BY <1>5, <2>1, <2>2
        <3>2. PICK k \in 1 + 1 .. (j + 1) - 1 : RemoveAt(k, queue[1].con)
            BY <1>2, <2>1, <2>2, <3>1 DEF Inv, PathInv, RemoveBetweenAdds
        <3>3. k - 1 \in 1 .. j - 1 /\ queue'[k - 1] = queue[k] BY <1>2
        <3> QED BY <1>2, <2>1, <3>1, <3>2, <3>3 DEF RemoveAt
    <2>3. CASE b # a0
        <3>1. router'[b] = router[b] /\ addr[router[b]] = b
            BY <1>5, <2>1, <2>3 DEF Inv, PathInv, RouterInv
        <3>2. PICK k \in 1 .. (j + 1) - 1 : RemoveAt(k, router[b])
            BY <2>1, <3>1 DEF Inv, PathInv, RemoveBeforeAdd
        <3>3. k # 1 BY <1>2, <1>4, <2>3, <3>1, <3>2 DEF RemoveAt
        <3>4. k - 1 \in 1 .. j - 1 /\ queue'[k - 1] = queue[k] BY <1>2, <3>3
        <3> QED BY <2>1, <3>1, <3>2, <3>4 DEF RemoveAt
    <2> QED BY <2>2, <2>3
<1>11. RemoveBetweenAdds'
    <2> SUFFICES ASSUME NEW i \in 1 .. n - 1, NEW j \in 1 .. n - 1, i < j,
                        queue'[i].add, queue'[j].add, queue'[i].addr = queue'[j].addr
                 PROVE  \E k \in i + 1 .. j - 1 :
                            ~queue'[k].add /\ queue'[k].con = queue'[i].con
        BY <1>2 DEF RemoveBetweenAdds, RemoveAt
    <2>1. /\ i + 1 \in 1 .. n /\ queue'[i] = queue[i + 1]
          /\ j + 1 \in 1 .. n /\ queue'[j] = queue[j + 1]
        BY <1>2
    <2>2. PICK k \in (i + 1) + 1 .. (j + 1) - 1 : RemoveAt(k, queue[i + 1].con)
        BY <2>1 DEF Inv, PathInv, RemoveBetweenAdds
    <2>3. k - 1 \in i + 1 .. j - 1 /\ queue'[k - 1] = queue[k] BY <1>2
    <2> QED BY <2>1, <2>2, <2>3 DEF RemoveAt
<1> QED BY <1>6, <1>7, <1>8, <1>9, <1>10, <1>11 DEF PathInv

\* RoundStep: only removes wait, so a round can only erase a route.
LEMMA PathRound ==
    ASSUME Inv, RoundStep
    PROVE  PathInv'
<1>1. local # <<>> /\ Head(local) = local[1] /\ Len(local) \in Nat /\ Len(local) > 0
    BY PopFacts DEF Inv, TypeOK, RoundStep
<1>2. ~Head(local).add BY <1>1 DEF Inv, LocalInv
<1>3. /\ UNCHANGED <<queue, pc, addr>>
      /\ \A a \in Addresses : router'[a] \in {router[a], NoSession}
    BY <1>2 DEF RoundStep, Applied, sessionVars, Inv, TypeOK
<1>4. QueueInv' /\ RouterInv' /\ RemovePending' /\ RemoveBehindAdd' /\ RemoveBetweenAdds'
    BY <1>3 DEF Inv, PathInv, QueueInv, RouterInv, RemovePending, RemoveBehindAdd,
        RemoveBetweenAdds, RemoveAt
<1>5. RemoveBeforeAdd'
    BY <1>3, QueueFields DEF Inv, PathInv, RemoveBeforeAdd, RemoveAt
<1> QED BY <1>4, <1>5 DEF PathInv

\* Every step keeps the path of records: what is queued, waiting and routed
\* fits where its session is.
LEMMA PathStep == Inv /\ [Next]_vars => PathInv'
<1> SUFFICES ASSUME Inv, [Next]_vars PROVE PathInv'
    OBVIOUS
<1>1. CASE DrainPop BY <1>1, PathPop
<1>2. CASE RoundStep BY <1>2, PathRound
<1>3. CASE TunRead \/ DrainEnds \/ RetryCheck \/ RoundEnds \/ Lookup \/ UNCHANGED vars
    <2>1. UNCHANGED <<queue, router, pc, addr>>
        BY <1>3 DEF TunRead, DrainEnds, RetryCheck, RoundEnds, Lookup, vars, sessionVars
    <2> QED BY <2>1, PathFrame DEF Inv
<1>4. ASSUME NEW s \in Sessions,
             \/ StartConnection(s) \/ HandshakeFails(s) \/ EnterGetNewAddress(s)
             \/ SendIpFails(s) \/ DataExchangeEnds(s) \/ ReleaseAddress(s)
      PROVE  PathInv'
    <2>1. UNCHANGED <<queue, router, addr>>
        BY <1>4 DEF StartConnection, HandshakeFails, EnterGetNewAddress, SendIpFails,
            DataExchangeEnds, ReleaseAddress, poolVars
    <2>2. \A t \in Sessions : pc[t] \in Registered =>
            pc'[t] \in Registered /\ (pc'[t] \in Ended <=> pc[t] \in Ended)
        BY <1>4 DEF StartConnection, HandshakeFails, EnterGetNewAddress, SendIpFails,
            DataExchangeEnds, ReleaseAddress, Goto, Inv, TypeOK, Registered, Ended
    <2> QED BY <2>1, <2>2, PathFrame DEF Inv
<1>5. ASSUME NEW s \in Sessions, ProbeAddress(s) PROVE PathInv'
    <2>1. UNCHANGED <<queue, router>> BY <1>5 DEF ProbeAddress
    <2>2. pc[s] = "probe" /\ \A t \in Sessions : t # s => pc'[t] = pc[t] /\ addr'[t] = addr[t]
        BY <1>5 DEF ProbeAddress, Goto, Inv, TypeOK
    <2>3. \A t \in Sessions : pc[t] \in Registered => t # s
        BY <2>2 DEF Registered
    <2> QED BY <2>1, <2>2, <2>3, PathFrame DEF Inv
<1>6. ASSUME NEW s \in Sessions, Register(s) PROVE PathInv'
    <2>1. CASE Len(queue) < Capacity
        <3>1. /\ pc[s] = "sendip" /\ pc' = [pc EXCEPT ![s] = "data"]
              /\ queue' = Append(queue, AddRecord(s, addr[s]))
              /\ UNCHANGED <<addr, router>>
            BY <1>6, <2>1 DEF Register, Goto
        <3> QED BY <3>1, PathRegister
    <2>2. CASE ~(Len(queue) < Capacity)
        <3>1. /\ pc[s] = "sendip" /\ pc' = [pc EXCEPT ![s] = "unregister"]
              /\ UNCHANGED <<queue, addr, router>>
            BY <1>6, <2>2 DEF Register, Goto
        <3>2. \A t \in Sessions : pc[t] \in Registered => pc'[t] = pc[t]
            BY <3>1 DEF Inv, TypeOK, Registered
        <3> QED BY <3>1, <3>2, PathFrame DEF Inv
    <2> QED BY <2>1, <2>2
<1>7. ASSUME NEW s \in Sessions, PushUnregister(s) PROVE PathInv'
    <2>1. /\ pc[s] = "unregister" /\ pc' = [pc EXCEPT ![s] = "release"]
          /\ queue' = Append(queue, RemoveRecord(s, addr[s]))
          /\ UNCHANGED <<addr, router>>
        BY <1>7 DEF PushUnregister, Goto
    <2> QED BY <2>1, PathUnregister
<1> QED BY NextActions, <1>1, <1>2, <1>3, <1>4, <1>5, <1>6, <1>7

\* emptyQueue puts only removes aside, and pushes happen only at its reads when
\* the context has one thread.
LEMMA LocalStep == Inv /\ [Next]_vars => LocalInv' /\ EmptyAfterDrain'
<1> SUFFICES ASSUME Inv, [Next]_vars PROVE LocalInv' /\ EmptyAfterDrain'
    OBVIOUS
<1>1. CASE DrainPop
    <2>1. EmptyAfterDrain' BY <1>1 DEF DrainPop, EmptyAfterDrain
    <2>2. CASE MustWait(Head(queue))
        <3>1. Head(queue) \in Records /\ local' = Append(local, Head(queue))
            BY <1>1, <2>2, PopFacts DEF DrainPop, Inv, TypeOK
        <3>2. ~Head(queue).add
            BY <1>1, <2>2, HeadAddApplies DEF DrainPop, MustWait
        <3>3. /\ Len(local) \in Nat /\ Len(local') = Len(local) + 1
              /\ local'[Len(local) + 1] = Head(queue)
              /\ \A i \in 1 .. Len(local) : local'[i] = local[i]
            BY <3>1, PushFacts DEF Inv, TypeOK
        <3>4. LocalInv'
            <4> SUFFICES ASSUME NEW i \in 1 .. Len(local) + 1 PROVE ~local'[i].add
                BY <3>3 DEF LocalInv
            <4>1. CASE i = Len(local) + 1 BY <3>2, <3>3, <4>1
            <4>2. CASE i \in 1 .. Len(local) BY <3>3, <4>2 DEF Inv, LocalInv
            <4> QED BY <3>3, <4>1, <4>2
        <3> QED BY <2>1, <3>4
    <2>3. CASE ~MustWait(Head(queue))
        BY <1>1, <2>1, <2>3 DEF DrainPop, Inv, LocalInv
    <2> QED BY <2>2, <2>3
<1>2. CASE RoundStep
    <2>1. EmptyAfterDrain' BY <1>2 DEF RoundStep, Inv, EmptyAfterDrain
    <2>2. /\ Tail(local) \in Seq(Records) /\ Head(local) \in Records
          /\ Len(local) \in Nat /\ Len(local) > 0
          /\ Len(Tail(local)) = Len(local) - 1 /\ Head(local) = local[1]
          /\ \A i \in 1 .. Len(local) - 1 : Tail(local)[i] = local[i + 1]
        BY <1>2, PopFacts DEF RoundStep, Inv, TypeOK
    <2>3. ~Head(local).add /\ \A i \in 1 .. Len(local) - 1 : ~Tail(local)[i].add
        BY <2>2 DEF Inv, LocalInv
    <2>4. CASE MustWait(Head(local))
        <3>1. local' = Append(Tail(local), Head(local)) BY <1>2, <2>4 DEF RoundStep
        <3>2. /\ Len(local') = Len(local) /\ local'[Len(local)] = Head(local)
              /\ \A i \in 1 .. Len(local) - 1 : local'[i] = Tail(local)[i]
            BY <2>2, <3>1, PushFacts
        <3>3. LocalInv'
            <4> SUFFICES ASSUME NEW i \in 1 .. Len(local) PROVE ~local'[i].add
                BY <3>2 DEF LocalInv
            <4>1. CASE i = Len(local) BY <2>3, <3>2, <4>1
            <4>2. CASE i \in 1 .. Len(local) - 1
                <5>1. local'[i] = Tail(local)[i] BY <3>2, <4>2
                <5> QED BY <2>3, <4>2, <5>1
            <4>3. Len(local) \in Nat BY <2>2
            <4> QED BY <4>1, <4>2, <4>3
        <3> QED BY <2>1, <3>3
    <2>5. CASE ~MustWait(Head(local))
        <3>1. local' = Tail(local) BY <1>2, <2>5 DEF RoundStep
        <3> QED BY <2>1, <2>2, <2>3, <3>1 DEF LocalInv
    <2> QED BY <2>4, <2>5
<1>3. CASE TunRead \/ DrainEnds \/ RoundEnds \/ Lookup \/ UNCHANGED vars
    BY <1>3 DEF TunRead, DrainEnds, RoundEnds, Lookup, vars, Inv, LocalInv, EmptyAfterDrain
<1>4. CASE RetryCheck
    <2>1. local' = local \/ local' = <<>> BY <1>4 DEF RetryCheck
    <2>2. LocalInv' BY <2>1 DEF Inv, LocalInv
    <2>3. EmptyAfterDrain' BY <1>4 DEF RetryCheck, Inv, EmptyAfterDrain
    <2> QED BY <2>2, <2>3
<1>5. ASSUME NEW s \in Sessions, SessionStep(s) PROVE LocalInv' /\ EmptyAfterDrain'
    <2>1. UNCHANGED <<local, rpc>> /\ (~Pool => rpc = "read")
        BY <1>5 DEF SessionStep, StartConnection, HandshakeFails, EnterGetNewAddress,
            ProbeAddress, SendIpFails, Register, DataExchangeEnds, PushUnregister,
            ReleaseAddress, SessionMayRun
    <2> QED BY <2>1 DEF Inv, LocalInv, EmptyAfterDrain
<1> QED BY <1>1, <1>2, <1>3, <1>4, <1>5 DEF Next, RouterStep

\* The inductive invariant holds at the start: nobody has an address, nothing is queued.
LEMMA InitInv == Init => Inv
<1> SUFFICES ASSUME Init PROVE Inv
    OBVIOUS
<1> USE DEF Init
<1>1. TypeOK
    <2>1. queue \in Seq(Records) /\ local \in Seq(Records) /\ Len(queue) = 0
        BY EmptySeq
    <2>2. aborted \in BOOLEAN OBVIOUS
    <2> QED BY <2>1, <2>2, CapacityAssumption, CounterAssumption
            DEF TypeOK, SessionPcs, RouterPcs, NoAddress, NoSize
<1>2. UniqueAddresses BY DEF UniqueAddresses, Holders
<1>3. PathInv
    BY DEF PathInv, QueueInv, RouterInv, RemovePending, RemoveBehindAdd,
        RemoveBeforeAdd, RemoveBetweenAdds
<1>4. LocalInv /\ EmptyAfterDrain BY DEF LocalInv, EmptyAfterDrain
<1> QED BY <1>1, <1>2, <1>3, <1>4 DEF Inv

\* The inductive invariant is kept by every step.
LEMMA InvStep == Inv /\ [Next]_vars => Inv'
  BY TypeStep, UniqueStep, PathStep, LocalStep DEF Inv

-----------------------------------------------------------------------------
(* Theorems.                                                                *)

\* The inductive invariant holds in every reachable state.
THEOREM Invariance == Spec => []Inv
  BY InitInv, InvStep, PTL DEF Spec

\* Type correctness of the session coroutines, the address pool and emptyQueue.
THEOREM TypeCorrect == Spec => []TypeOK
<1>1. Inv => TypeOK BY DEF Inv
<1> QED BY Invariance, <1>1, PTL

\* No two live sessions have the same address and the pool records exactly the
\* addresses in use, on every path through startConnection.
THEOREM AddressesUnique == Spec => []UniqueAddresses
<1>1. Inv => UniqueAddresses BY DEF Inv
<1> QED BY Invariance, <1>1, PTL

\* A route belongs to a live session, or its removal is queued.
THEOREM RoutesAreOwned == Spec => []RoutesOwned
<1>1. ASSUME Inv PROVE RoutesOwned
    <2> SUFFICES ASSUME NEW a \in Addresses, router[a] # NoSession
                 PROVE  /\ addr[router[a]] = a
                        /\ router[a] \in Holders \/ Queued(router[a], FALSE)
        BY DEF RoutesOwned
    <2>1. /\ router[a] \in Sessions /\ addr[router[a]] = a
          /\ pc[router[a]] \in Registered
        BY <1>1 DEF Inv, TypeOK, PathInv, RouterInv
    <2>2. CASE pc[router[a]] \in Ended
        <3>1. PICK k \in 1 .. Len(queue) : RemoveAt(k, router[a])
            BY <1>1, <2>2 DEF Inv, PathInv, RemovePending
        <3>2. queue[k] \in Records
            <4>1. queue \in Seq(Records) BY <1>1 DEF Inv, TypeOK
            <4> QED BY <4>1, ElementOfSeq
        <3>3. queue[k].add = FALSE BY <3>1, <3>2 DEF RemoveAt, Records
        <3>4. queue[k].con = router[a] BY <3>1 DEF RemoveAt
        <3>5. \E i \in 1 .. Len(queue) : queue[i].con = router[a] /\ queue[i].add = FALSE
            BY <3>1, <3>3, <3>4
        <3> QED BY <2>1, <3>5 DEF Queued
    <2>3. CASE pc[router[a]] \notin Ended
        BY <2>1, <2>3 DEF Holders, Registered, Ended
    <2> QED BY <2>2, <2>3
<1> QED BY Invariance, <1>1, PTL

\* A packet is sent to the session that holds its destination address.
THEOREM PacketsReachTheirOwner == Spec => []PacketsReachOwner
<1>1. ASSUME Inv PROVE PacketsReachOwner
    <2> SUFFICES ASSUME rpc = "lookup", ~Pool, NEW a \in Addresses, router[a] # NoSession
                 PROVE  addr[router[a]] = a /\ pc[router[a]] \in {"data", "unregister"}
        BY DEF PacketsReachOwner
    <2>1. queue = <<>> BY <1>1 DEF Inv, EmptyAfterDrain
    <2>2. pc[router[a]] \notin Ended
        BY <1>1, <2>1 DEF Inv, PathInv, RemovePending
    <2> QED BY <1>1, <2>2 DEF Inv, PathInv, RouterInv, Registered, Ended
<1> QED BY Invariance, <1>1, PTL

\* An add record never meets an old route of its address.
THEOREM AddsApplyAtOnce == Spec => []AddsNeverWait
<1>1. ASSUME Inv PROVE AddsNeverWait
    <2> SUFFICES ASSUME queue # <<>>, Head(queue).add PROVE ~MustWait(Head(queue))
        BY DEF AddsNeverWait
    <2> QED BY <1>1, HeadAddApplies, Zenon DEF MustWait
<1> QED BY Invariance, <1>1, PTL

-----------------------------------------------------------------------------
(* While every session that unregistered had registered.                    *)

Matched == NothingAside /\ LiveReachable /\ RemoveHasRoute

\* A session pushes at most one remove record.
LEMMA OneRemoveStep == Inv /\ OneRemove /\ [Next]_vars => OneRemove'
<1> SUFFICES ASSUME Inv, OneRemove, [Next]_vars PROVE OneRemove'
    OBVIOUS
<1> DEFINE n == Len(queue)
<1>1. ASSUME UNCHANGED queue PROVE OneRemove'
    BY <1>1 DEF OneRemove
<1>2. CASE TunRead \/ DrainEnds \/ RetryCheck \/ RoundStep \/ RoundEnds \/ Lookup
           \/ UNCHANGED vars
    BY <1>1, <1>2 DEF TunRead, DrainEnds, RetryCheck, RoundStep, RoundEnds, Lookup, vars
<1>3. CASE DrainPop
    <2>1. /\ n \in Nat /\ Len(queue') = n - 1
          /\ \A i \in 1 .. n - 1 : queue'[i] = queue[i + 1]
        BY <1>3, PopFacts DEF DrainPop, Inv, TypeOK
    <2> QED BY <2>1 DEF OneRemove
<1>4. ASSUME NEW s \in Sessions,
             \/ StartConnection(s) \/ HandshakeFails(s) \/ EnterGetNewAddress(s)
             \/ ProbeAddress(s) \/ SendIpFails(s) \/ DataExchangeEnds(s) \/ ReleaseAddress(s)
      PROVE  OneRemove'
    BY <1>1, <1>4 DEF StartConnection, HandshakeFails, EnterGetNewAddress, ProbeAddress,
        SendIpFails, DataExchangeEnds, ReleaseAddress
<1>5. ASSUME NEW s \in Sessions, NEW e \in Records, queue' = Append(queue, e),
             e.add \/ \A i \in 1 .. n : ~queue[i].add => queue[i].con # e.con
      PROVE  OneRemove'
    <2>1. /\ n \in Nat /\ Len(queue') = n + 1 /\ queue'[n + 1] = e
          /\ \A i \in 1 .. n : queue'[i] = queue[i]
        BY <1>5, PushFacts DEF Inv, TypeOK
    <2> SUFFICES ASSUME NEW i \in 1 .. n + 1, NEW k \in 1 .. n + 1, ~queue'[i].add,
                        ~queue'[k].add, queue'[i].con = queue'[k].con
                 PROVE  i = k
        BY <2>1 DEF OneRemove
    <2>2. CASE i = n + 1 BY <1>5, <2>1, <2>2
    <2>3. CASE k = n + 1 BY <1>5, <2>1, <2>3
    <2>4. CASE i \in 1 .. n /\ k \in 1 .. n BY <2>1, <2>4 DEF OneRemove
    <2> QED BY <2>1, <2>2, <2>3, <2>4
<1>6. ASSUME NEW s \in Sessions, Register(s) PROVE OneRemove'
    <2>1. AddRecord(s, addr[s]) \in Records /\ AddRecord(s, addr[s]).add
        BY <1>6, HolderAddress DEF Register, Inv, Holders, Records, AddRecord
    <2>2. queue' = queue \/ queue' = Append(queue, AddRecord(s, addr[s]))
        BY <1>6 DEF Register
    <2> QED BY <1>1, <1>5, <2>1, <2>2
<1>7. ASSUME NEW s \in Sessions, PushUnregister(s) PROVE OneRemove'
    <2>1. RemoveRecord(s, addr[s]) \in Records /\ RemoveRecord(s, addr[s]).con = s
        BY <1>7, HolderAddress DEF PushUnregister, Inv, Holders, Records, RemoveRecord
    <2>2. pc[s] \notin Ended /\ queue' = Append(queue, RemoveRecord(s, addr[s]))
        BY <1>7 DEF PushUnregister, Ended
    <2>3. \A i \in 1 .. n : ~queue[i].add => queue[i].con # s
        BY <2>2 DEF Inv, PathInv, QueueInv
    <2> QED BY <1>5, <2>1, <2>2, <2>3
<1> QED BY NextActions, <1>2, <1>3, <1>4, <1>6, <1>7

\* DrainPop enters or erases the route the head record names; no other session
\* loses its route by it.
LEMMA MatchedPop ==
    ASSUME Inv, OneRemove, Matched, DrainPop
    PROVE  Matched'
<1> DEFINE n == Len(queue)
           e == Head(queue)
           a0 == e.addr
           s == e.con
<1>1. /\ queue # <<>> /\ queue' = Tail(queue) /\ UNCHANGED <<pc, addr>>
      /\ local = <<>>
    BY DEF DrainPop, sessionVars, Matched, NothingAside
<1>2. /\ n \in Nat /\ n > 0 /\ Len(queue') = n - 1 /\ e = queue[1]
      /\ \A i \in 1 .. n - 1 : queue'[i] = queue[i + 1]
    BY <1>1, PopFacts DEF Inv, TypeOK
<1>3. \A i \in 1 .. n :
        /\ queue[i].con \in Sessions /\ queue[i].addr \in Addresses
        /\ queue[i].addr = addr[queue[i].con]
    BY QueueFields DEF Inv, PathInv, QueueInv
<1>4. s \in Sessions /\ a0 \in Addresses /\ addr[s] = a0 BY <1>2, <1>3
<1>5. ~e.add => router[a0] = s
    BY <1>2 DEF Matched, RemoveHasRoute
<1>6. e.add => router[a0] = NoSession BY <1>1, HeadAddApplies
<1>7. ~MustWait(e) BY <1>4, <1>5, <1>6, SessionsAssumption DEF MustWait
<1>8. router' = Applied(e) /\ local' = local BY <1>7 DEF DrainPop
<1>9. /\ \A a \in Addresses : a # a0 => router'[a] = router[a]
      /\ router'[a0] = IF e.add THEN s ELSE NoSession
    BY <1>4, <1>8 DEF Inv, TypeOK, Applied
<1>10. LiveReachable'
    <2> SUFFICES ASSUME NEW t \in Sessions, pc[t] \in {"data", "unregister"}
                 PROVE  \/ router'[addr[t]] = t
                        \/ \E i \in 1 .. n - 1 : queue'[i].add /\ queue'[i].con = t
        BY <1>1, <1>2 DEF LiveReachable, AddAt
    <2>0. addr[t] \in Addresses BY HolderAddress DEF Holders, Inv
    <2>1. CASE t = s
        <3>1. e.add BY <1>2, <2>1 DEF Inv, PathInv, QueueInv, Ended
        <3> QED BY <1>4, <1>9, <2>1, <3>1
    <2>2. CASE t # s /\ router[addr[t]] = t
        <3>1. addr[t] # a0 BY <1>5, <1>6, <2>2, SessionsAssumption
        <3> QED BY <1>9, <2>0, <2>2, <3>1
    <2>3. CASE t # s /\ router[addr[t]] # t
        <3>1. PICK i \in 1 .. n : AddAt(i, t) BY <2>3 DEF Matched, LiveReachable
        <3>2. i # 1 BY <1>2, <2>3, <3>1 DEF AddAt
        <3>3. i - 1 \in 1 .. n - 1 /\ queue'[i - 1] = queue[i] BY <1>2, <3>2
        <3> QED BY <3>1, <3>3 DEF AddAt
    <2> QED BY <2>1, <2>2, <2>3
<1>11. RemoveHasRoute'
    <2> SUFFICES ASSUME NEW k \in 1 .. n - 1, ~queue'[k].add
                 PROVE  \/ router'[queue'[k].addr] = queue'[k].con
                        \/ \E i \in 1 .. k - 1 : queue'[i].add /\ queue'[i].con = queue'[k].con
        BY <1>2 DEF RemoveHasRoute, AddAt
    <2> DEFINE r == queue[k + 1]
    <2>1. k + 1 \in 1 .. n /\ queue'[k] = r /\ ~r.add /\ addr[r.con] = r.addr
        BY <1>2, <1>3
    <2>2. r.addr \in Addresses /\ r.con \in Sessions BY <1>3, <2>1
    <2>3. CASE router[r.addr] = r.con
        <3>1. r.addr # a0
            <4>1. CASE e.add BY <1>6, <2>2, <2>3, <4>1, SessionsAssumption
            <4>2. CASE ~e.add
                <5>1. r.con # s BY <1>2, <2>1, <4>2 DEF OneRemove
                <5> QED BY <1>5, <2>3, <4>2, <5>1
            <4> QED BY <4>1, <4>2
        <3> QED BY <1>9, <2>1, <2>2, <2>3, <3>1
    <2>4. CASE router[r.addr] # r.con
        <3>1. PICK i \in 1 .. (k + 1) - 1 : AddAt(i, r.con)
            BY <2>1, <2>4 DEF Matched, RemoveHasRoute
        <3>2. CASE i = 1
            BY <1>2, <1>4, <1>9, <2>1, <3>1, <3>2 DEF AddAt
        <3>3. CASE i # 1
            <4>1. i - 1 \in 1 .. k - 1 /\ queue'[i - 1] = queue[i] BY <1>2, <3>3
            <4> QED BY <2>1, <3>1, <4>1 DEF AddAt
        <3> QED BY <3>2, <3>3
    <2> QED BY <2>3, <2>4
<1> QED BY <1>1, <1>8, <1>10, <1>11 DEF Matched, NothingAside

\* A push keeps what is reachable through the records in front of it.
LEMMA MatchedPush ==
    ASSUME Inv, Matched, NEW s \in Sessions, NEW e \in Records, e.con = s,
           e.addr = addr[s], queue' = Append(queue, e), UNCHANGED <<addr, router, local>>,
           \A t \in Sessions : t # s => pc'[t] = pc[t],
           \/ e.add /\ pc'[s] = "data"
           \/ ~e.add /\ pc[s] = "unregister" /\ pc'[s] = "release"
    PROVE  Matched'
<1> DEFINE n == Len(queue)
<1>1. /\ n \in Nat /\ Len(queue') = n + 1 /\ queue'[n + 1] = e
      /\ \A i \in 1 .. n : queue'[i] = queue[i]
    BY PushFacts DEF Inv, TypeOK
<1>2. LiveReachable'
    <2> SUFFICES ASSUME NEW t \in Sessions, pc'[t] \in {"data", "unregister"}
                 PROVE  \/ router[addr[t]] = t
                        \/ \E i \in 1 .. n + 1 : queue'[i].add /\ queue'[i].con = t
        BY <1>1 DEF LiveReachable, AddAt
    <2>1. CASE t = s BY <1>1, <2>1
    <2>2. CASE t # s /\ router[addr[t]] # t
        <3>1. PICK i \in 1 .. n : AddAt(i, t) BY <2>2 DEF Matched, LiveReachable
        <3> QED BY <1>1, <3>1 DEF AddAt
    <2> QED BY <2>1, <2>2
<1>3. RemoveHasRoute'
    <2> SUFFICES ASSUME NEW k \in 1 .. n + 1, ~queue'[k].add
                 PROVE  \/ router[queue'[k].addr] = queue'[k].con
                        \/ \E i \in 1 .. k - 1 : queue'[i].add /\ queue'[i].con = queue'[k].con
        BY <1>1 DEF RemoveHasRoute, AddAt
    <2>1. CASE k = n + 1
        <3>1. pc[s] = "unregister" BY <1>1, <2>1
        <3>2. CASE router[addr[s]] # s
            <4>1. PICK i \in 1 .. n : AddAt(i, s) BY <3>1, <3>2 DEF Matched, LiveReachable
            <4> QED BY <1>1, <2>1, <4>1 DEF AddAt
        <3> QED BY <1>1, <2>1, <3>2
    <2>2. CASE k \in 1 .. n
        <3>1. \/ router[queue[k].addr] = queue[k].con
              \/ \E i \in 1 .. k - 1 : AddAt(i, queue[k].con)
            BY <1>1, <2>2 DEF Matched, RemoveHasRoute
        <3> QED BY <1>1, <2>2, <3>1 DEF AddAt
    <2> QED BY <1>1, <2>1, <2>2
<1> QED BY <1>2, <1>3 DEF Matched, NothingAside

\* As long as every session that unregistered had registered, each step keeps
\* live sessions reachable.
LEMMA MatchedStep ==
    Inv /\ OneRemove /\ (unmatched = {} => Matched) /\ [Next]_vars
        => (unmatched' = {} => Matched')
<1> SUFFICES ASSUME Inv, OneRemove, unmatched = {} => Matched, [Next]_vars, unmatched' = {}
             PROVE  Matched'
    OBVIOUS
<1>1. ASSUME Matched, UNCHANGED <<queue, router, local>>,
             \A t \in Sessions : pc'[t] \in {"data", "unregister"} =>
                pc[t] \in {"data", "unregister"} /\ addr'[t] = addr[t]
      PROVE  Matched'
    BY <1>1 DEF Matched, NothingAside, LiveReachable, RemoveHasRoute, AddAt
<1>2. CASE TunRead \/ DrainEnds \/ RoundEnds \/ Lookup \/ UNCHANGED vars
    <2>1. UNCHANGED <<queue, router, local, pc, addr, unmatched>>
        BY <1>2 DEF TunRead, DrainEnds, RoundEnds, Lookup, vars, sessionVars
    <2> QED BY <1>1, <2>1
<1>3. CASE DrainPop
    BY <1>3, MatchedPop DEF DrainPop, sessionVars
<1>4. CASE RetryCheck
    <2>1. UNCHANGED <<queue, router, pc, addr, unmatched>> /\ local' \in {local, <<>>}
        BY <1>4 DEF RetryCheck, sessionVars
    <2> QED BY <1>1, <2>1 DEF Matched, NothingAside
<1>5. CASE RoundStep
    <2>1. unmatched = {} /\ todo \in Nat /\ todo > 0 /\ todo <= Len(local)
        BY <1>5 DEF RoundStep, sessionVars, Inv, TypeOK
    <2>2. Len(local) = 0 BY <2>1, EmptySeq DEF Matched, NothingAside
    <2> QED BY <2>1, <2>2
<1>6. ASSUME NEW s \in Sessions,
             \/ StartConnection(s) \/ HandshakeFails(s) \/ EnterGetNewAddress(s)
             \/ DataExchangeEnds(s) \/ ReleaseAddress(s)
      PROVE  Matched'
    <2>1. UNCHANGED <<queue, router, local, addr, unmatched>>
        BY <1>6 DEF StartConnection, HandshakeFails, EnterGetNewAddress,
            DataExchangeEnds, ReleaseAddress, poolVars
    <2>2. \A t \in Sessions : pc'[t] \in {"data", "unregister"} =>
            pc[t] \in {"data", "unregister"}
        BY <1>6 DEF StartConnection, HandshakeFails, EnterGetNewAddress,
            DataExchangeEnds, ReleaseAddress, Goto, Inv, TypeOK
    <2> QED BY <1>1, <2>1, <2>2
<1>7. ASSUME NEW s \in Sessions, ProbeAddress(s) PROVE Matched'
    <2>1. UNCHANGED <<queue, router, local, unmatched>> BY <1>7 DEF ProbeAddress
    <2>2. /\ \A t \in Sessions : t # s => pc'[t] = pc[t] /\ addr'[t] = addr[t]
          /\ pc'[s] \in {"probe", "sendip"}
        BY <1>7 DEF ProbeAddress, Goto, Inv, TypeOK
    <2>3. \A t \in Sessions : pc'[t] \in {"data", "unregister"} => t # s
        BY <2>2
    <2> QED BY <1>1, <2>1, <2>2, <2>3
<1>8. ASSUME NEW s \in Sessions, SendIpFails(s) PROVE Matched'
    BY <1>8 DEF SendIpFails
<1>9. ASSUME NEW s \in Sessions, Register(s) PROVE Matched'
    <2> DEFINE e == AddRecord(s, addr[s])
    <2>1. /\ pc[s] = "sendip" /\ unmatched = {} /\ pc' = [pc EXCEPT ![s] = "data"]
          /\ queue' = Append(queue, e) /\ UNCHANGED <<addr, router, local>>
        BY <1>9 DEF Register, Goto
    <2>2. e \in Records /\ e.add /\ e.con = s /\ e.addr = addr[s]
        BY <2>1, HolderAddress DEF Inv, Holders, Records, AddRecord
    <2>3. pc'[s] = "data" /\ \A t \in Sessions : t # s => pc'[t] = pc[t]
        BY <2>1 DEF Inv, TypeOK
    <2> HIDE DEF e
    <2> QED BY <2>1, <2>2, <2>3, MatchedPush
<1>10. ASSUME NEW s \in Sessions, PushUnregister(s) PROVE Matched'
    <2> DEFINE e == RemoveRecord(s, addr[s])
    <2>1. /\ pc[s] = "unregister" /\ unmatched = {} /\ pc' = [pc EXCEPT ![s] = "release"]
          /\ queue' = Append(queue, e) /\ UNCHANGED <<addr, router, local>>
        BY <1>10 DEF PushUnregister, Goto
    <2>2. e \in Records /\ ~e.add /\ e.con = s /\ e.addr = addr[s]
        BY <2>1, HolderAddress DEF Inv, Holders, Records, RemoveRecord
    <2>3. pc'[s] = "release" /\ \A t \in Sessions : t # s => pc'[t] = pc[t]
        BY <2>1 DEF Inv, TypeOK
    <2> HIDE DEF e
    <2> QED BY <2>1, <2>2, <2>3, MatchedPush
<1> QED BY NextActions, <1>2, <1>3, <1>4, <1>5, <1>6, <1>7, <1>8, <1>9, <1>10

FullInv == Inv /\ MatchedInv

\* The inductive invariant together with what it says of matched sessions.
LEMMA FullInvariance == Spec => []FullInv
<1>1. Init => FullInv
    BY InitInv DEF Init, FullInv, MatchedInv, OneRemove, NothingAside, LiveReachable,
        RemoveHasRoute
<1>2. FullInv /\ [Next]_vars => FullInv'
    <2> SUFFICES ASSUME FullInv, [Next]_vars PROVE FullInv'
        OBVIOUS
    <2>1. Inv /\ OneRemove /\ (unmatched = {} => Matched)
        BY DEF FullInv, MatchedInv, Matched
    <2>2. Inv' BY <2>1, InvStep
    <2>3. OneRemove' BY <2>1, OneRemoveStep
    <2>4. unmatched' = {} => Matched' BY <2>1, MatchedStep
    <2> QED BY <2>2, <2>3, <2>4 DEF FullInv, MatchedInv, Matched
<1> QED BY <1>1, <1>2, PTL DEF Spec

\* The retry loop of emptyQueue has work only after an unregister without a
\* register.
THEOREM RetryNeedsAnOrphan == Spec => []RetryOnlyForOrphans
<1>1. FullInv => RetryOnlyForOrphans
    BY DEF FullInv, MatchedInv, NothingAside, RetryOnlyForOrphans
<1> QED BY FullInvariance, <1>1, PTL

\* A session in its data exchange is routed or about to be.
THEOREM ActiveSessionsReachable == Spec => []ActiveRoutedOrPending
<1>1. ASSUME FullInv PROVE ActiveRoutedOrPending
    <2> SUFFICES ASSUME unmatched = {}, NEW s \in Sessions, pc[s] = "data",
                        router[addr[s]] # s
                 PROVE  \E i \in 1 .. Len(queue) : queue[i].con = s /\ queue[i].add = TRUE
        BY DEF ActiveRoutedOrPending, Queued
    <2>1. PICK i \in 1 .. Len(queue) : AddAt(i, s)
        BY <1>1 DEF FullInv, MatchedInv, LiveReachable
    <2>2. queue[i] \in Records
        <3>1. queue \in Seq(Records) BY <1>1 DEF FullInv, Inv, TypeOK
        <3> QED BY <3>1, ElementOfSeq
    <2>3. queue[i].add = TRUE BY <2>1, <2>2 DEF AddAt, Records
    <2> QED BY <2>1, <2>3 DEF AddAt
<1> QED BY FullInvariance, <1>1, PTL

\* The comment on the lookup holds as long as no session unregisters without
\* having registered.
THEOREM ActiveSessionsAreRouted == Spec => []ActiveSessionsRouted
<1>1. ASSUME FullInv PROVE ActiveSessionsRouted
    <2> SUFFICES ASSUME unmatched = {}, rpc = "lookup", ~Pool,
                        NEW s \in Sessions, pc[s] = "data"
                 PROVE  router[addr[s]] = s
        BY DEF ActiveSessionsRouted, EveryActiveSessionRouted
    <2>1. queue = <<>> BY <1>1 DEF FullInv, Inv, EmptyAfterDrain
    <2>2. Len(queue) = 0 BY <2>1, EmptySeq
    <2> QED BY <1>1, <2>2 DEF FullInv, MatchedInv, LiveReachable
<1> QED BY FullInvariance, <1>1, PTL

-----------------------------------------------------------------------------
(* SessionRoutes implements AddressPool under the mapping Lease, Route.     *)

\* NoSession is no live session, so an unrouted address is unrouted in Route.
LEMMA HoldersAreSessions == Holders \subseteq Sessions /\ NoSession \notin Holders
  BY SessionsAssumption DEF Holders

\* The initial states are mapped to the initial state.
LEMMA InitImplements == Init => Leases!Init
<1> SUFFICES ASSUME Init PROVE Leases!Init
    OBVIOUS
<1>1. Holders = {}
    BY DEF Init, Holders
<1>2. Lease = [s \in Sessions |-> NoAddress]
    BY <1>1 DEF Lease
<1>3. Route = [a \in Addresses |-> NoSession]
    BY <1>1 DEF Route
<1> QED BY <1>2, <1>3 DEF Leases!Init

\* A step that leaves live sessions, their addresses and tunRouter alone is a
\* stutter of the abstract specification.
LEMMA SameHolders ==
    ASSUME Holders' = Holders, addr' = addr, router' = router
    PROVE  Lease' = Lease /\ Route' = Route
  BY DEF Lease, Route

\* getNewAddress leases a free address.
LEMMA ProbeImplements ==
    ASSUME Inv, NEW s \in Sessions, ProbeAddress(s)
    PROVE  Leases!Grant(s) \/ (Lease' = Lease /\ Route' = Route)
<1> USE DEF Inv
<1> DEFINE c == NextCounter(counter)
<1>1. CASE Probes \/ c \in used
    <2>1. Holders' = Holders /\ addr' = addr /\ router' = router
        BY <1>1 DEF ProbeAddress, Holders
    <2> QED BY <2>1, SameHolders
<1>2. CASE ~Probes /\ c \notin used
    <2>1. /\ addr' = [addr EXCEPT ![s] = c]
          /\ pc' = [pc EXCEPT ![s] = "sendip"]
          /\ pc[s] = "probe" /\ router' = router
        BY <1>2 DEF ProbeAddress, Goto
    <2>2. s \notin Holders /\ Holders' = Holders \union {s}
        BY <2>1 DEF Holders, TypeOK
    <2>3. c \in Addresses
        BY NextCounterInRange DEF TypeOK
    <2> HIDE DEF c
    <2>4. \A t \in Sessions : Lease[t] # c
        <3> SUFFICES ASSUME NEW t \in Sessions PROVE Lease[t] # c
            OBVIOUS
        <3>1. CASE t \in Holders
            BY <3>1, <1>2 DEF Lease, UniqueAddresses
        <3>2. CASE t \notin Holders
            <4>1. Lease[t] = 0 BY <3>2 DEF Lease, NoAddress
            <4> QED BY <4>1, <2>3 DEF Addresses
        <3> QED BY <3>1, <3>2
    <2>5. Lease' = [Lease EXCEPT ![s] = c]
        <3>1. addr'[s] = c /\ \A t \in Sessions \ {s} : addr'[t] = addr[t]
            BY <2>1 DEF TypeOK
        <3> QED BY <3>1, <2>2 DEF Lease
    <2>6. Route' = Route
        <3>1. \A a \in Addresses : router[a] # s
            BY <2>1, SessionsAssumption DEF PathInv, RouterInv, Registered, TypeOK
        <3> QED BY <3>1, <2>1, <2>2 DEF Route
    <2>7. Lease[s] = NoAddress
        BY <2>2 DEF Lease
    <2> QED BY <2>3, <2>4, <2>5, <2>6, <2>7 DEF Leases!Grant
<1> QED BY <1>1, <1>2

\* The erase at the end of startConnection gives the address back.
LEMMA ReleaseImplements ==
    ASSUME Inv, NEW s \in Sessions, ReleaseAddress(s)
    PROVE  Leases!GiveBack(s)
<1> USE DEF Inv
<1>1. /\ pc[s] = "release" /\ pc' = [pc EXCEPT ![s] = "done"]
      /\ addr' = addr /\ router' = router
    BY DEF ReleaseAddress, Goto
<1>2. s \in Holders /\ Holders' = Holders \ {s}
    BY <1>1 DEF Holders, TypeOK
<1>3. addr[s] \in Addresses
    BY <1>2, HolderAddress
<1>4. Lease[s] # NoAddress
    BY <1>2, <1>3 DEF Lease, NoAddress, Addresses
<1>5. Lease' = [Lease EXCEPT ![s] = NoAddress]
    BY <1>1, <1>2 DEF Lease
<1>6. Route' = [a \in Addresses |-> IF Route[a] = s THEN NoSession ELSE Route[a]]
    BY <1>1, <1>2, SessionsAssumption, HoldersAreSessions DEF Route
<1> QED BY <1>4, <1>5, <1>6 DEF Leases!GiveBack

\* A record that is applied sets the route of a lease, takes a route away, or
\* concerns sessions that have given their address back.
LEMMA AppliedImplements ==
    ASSUME Inv, NEW e \in Records, ~MustWait(e),
           e.add => e.addr = addr[e.con],
           router' = Applied(e), pc' = pc, addr' = addr
    PROVE  \/ \E s \in Sessions : Leases!Attach(s)
           \/ \E a \in Addresses : Leases!Detach(a)
           \/ Lease' = Lease /\ Route' = Route
<1> USE DEF Inv
<1>1. e.addr \in Addresses /\ e.con \in Sessions /\ e.add \in BOOLEAN
    BY DEF Records
<1>2. Holders' = Holders
    BY DEF Holders
<1>3. Lease' = Lease
    BY <1>2 DEF Lease
<1>4. router' = [router EXCEPT ![e.addr] = IF e.add THEN e.con ELSE NoSession]
    BY DEF Applied
<1>5. \A a \in Addresses : router'[a] =
          IF a = e.addr THEN (IF e.add THEN e.con ELSE NoSession) ELSE router[a]
    BY <1>4 DEF TypeOK
<1>6. CASE e.add /\ e.con \in Holders
    <2>1. router[e.addr] = NoSession
        BY <1>6 DEF MustWait
    <2>2. Lease[e.con] = e.addr
        BY <1>6, <1>1 DEF Lease
    <2>3. Route[e.addr] = NoSession
        BY <2>1, <1>1, HoldersAreSessions DEF Route
    <2>4. Route' = [Route EXCEPT ![e.addr] = e.con]
        BY <1>5, <1>2, <1>6, <1>1 DEF Route
    <2>5. e.addr # NoAddress
        BY <1>1 DEF Addresses, NoAddress
    <2>6. Leases!Attach(e.con)
        BY <2>2, <2>3, <2>4, <2>5, <1>3 DEF Leases!Attach
    <2> QED BY <2>6, <1>1
<1>7. CASE e.add /\ e.con \notin Holders
    <2>1. router[e.addr] = NoSession
        BY <1>7 DEF MustWait
    <2>2. Route' = Route
        BY <2>1, <1>7, <1>5, <1>2, <1>1, HoldersAreSessions DEF Route
    <2> QED BY <2>2, <1>3
<1>8. CASE ~e.add /\ router[e.addr] \in Holders
    <2>1. Route[e.addr] # NoSession
        BY <1>8, <1>1, HoldersAreSessions DEF Route
    <2>2. Route' = [Route EXCEPT ![e.addr] = NoSession]
        BY <1>8, <1>5, <1>2, <1>1, HoldersAreSessions DEF Route
    <2>3. Leases!Detach(e.addr)
        BY <2>1, <2>2, <1>3 DEF Leases!Detach
    <2> QED BY <2>3, <1>1
<1>9. CASE ~e.add /\ router[e.addr] \notin Holders
    <2>1. Route' = Route
        BY <1>9, <1>5, <1>2, <1>1, HoldersAreSessions DEF Route
    <2> QED BY <2>1, <1>3
<1> QED BY <1>1, <1>6, <1>7, <1>8, <1>9

\* Every step is a step of the abstract specification or a stutter.
LEMMA StepImplements ==
    ASSUME Inv, [Next]_vars
    PROVE  Leases!Next \/ (Lease' = Lease /\ Route' = Route)
<1> USE DEF Inv
<1>1. CASE TunRead \/ DrainEnds \/ RetryCheck \/ RoundEnds \/ Lookup \/ UNCHANGED vars
    <2>1. pc' = pc /\ addr' = addr /\ router' = router
        BY <1>1 DEF TunRead, DrainEnds, RetryCheck, RoundEnds, Lookup, vars, sessionVars
    <2>2. Holders' = Holders BY <2>1 DEF Holders
    <2> QED BY <2>1, <2>2, SameHolders
<1>2. CASE DrainPop
    <2>1. queue \in Seq(Records) /\ queue # <<>> /\ pc' = pc /\ addr' = addr
        BY <1>2 DEF DrainPop, TypeOK, sessionVars
    <2>2. Head(queue) = queue[1] /\ Len(queue) > 0 /\ Head(queue) \in Records /\ Len(queue) \in Nat
        BY <2>1, PopFacts
    <2>3. Head(queue).addr = addr[Head(queue).con]
        BY <2>2 DEF PathInv, QueueInv
    <2>4. CASE MustWait(Head(queue))
        <3>1. router' = router BY <2>4, <1>2 DEF DrainPop
        <3>2. Holders' = Holders BY <2>1 DEF Holders
        <3> QED BY <3>1, <3>2, <2>1, SameHolders
    <2>5. CASE ~MustWait(Head(queue))
        <3>1. router' = Applied(Head(queue)) BY <2>5, <1>2 DEF DrainPop
        <3> QED BY <3>1, <2>1, <2>2, <2>3, <2>5, AppliedImplements DEF Leases!Next
    <2> QED BY <2>4, <2>5
<1>3. CASE RoundStep
    <2>0. pc' = pc /\ addr' = addr /\ local \in Seq(Records)
        BY <1>3 DEF RoundStep, TypeOK, sessionVars
    <2>1. local # <<>>
        <3>1. rpc = "round" /\ todo > 0 /\ todo <= Len(local)
            BY <1>3 DEF RoundStep, TypeOK
        <3> QED BY <3>1, <2>0 DEF TypeOK
    <2>2. Head(local) = local[1] /\ Len(local) > 0 /\ Head(local) \in Records /\ Len(local) \in Nat
        BY <2>0, <2>1, PopFacts
    <2>3. ~Head(local).add
        BY <2>2 DEF LocalInv
    <2>4. CASE MustWait(Head(local))
        <3>1. router' = router BY <2>4, <1>3 DEF RoundStep
        <3>2. Holders' = Holders BY <2>0 DEF Holders
        <3> QED BY <3>1, <3>2, <2>0, SameHolders
    <2>5. CASE ~MustWait(Head(local))
        <3>1. router' = Applied(Head(local)) BY <2>5, <1>3 DEF RoundStep
        <3> QED BY <3>1, <2>0, <2>2, <2>3, <2>5, AppliedImplements DEF Leases!Next
    <2> QED BY <2>4, <2>5
<1>4. ASSUME NEW s \in Sessions, ProbeAddress(s)
      PROVE  Leases!Next \/ (Lease' = Lease /\ Route' = Route)
    BY <1>4, ProbeImplements DEF Leases!Next
<1>5. ASSUME NEW s \in Sessions, ReleaseAddress(s)
      PROVE  Leases!Next
    BY <1>5, ReleaseImplements DEF Leases!Next
<1>6. ASSUME NEW s \in Sessions,
             \/ StartConnection(s) \/ HandshakeFails(s) \/ EnterGetNewAddress(s)
             \/ SendIpFails(s) \/ Register(s) \/ DataExchangeEnds(s) \/ PushUnregister(s)
      PROVE  Lease' = Lease /\ Route' = Route
    <2>1. router' = router /\ addr' = addr
        BY <1>6 DEF StartConnection, HandshakeFails, EnterGetNewAddress, SendIpFails,
                    Register, DataExchangeEnds, PushUnregister
    <2>2. /\ pc' = [pc EXCEPT ![s] = pc'[s]]
          /\ pc'[s] \in {"sendip", "data", "unregister", "release"} <=>
             pc[s] \in {"sendip", "data", "unregister", "release"}
        BY <1>6 DEF StartConnection, HandshakeFails, EnterGetNewAddress, SendIpFails,
                    Register, DataExchangeEnds, PushUnregister, Goto, TypeOK
    <2>3. Holders' = Holders
        BY <2>2 DEF Holders, TypeOK
    <2> QED BY <2>1, <2>3, SameHolders
<1> QED BY <1>1, <1>2, <1>3, <1>4, <1>5, <1>6, NextActions

\* SessionRoutes implements AddressPool: tunQueue, the retry loop of emptyQueue
\* and the order in which startConnection unregisters and frees an address never
\* show as a double lease, a replaced route or a route without a lease.
THEOREM Refinement == Spec => ImplementsAddressPool
<1>1. Init => Leases!Init
    BY InitImplements
<1>2. Inv /\ [Next]_vars => [Leases!Next]_<<Lease, Route>>
    BY StepImplements
<1> QED BY <1>1, <1>2, Invariance, PTL
        DEF Spec, ImplementsAddressPool, Leases!Spec, Leases!leaseVars
=============================================================================
