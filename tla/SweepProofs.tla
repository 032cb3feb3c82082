----------------------------- MODULE SweepProofs -----------------------------
(* Proofs that the vector of connections stays in order under any number of  *)
(* simultaneous sweeps, any number of connections and any limit.             *)
EXTENDS Sweep, SequenceTheorems, TLAPS

-----------------------------------------------------------------------------
(* The inductive invariant.                                                  *)

\* A sweep that awaits close() has called it.
VictimsClosed == \A k \in Sweeps : victim[k] # NoCon => victim[k] \in closed

Inv == TypeOK /\ ListedOrClosed /\ VictimsClosed

-----------------------------------------------------------------------------
(* Lemmas.                                                                   *)

\* The next-state relation as the list of its actions.
LEMMA NextActions ==
    ASSUME [Next]_vars
    PROVE  \/ UNCHANGED vars
           \/ \E k \in Sweeps :
                \/ SettingsArrive(k) \/ LookKeeps(k) \/ LookDrops(k) \/ LookThrows(k)
                \/ CloseReturns(k) \/ CloseThrows(k) \/ LoopEnds(k) \/ TimerFires(k)
           \/ \E c \in Connections :
                \/ Accept(c) \/ SessionLocks(c) \/ SessionUnlocks(c) \/ ConnectionEnds(c)
                \/ Expire(c)
  BY DEF Next, SweepStep

\* What the acceptor's push_back does to the vector.
LEMMA PushFacts ==
    ASSUME NEW c \in Connections, conns \in Seq(Connections), conns' = Append(conns, c)
    PROVE  /\ conns' \in Seq(Connections)
           /\ Len(conns) \in Nat /\ Len(conns') = Len(conns) + 1
           /\ conns'[Len(conns) + 1] = c
           /\ \A i \in 1 .. Len(conns) : conns'[i] = conns[i]
           /\ Range(conns') = Range(conns) \union {c}
<1>1. /\ conns' \in Seq(Connections)
      /\ Len(conns) \in Nat /\ Len(conns') = Len(conns) + 1
      /\ conns'[Len(conns) + 1] = c
      /\ \A i \in 1 .. Len(conns) : conns'[i] = conns[i]
    OBVIOUS
<1>2. DOMAIN conns = 1 .. Len(conns) /\ DOMAIN conns' = 1 .. Len(conns) + 1
    BY <1>1
<1>3. Range(conns') = Range(conns) \union {c}
    BY <1>1, <1>2 DEF Range
<1> QED BY <1>1, <1>3

\* What dropping the element at the index does: the last element takes its place
\* and every other one stays where it is.
LEMMA DropFacts ==
    ASSUME NEW k \in Sweeps, TypeOK, ListedOrClosed, index[k] < Len(conns),
           conns' = Dropped(k)
    PROVE  LET n == Len(conns)
               x == index[k] + 1
           IN  /\ n \in Nat /\ x \in 1 .. n
               /\ conns' \in Seq(Connections)
               /\ Len(conns') = n - 1
               /\ \A i \in 1 .. n - 1 : conns'[i] = IF i = x THEN conns[n] ELSE conns[i]
               /\ Range(conns') = Range(conns) \ {conns[x]}
<1> DEFINE n == Len(conns)
           x == index[k] + 1
           moved == [conns EXCEPT ![x] = conns[n]]
<1>1. /\ n \in Nat /\ x \in 1 .. n /\ conns \in Seq(Connections)
      /\ DOMAIN conns = 1 .. n
    BY DEF TypeOK
<1>2. /\ moved \in Seq(Connections) /\ Len(moved) = n
      /\ \A i \in 1 .. n : moved[i] = IF i = x THEN conns[n] ELSE conns[i]
    BY <1>1
<1>3. conns' = SubSeq(moved, 1, n - 1)
    BY <1>2 DEF Dropped, Front, Last
<1> HIDE DEF moved
<1>4. /\ conns' \in Seq(Connections)
      /\ Len(conns') = n - 1
      /\ \A i \in 1 .. n - 1 : conns'[i] = moved[i]
    BY <1>1, <1>2, <1>3
<1>5. \A i \in 1 .. n - 1 : conns'[i] = IF i = x THEN conns[n] ELSE conns[i]
    BY <1>1, <1>2, <1>4
<1>6. \A i, j \in 1 .. n : conns[i] = conns[j] => i = j
    BY DEF ListedOrClosed
<1>7. DOMAIN conns' = 1 .. n - 1
    BY <1>4
<1>8. Range(conns') \subseteq Range(conns) \ {conns[x]}
    <2> SUFFICES ASSUME NEW i \in 1 .. n - 1
                 PROVE  conns'[i] \in {conns[j] : j \in 1 .. n} /\ conns'[i] # conns[x]
        BY <1>1, <1>7 DEF Range
    <2>1. CASE i = x BY <1>1, <1>5, <1>6, <2>1
    <2>2. CASE i # x BY <1>1, <1>5, <1>6, <2>2
    <2> QED BY <2>1, <2>2
<1>9. Range(conns) \ {conns[x]} \subseteq Range(conns')
    <2> SUFFICES ASSUME NEW j \in 1 .. n, j # x
                 PROVE  \E i \in 1 .. n - 1 : conns'[i] = conns[j]
        BY <1>1, <1>7 DEF Range
    <2>1. CASE j = n
        <3>1. x \in 1 .. n - 1 /\ conns'[x] = conns[n] BY <1>1, <1>5, <2>1
        <3> QED BY <2>1, <3>1
    <2>2. CASE j # n
        <3>0. n \in Nat BY <1>1
        <3>1. j \in 1 .. n - 1
            <4> HIDE DEF n
            <4> QED BY <2>2, <3>0
        <3>2. conns'[j] = conns[j] BY <1>5, <3>1
        <3> QED BY <3>1, <3>2
    <2> QED BY <2>1, <2>2
<1> QED BY <1>1, <1>4, <1>5, <1>8, <1>9

-----------------------------------------------------------------------------
(* Types, and the vector against the set of closed connections.              *)

\* The start: no connections, no sweep.
LEMMA InitInv == Init => Inv /\ NobodySkipped
<1> SUFFICES ASSUME Init PROVE Inv /\ NobodySkipped
    OBVIOUS
<1>1. Len(conns) = 0 /\ Listed = {} /\ conns \in Seq(Connections)
    BY DEF Init, Listed, Range
<1>2. TypeOK BY <1>1 DEF Init, TypeOK, SnapshotLimits
<1> QED BY <1>1, <1>2 DEF Init, Inv, ListedOrClosed, VictimsClosed, NobodySkipped

\* Steps that leave the vector alone.
LEMMA InvUnchanged ==
    ASSUME Inv, UNCHANGED <<conns, accepted, closed>>,
           {over', busy', old', due'} \subseteq SUBSET Listed,
           aborted' \in BOOLEAN,
           pc' \in [Sweeps -> {"none", "settings", "loop", "closing"}],
           index' \in [Sweeps -> Nat], limit' \in [Sweeps -> SnapshotLimits],
           victim' \in [Sweeps -> Connections \union {NoCon}],
           \A k \in Sweeps : (pc'[k] = "closing" <=> victim'[k] # NoCon)
                             /\ victim'[k] \in {NoCon, victim[k]}
    PROVE  Inv'
<1>1. TypeOK'
    BY DEF Inv, TypeOK, Listed
<1>2. ListedOrClosed'
    BY DEF Inv, ListedOrClosed, Listed
<1>3. VictimsClosed'
    BY DEF Inv, VictimsClosed
<1> QED BY <1>1, <1>2, <1>3 DEF Inv

\* Dropping the current connection.
LEMMA InvDrop == ASSUME Inv, NEW k \in Sweeps, LookDrops(k) PROVE Inv'
<1> DEFINE c == Current(k)
<1>1. /\ index[k] < Len(conns) /\ conns' = Dropped(k) /\ closed' = closed \union {c}
      /\ accepted' = accepted /\ victim' = [victim EXCEPT ![k] = c]
      /\ pc' = [pc EXCEPT ![k] = "closing"] /\ pc[k] = "loop"
      /\ over' = over \ {c} /\ old' = old \ {c} /\ busy' = busy /\ c \notin busy
      /\ due' = due \ {c} /\ UNCHANGED <<index, limit, aborted>>
    BY DEF LookDrops, Looks, Runs, InLoop, Goto
<1>2. /\ Len(conns) \in Nat /\ index[k] + 1 \in 1 .. Len(conns)
      /\ conns' \in Seq(Connections)
      /\ Len(conns') = Len(conns) - 1
      /\ \A i \in 1 .. Len(conns) - 1 :
            conns'[i] = IF i = index[k] + 1 THEN conns[Len(conns)] ELSE conns[i]
      /\ Range(conns') = Range(conns) \ {c}
    BY <1>1, DropFacts DEF Inv, Current
<1>3. c \in Listed /\ c \in Connections /\ c # NoCon
    <2>1. conns \in Seq(Connections) /\ DOMAIN conns = 1 .. Len(conns) BY DEF Inv, TypeOK
    <2>2. c = conns[index[k] + 1] BY DEF Current
    <2>3. c \in Connections BY <1>2, <2>1, <2>2, ElementOfSeq
    <2> QED BY <1>2, <2>1, <2>2, <2>3, SweepAssumption DEF Listed, Range
<1> HIDE DEF c
<1>4. TypeOK'
    BY <1>1, <1>2, <1>3 DEF Inv, TypeOK, Listed
<1>5. ListedOrClosed'
    <2>1. \A i, j \in 1 .. Len(conns') : conns'[i] = conns'[j] => i = j
        BY <1>2 DEF Inv, ListedOrClosed
    <2>2. Listed' \union closed' = accepted' /\ Listed' \intersect closed' = {}
        BY <1>1, <1>2, <1>3 DEF Inv, ListedOrClosed, Listed
    <2>3. c \notin closed BY <1>3 DEF Inv, ListedOrClosed
    <2>4. \A j \in Sweeps : victim[j] # c BY <1>3, <2>3 DEF Inv, VictimsClosed
    <2>5. \A i, j \in Sweeps : victim'[i] = victim'[j] /\ victim'[i] # NoCon => i = j
        BY <1>1, <2>4 DEF Inv, TypeOK, ListedOrClosed
    <2> QED BY <2>1, <2>2, <2>5 DEF ListedOrClosed
<1>6. VictimsClosed'
    BY <1>1 DEF Inv, TypeOK, VictimsClosed
<1> QED BY <1>4, <1>5, <1>6 DEF Inv

\* Accepting a connection.
LEMMA InvAccept == ASSUME Inv, NEW c \in Connections, Accept(c) PROVE Inv'
<1>1. /\ c \notin accepted /\ conns' = Append(conns, c) /\ accepted' = accepted \union {c}
      /\ UNCHANGED <<closed, index, limit, victim, over, busy, old, due, aborted>>
    BY DEF Accept, world
<1>2. /\ pc' \in [Sweeps -> {"none", "settings", "loop", "closing"}]
      /\ \A k \in Sweeps : pc'[k] = "closing" <=> pc[k] = "closing"
    BY DEF Accept, Started, Goto, Inv, TypeOK
<1>3. /\ conns' \in Seq(Connections)
      /\ Len(conns) \in Nat /\ Len(conns') = Len(conns) + 1
      /\ conns'[Len(conns) + 1] = c
      /\ \A i \in 1 .. Len(conns) : conns'[i] = conns[i]
      /\ Range(conns') = Range(conns) \union {c}
    BY <1>1, PushFacts DEF Inv, TypeOK
<1>4. TypeOK'
    BY <1>1, <1>2, <1>3 DEF Inv, TypeOK, Listed
<1>5. c \notin Listed /\ c \notin closed BY <1>1 DEF Inv, ListedOrClosed
<1>6. \A i \in 1 .. Len(conns) : conns[i] # c
    <2>1. DOMAIN conns = 1 .. Len(conns) BY DEF Inv, TypeOK
    <2> QED BY <1>5, <2>1 DEF Listed, Range
<1>7. \A i, j \in 1 .. Len(conns') : conns'[i] = conns'[j] => i = j
    <2> SUFFICES ASSUME NEW i \in 1 .. Len(conns) + 1, NEW j \in 1 .. Len(conns) + 1,
                        conns'[i] = conns'[j]
                 PROVE  i = j
        BY <1>3
    <2>1. CASE i \in 1 .. Len(conns) /\ j \in 1 .. Len(conns)
        BY <1>3, <2>1 DEF Inv, ListedOrClosed
    <2>2. CASE i = Len(conns) + 1 BY <1>3, <1>6, <2>2
    <2>3. CASE j = Len(conns) + 1 BY <1>3, <1>6, <2>3
    <2> QED BY <1>3, <2>1, <2>2, <2>3
<1>8. ListedOrClosed'
    BY <1>1, <1>3, <1>5, <1>7 DEF Inv, ListedOrClosed, Listed
<1>9. VictimsClosed'
    BY <1>1 DEF Inv, VictimsClosed
<1> QED BY <1>4, <1>8, <1>9 DEF Inv

\* Every step keeps the invariant.
LEMMA InvStep == Inv /\ [Next]_vars => Inv'
<1> SUFFICES ASSUME Inv, [Next]_vars PROVE Inv'
    OBVIOUS
<1> USE DEF Goto
<1>1. CASE UNCHANGED vars
    BY <1>1 DEF vars, Inv, TypeOK, ListedOrClosed, VictimsClosed, Listed
<1>2. ASSUME NEW k \in Sweeps, SettingsArrive(k) PROVE Inv'
    BY <1>2, InvUnchanged DEF SettingsArrive, SnapshotLimits, world, Inv, TypeOK
<1>3. ASSUME NEW k \in Sweeps, LookKeeps(k) PROVE Inv'
    BY <1>3, InvUnchanged DEF LookKeeps, Looks, world, Inv, TypeOK
<1>4. ASSUME NEW k \in Sweeps, LookDrops(k) PROVE Inv'
    BY <1>4, InvDrop
<1>5. ASSUME NEW k \in Sweeps, LookThrows(k) PROVE Inv'
    BY <1>5, InvUnchanged DEF LookThrows, Looks, world, sweepVars, Inv, TypeOK
<1>6. ASSUME NEW k \in Sweeps, CloseReturns(k) PROVE Inv'
    BY <1>6, InvUnchanged DEF CloseReturns, world, Inv, TypeOK
<1>7. ASSUME NEW k \in Sweeps, CloseThrows(k) PROVE Inv'
    BY <1>7, InvUnchanged DEF CloseThrows, world, sweepVars, Inv, TypeOK
<1>8. ASSUME NEW k \in Sweeps, LoopEnds(k) PROVE Inv'
    BY <1>8, InvUnchanged DEF LoopEnds, Runs, InLoop, world, SnapshotLimits, Inv, TypeOK
<1>9. ASSUME NEW k \in Sweeps, TimerFires(k) PROVE Inv'
    BY <1>9, InvUnchanged DEF TimerFires, Started, world, Inv, TypeOK
<1>10. ASSUME NEW c \in Connections, Accept(c) PROVE Inv'
    BY <1>10, InvAccept
<1>11. ASSUME NEW c \in Connections,
              SessionLocks(c) \/ SessionUnlocks(c) \/ ConnectionEnds(c) \/ Expire(c)
       PROVE  Inv'
    <2>1. UNCHANGED <<conns, accepted, closed, sweepVars, due, aborted>>
        BY <1>11 DEF SessionLocks, SessionUnlocks, ConnectionEnds, Expire
    <2>2. {over', busy', old'} \subseteq SUBSET Listed
        BY <1>11 DEF SessionLocks, SessionUnlocks, ConnectionEnds, Expire, Inv, TypeOK
    <2> QED BY <2>1, <2>2, InvUnchanged DEF sweepVars, Inv, TypeOK
<1> QED BY NextActions, <1>1, <1>2, <1>3, <1>4, <1>5, <1>6, <1>7, <1>8, <1>9, <1>10, <1>11

\* The inductive invariant holds in every reachable state.
LEMMA Invariance == Spec => []Inv
<1>1. Init => Inv BY InitInv
<1> QED BY <1>1, InvStep, PTL DEF Spec

\* The variables of the vector and of the sweeps keep their types.
THEOREM TypeCorrect == Spec => []TypeOK
<1>1. Inv => TypeOK BY DEF Inv
<1> QED BY Invariance, <1>1, PTL

\* However many sweeps and accepts interleave, no connection is listed twice, is
\* dropped without close(), or is closed by two sweeps.
THEOREM VectorConsistent == Spec => []ListedOrClosed
<1>1. Inv => ListedOrClosed BY DEF Inv
<1> QED BY Invariance, <1>1, PTL

-----------------------------------------------------------------------------
(* Nobody is skipped.                                                        *)

\* A step that moves no element and no sweep past one that is due.
LEMMA CoverKept ==
    ASSUME Inv, NobodySkipped, UNCHANGED conns, due' \subseteq due,
           \A k \in Sweeps : pc[k] \in {"loop", "closing"} =>
             /\ pc'[k] \in {"loop", "closing"}
             /\ \A p \in 1 .. Len(conns) :
                  conns[p] \in due' /\ index[k] < p => index'[k] < p
    PROVE  NobodySkipped'
  BY DEF NobodySkipped

\* Every step keeps NobodySkipped.
LEMMA SkipStep == Inv /\ NobodySkipped /\ [Next]_vars => NobodySkipped'
<1> SUFFICES ASSUME Inv, NobodySkipped, [Next]_vars PROVE NobodySkipped'
    OBVIOUS
<1> USE DEF Goto
<1>0. /\ conns \in Seq(Connections) /\ Len(conns) \in Nat /\ index \in [Sweeps -> Nat]
      /\ pc \in [Sweeps -> {"none", "settings", "loop", "closing"}]
    BY DEF Inv, TypeOK
<1>1. CASE UNCHANGED vars
    BY <1>1, CoverKept DEF vars
<1>2. ASSUME NEW k \in Sweeps, SettingsArrive(k) PROVE NobodySkipped'
    <2>1. pc'[k] = "loop" /\ index'[k] = 0
        BY <1>0, <1>2 DEF SettingsArrive
    <2>2. UNCHANGED conns BY <1>2 DEF SettingsArrive
    <2> QED BY <1>0, <2>1, <2>2 DEF NobodySkipped
<1>3. ASSUME NEW k \in Sweeps, LookKeeps(k) PROVE NobodySkipped'
    <2>1. /\ UNCHANGED <<conns, pc>> /\ due' = due \ {conns[index[k] + 1]}
          /\ index' = [index EXCEPT ![k] = @ + 1]
        BY <1>3 DEF LookKeeps, Looks, Current
    <2> QED BY <1>0, <2>1, CoverKept
<1>4. ASSUME NEW k \in Sweeps, LookDrops(k) PROVE NobodySkipped'
    <2>1. /\ index[k] < Len(conns) /\ conns' = Dropped(k) /\ UNCHANGED index
          /\ pc' = [pc EXCEPT ![k] = "closing"] /\ due' \subseteq due
        BY <1>4 DEF LookDrops, Looks
    <2>2. /\ index[k] + 1 \in 1 .. Len(conns) /\ Len(conns') = Len(conns) - 1
          /\ \A i \in 1 .. Len(conns) - 1 :
               conns'[i] = IF i = index[k] + 1 THEN conns[Len(conns)] ELSE conns[i]
        BY <2>1, DropFacts DEF Inv
    <2> SUFFICES ASSUME NEW p \in 1 .. Len(conns) - 1, conns'[p] \in due'
                 PROVE  \E j \in Sweeps : pc'[j] \in {"loop", "closing"} /\ index[j] < p
        BY <2>1, <2>2 DEF NobodySkipped
    <2>3. CASE p = index[k] + 1
        BY <1>0, <2>1, <2>3
    <2>4. CASE p # index[k] + 1
        <3>1. p \in 1 .. Len(conns) /\ conns[p] \in due BY <1>0, <2>1, <2>2, <2>4
        <3>2. PICK j \in Sweeps : pc[j] \in {"loop", "closing"} /\ index[j] < p
            BY <3>1 DEF NobodySkipped
        <3>3. pc'[j] \in {"loop", "closing"} BY <1>0, <2>1, <3>2
        <3> QED BY <3>2, <3>3
    <2> QED BY <2>3, <2>4
<1>5. ASSUME NEW k \in Sweeps, LookThrows(k) \/ CloseThrows(k) \/ TimerFires(k)
      PROVE  NobodySkipped'
    <2>1. /\ UNCHANGED <<conns, index>> /\ due' \subseteq due
          /\ pc' = pc \/ (pc[k] = "none" /\ pc' = [pc EXCEPT ![k] = "settings"])
        BY <1>5 DEF LookThrows, CloseThrows, TimerFires, Started, Looks, sweepVars
    <2> QED BY <1>0, <2>1, CoverKept
<1>6. ASSUME NEW k \in Sweeps, CloseReturns(k) PROVE NobodySkipped'
    <2>1. /\ UNCHANGED <<conns, due>> /\ pc' = [pc EXCEPT ![k] = "loop"]
          /\ index' = [index EXCEPT ![k] = IF @ > Len(conns) THEN Len(conns) ELSE @]
        BY <1>6 DEF CloseReturns
    <2> QED BY <1>0, <2>1, CoverKept
<1>7. ASSUME NEW k \in Sweeps, LoopEnds(k) PROVE NobodySkipped'
    <2>1. /\ UNCHANGED <<conns, due>> /\ index[k] >= Len(conns)
          /\ pc' = [pc EXCEPT ![k] = "none"] /\ index' = [index EXCEPT ![k] = 0]
        BY <1>7 DEF LoopEnds
    <2> SUFFICES ASSUME NEW p \in 1 .. Len(conns), conns[p] \in due
                 PROVE  \E j \in Sweeps : pc'[j] \in {"loop", "closing"} /\ index'[j] < p
        BY <2>1 DEF NobodySkipped
    <2>2. PICK j \in Sweeps : pc[j] \in {"loop", "closing"} /\ index[j] < p
        BY DEF NobodySkipped
    <2>3. j # k BY <1>0, <2>1, <2>2
    <2> QED BY <1>0, <2>1, <2>2, <2>3
<1>8. ASSUME NEW c \in Connections, Accept(c) PROVE NobodySkipped'
    <2>1. /\ c \notin accepted /\ conns' = Append(conns, c) /\ UNCHANGED <<index, due>>
        BY <1>8 DEF Accept
    <2>2. \A k \in Sweeps : pc[k] \in {"loop", "closing"} => pc'[k] = pc[k]
        BY <1>0, <1>8 DEF Accept, Started
    <2>3. /\ Len(conns') = Len(conns) + 1
          /\ conns'[Len(conns) + 1] = c
          /\ \A i \in 1 .. Len(conns) : conns'[i] = conns[i]
        BY <1>0, <2>1, PushFacts
    <2>4. c \notin due BY <2>1 DEF Inv, TypeOK, ListedOrClosed
    <2> SUFFICES ASSUME NEW p \in 1 .. Len(conns) + 1, conns'[p] \in due
                 PROVE  \E j \in Sweeps : pc'[j] \in {"loop", "closing"} /\ index[j] < p
        BY <2>1, <2>3 DEF NobodySkipped
    <2>5. p \in 1 .. Len(conns) /\ conns[p] \in due BY <1>0, <2>3, <2>4
    <2> QED BY <2>2, <2>5 DEF NobodySkipped
<1>9. ASSUME NEW c \in Connections,
             SessionLocks(c) \/ SessionUnlocks(c) \/ ConnectionEnds(c) \/ Expire(c)
      PROVE  NobodySkipped'
    <2>1. UNCHANGED <<conns, pc, index, due>>
        BY <1>9 DEF SessionLocks, SessionUnlocks, ConnectionEnds, Expire, sweepVars
    <2> QED BY <2>1, CoverKept
<1> QED BY NextActions, <1>1, <1>2, <1>3, <1>4, <1>5, <1>6, <1>7, <1>8, <1>9

\* A connection that nobody has looked at since a sweep began is ahead of a sweep
\* that is under way: simultaneous sweeps skip nobody.
THEOREM SweepsSkipNobody == Spec => []NobodySkipped
<1>1. Init => NobodySkipped BY InitInv
<1>2. Inv /\ NobodySkipped /\ [Next]_vars => NobodySkipped' BY SkipStep
<1> QED BY Invariance, <1>1, <1>2, PTL DEF Spec
=============================================================================
