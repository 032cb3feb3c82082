-------------------------------- MODULE Sweep --------------------------------
(* connections_, the vector of accepted connections, and the coroutines that *)
(* change it: the acceptor appends, and closeOldSessions walks over it with  *)
(* an index, drops what is over or too old by moving the last element into   *)
(* its place, and awaits close() before it looks at the same index again.    *)
(* The cleanup timer starts a sweep every ten seconds, the acceptor starts   *)
(* one when the vector is long, and nothing keeps a sweep from starting      *)
(* while others wait in close().                                             *)
(*                                                                           *)
(* All run on the one thread of the context: a sweep in its loop is not      *)
(* interrupted until its next co_await.                                      *)
EXTENDS Naturals, Sequences, SequencesExt

CONSTANTS
    Connections,       \* the connections that may be accepted
    NoCon,      \* a sweep that is not closing a connection
    Sweeps,     \* bound: the sweeps under way at one time
    Limit       \* 1 << 13, the length at which the acceptor starts a sweep

ASSUME SweepAssumption == NoCon \notin Connections /\ Limit \in Nat

VARIABLES
    conns,      \* connections_
    accepted,   \* history: connections that were put in it
    closed,     \* connections for which a sweep called close()
    pc,         \* where each sweep is
    index,      \* i, counted from 0
    limit,      \* max_alive_time, by what it is less than or equal to
    victim,     \* conn of a sweep that awaits its close()
    over,       \* listed connections whose socket is not open
    busy,       \* listed connections whose session holds the read lock
    old,        \* listed connections older than the configured max_alive_time
    due,        \* history: listed when a sweep began and not looked at since
    aborted     \* cuabort was called

sweepVars == <<pc, index, limit, victim>>
world == <<over, busy, old>>
vars == <<conns, accepted, closed, pc, index, limit, victim, over, busy, old, due, aborted>>

Listed == Range(conns)

Init ==
    /\ conns = <<>>
    /\ accepted = {}
    /\ closed = {}
    /\ pc = [k \in Sweeps |-> "none"]
    /\ index = [k \in Sweeps |-> 0]
    /\ limit = [k \in Sweeps |-> "configured"]
    /\ victim = [k \in Sweeps |-> NoCon]
    /\ over = {}
    /\ busy = {}
    /\ old = {}
    /\ due = {}
    /\ aborted = FALSE

-----------------------------------------------------------------------------
(* The sweep.                                                               *)

InLoop(k) == pc[k] = "loop"
ThreadFree == ~aborted /\ \A k \in Sweeps : ~InLoop(k)
Runs(k) == ~aborted /\ InLoop(k)

Goto(k, l) == pc' = [pc EXCEPT ![k] = l]

\* A sweep begins by asking the settings context for a snapshot.
Started(k) == pc[k] = "none" /\ Goto(k, "settings")

\* The cleanup timer expires, starts a sweep and is started again.
TimerFires(k) ==
    /\ ThreadFree
    /\ Started(k)
    /\ UNCHANGED <<conns, accepted, closed, index, limit, victim, world, due, aborted>>

\* The copy and move constructors of SettingsSnapshot leave max_alive_time
\* uninitialized, so the snapshot that arrives may have any value: one that
\* every age exceeds, the configured one, or one that no age reaches.
SnapshotLimits == {"lower", "configured", "higher"}

SettingsArrive(k) ==
    /\ ThreadFree
    /\ pc[k] = "settings"
    /\ Goto(k, "loop")
    /\ index' = [index EXCEPT ![k] = 0]
    /\ \E l \in SnapshotLimits : limit' = [limit EXCEPT ![k] = l]
    /\ due' = Listed
    /\ UNCHANGED <<conns, accepted, closed, victim, world, aborted>>

Current(k) == conns[index[k] + 1]

\* alive_time() >= max_alive_time
TooOld(k, c) == limit[k] = "lower" \/ (limit[k] = "configured" /\ c \in old)

\* Sweep k looks at the connection at its index.
Looks(k) ==
    /\ Runs(k)
    /\ index[k] < Len(conns)
    /\ due' = due \ {Current(k)}

\* Mutants of Dropped: the last element is popped and not moved; it is moved and
\* not popped.
DroppedLast(k) == Front(conns)
DroppedMoved(k) == [conns EXCEPT ![index[k] + 1] = Last(conns)]

\* connections_[i] = std::move(connections_.back()); connections_.pop_back()
Dropped(k) == Front([conns EXCEPT ![index[k] + 1] = Last(conns)])

\* is_active has no answer, or says that the connection is open and it is young
\* enough.
LookKeeps(k) ==
    /\ Looks(k)
    /\ Current(k) \in busy \/ (Current(k) \notin over /\ ~TooOld(k, Current(k)))
    /\ index' = [index EXCEPT ![k] = @ + 1]
    /\ UNCHANGED <<conns, accepted, closed, pc, limit, victim, world, aborted>>

\* The connection is not open, or it is too old: it is dropped from the vector
\* and closed.
LookDrops(k) ==
    /\ Looks(k)
    /\ Current(k) \notin busy
    /\ Current(k) \in over \/ TooOld(k, Current(k))
    /\ conns' = Dropped(k)
    /\ closed' = closed \union {Current(k)}
    /\ victim' = [victim EXCEPT ![k] = Current(k)]
    /\ over' = over \ {Current(k)}
    /\ old' = old \ {Current(k)}
    /\ Goto(k, "closing")
    /\ UNCHANGED <<accepted, index, limit, busy, aborted>>

\* is_active, or close() of a connection, throws.
LookThrows(k) ==
    /\ Looks(k)
    /\ Current(k) \notin busy
    /\ aborted' = TRUE
    /\ UNCHANGED <<conns, accepted, closed, sweepVars, world>>
CloseThrows(k) ==
    /\ ThreadFree
    /\ pc[k] = "closing"
    /\ aborted' = TRUE
    /\ UNCHANGED <<conns, accepted, closed, sweepVars, world, due>>

\* Mutant of CloseReturns: the index goes on after a close.
CloseReturnsNext(k) ==
    /\ ThreadFree
    /\ pc[k] = "closing"
    /\ Goto(k, "loop")
    /\ index' = [index EXCEPT ![k] = @ + 1]
    /\ victim' = [victim EXCEPT ![k] = NoCon]
    /\ UNCHANGED <<conns, accepted, closed, limit, world, due, aborted>>

\* close() has returned.  Meanwhile others may have made the vector shorter.
CloseReturns(k) ==
    /\ ThreadFree
    /\ pc[k] = "closing"
    /\ Goto(k, "loop")
    /\ index' = [index EXCEPT ![k] = IF @ > Len(conns) THEN Len(conns) ELSE @]
    /\ victim' = [victim EXCEPT ![k] = NoCon]
    /\ UNCHANGED <<conns, accepted, closed, limit, world, due, aborted>>

LoopEnds(k) ==
    /\ Runs(k)
    /\ index[k] >= Len(conns)
    /\ Goto(k, "none")
    /\ index' = [index EXCEPT ![k] = 0]
    /\ limit' = [limit EXCEPT ![k] = "configured"]
    /\ UNCHANGED <<conns, accepted, closed, victim, world, due, aborted>>

-----------------------------------------------------------------------------
(* The acceptor, the sessions and time.                                     *)

\* acceptConnection got a socket; a vector that has become too long is swept.
Accept(c) ==
    /\ ThreadFree
    /\ c \notin accepted
    /\ conns' = Append(conns, c)
    /\ accepted' = accepted \union {c}
    /\ IF Len(conns) + 1 > Limit
       THEN \E k \in Sweeps : Started(k)
       ELSE UNCHANGED pc
    /\ UNCHANGED <<closed, index, limit, victim, world, due, aborted>>

\* A session takes the read lock for a frame and gives it back.
SessionLocks(c) ==
    /\ ThreadFree
    /\ c \in Listed /\ c \notin busy \union over
    /\ busy' = busy \union {c}
    /\ UNCHANGED <<conns, accepted, closed, sweepVars, over, old, due, aborted>>
SessionUnlocks(c) ==
    /\ ThreadFree
    /\ c \in busy
    /\ busy' = busy \ {c}
    /\ UNCHANGED <<conns, accepted, closed, sweepVars, over, old, due, aborted>>

\* The client leaves, or the session or the router closes the connection.
ConnectionEnds(c) ==
    /\ ThreadFree
    /\ c \in Listed /\ c \notin over
    /\ over' = over \union {c}
    /\ UNCHANGED <<conns, accepted, closed, sweepVars, busy, old, due, aborted>>

Expire(c) ==
    /\ ThreadFree
    /\ c \in Listed /\ c \notin old
    /\ old' = old \union {c}
    /\ UNCHANGED <<conns, accepted, closed, sweepVars, over, busy, due, aborted>>

SweepStep(k) ==
    \/ SettingsArrive(k)
    \/ LookKeeps(k)
    \/ LookDrops(k)
    \/ LookThrows(k)
    \/ CloseReturns(k)
    \/ CloseThrows(k)
    \/ LoopEnds(k)

Next ==
    \/ \E k \in Sweeps : SweepStep(k) \/ TimerFires(k)
    \/ \E c \in Connections :
         Accept(c) \/ SessionLocks(c) \/ SessionUnlocks(c) \/ ConnectionEnds(c) \/ Expire(c)

Spec == Init /\ [][Next]_vars

-----------------------------------------------------------------------------
\* Type invariant of the vector and the sweeps.
TypeOK ==
    /\ conns \in Seq(Connections)
    /\ {accepted, closed} \subseteq SUBSET Connections
    /\ {over, busy, old} \subseteq SUBSET Listed
    /\ due \subseteq Listed
    /\ pc \in [Sweeps -> {"none", "settings", "loop", "closing"}]
    /\ index \in [Sweeps -> Nat]
    /\ limit \in [Sweeps -> SnapshotLimits]
    /\ victim \in [Sweeps -> Connections \union {NoCon}]
    /\ \A k \in Sweeps : pc[k] = "closing" <=> victim[k] # NoCon
    /\ aborted \in BOOLEAN

\* No connection is listed twice, none is dropped without being closed, and no
\* two sweeps close the same one, whatever the sweeps and the acceptor do to
\* the vector while a sweep waits in close().
ListedOrClosed ==
    /\ \A i, j \in 1 .. Len(conns) : conns[i] = conns[j] => i = j
    /\ Listed \union closed = accepted
    /\ Listed \intersect closed = {}
    /\ \A j, k \in Sweeps : victim[j] = victim[k] /\ victim[j] # NoCon => j = k

\* Sweeps under way at the same time move elements to the front of each other,
\* and yet none is skipped by all: an element that nobody has looked at since a
\* sweep began is still ahead of one of them.
NobodySkipped ==
    \A p \in 1 .. Len(conns) : conns[p] \in due =>
        \E k \in Sweeps : pc[k] \in {"loop", "closing"} /\ index[k] < p
=============================================================================
