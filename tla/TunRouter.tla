----------------------------- MODULE TunRouter -----------------------------
(* The control flow of routeTunToClients.  A coroutine that wants to send   *)
(* to a connection whose write lock is taken does not wait for the lock: it *)
(* awaits a nested routeTunToClients(false), which serves other packets and *)
(* returns after the first one it has sent; then the parent tries again.    *)
(* An exception makes the frame that caught it start a new root coroutine,  *)
(* routeTunToClients(true), before it returns to its parent.                *)
(*                                                                          *)
(* A root and the frames nested in it form a stack, of which only the top   *)
(* runs.  The records of tunQueue are abstracted to what emptyQueue makes   *)
(* of them (module SessionRoutes), the closing coroutines to the section in *)
(* which they hold the write lock (module Connection).                      *)
EXTENDS Naturals, Sequences, FiniteSets

CONSTANTS
    Cons,       \* the connections
    MaxDepth,   \* bound: frames of one stack
    MaxRoots    \* bound: stacks

ASSUME TunRouterAssumption ==
    /\ MaxDepth \in Nat /\ MaxRoots \in Nat \ {0}

Free == 0
Roots == 1 .. MaxRoots
Closer == MaxRoots + 1

VARIABLES
    stacks,     \* stacks[i]: the frames of root i, <<>> if there is no such root
    wanted,     \* connections whose last record pushed on tunQueue is an add
    over,       \* connections whose session has unregistered
    routed,     \* the connections in tunRouter
    writeLock,  \* writeLock[c]: Free, Closer, or the root whose top frame has it
    closed,     \* connections for which close() was called
    dead,       \* connections whose socket is closed
    unsent,     \* unsent[c]: packets encrypted for c and not yet sent, by root
    cussert     \* the assertions: in, out (a build with NCUSSERT), or one has failed

vars == <<stacks, wanted, over, routed, writeLock, closed, dead, unsent, cussert>>

NewFrame == [pc |-> "read", con |-> CHOOSE c \in Cons : TRUE]

Init ==
    /\ stacks = [i \in Roots |-> IF i = 1 THEN <<NewFrame>> ELSE <<>>]
    /\ wanted = {}
    /\ over = {}
    /\ routed = {}
    /\ writeLock = [c \in Cons |-> Free]
    /\ closed = {}
    /\ dead = {}
    /\ unsent = [c \in Cons |-> <<>>]
    /\ cussert \in {"in", "out"}

Depth(i) == Len(stacks[i])
Top(i) == stacks[i][Depth(i)]
At(i, pc) == stacks[i] # <<>> /\ Top(i).pc = pc
Below(i) == SubSeq(stacks[i], 1, Depth(i) - 1)
TopBecomes(i, pc, c) == [stacks EXCEPT ![i][Depth(i)] = [pc |-> pc, con |-> c]]

\* The assertion on entry, cussert(tunRouter.empty()), when the routes are r.  It
\* holds for the first root; a build that has it ends at the first nested call.
Enter(r) == cussert' = IF cussert = "in" /\ r # {} THEN "failed" ELSE cussert

-----------------------------------------------------------------------------
(* One loop iteration of the running frame of root i.                       *)

\* The read times out, or brings a packet that is not IPv4 or for no client.
ReadNothing(i) ==
    /\ At(i, "read")
    /\ routed' = wanted
    /\ UNCHANGED <<stacks, wanted, over, writeLock, closed, dead, unsent, cussert>>

\* Under the write lock the packet is encrypted and its send started.
LockAndEncrypt(i, c) ==
    /\ writeLock[c] = Free
    /\ writeLock' = [writeLock EXCEPT ![c] = i]
    /\ unsent' = [unsent EXCEPT ![c] = Append(@, i)]
    /\ stacks' = TopBecomes(i, "send", c)
    /\ UNCHANGED cussert

\* Mutant of Nest: the packet is encrypted before the write lock is there.
NestEncrypted(i, c, routes) ==
    /\ writeLock[c] # Free
    /\ Depth(i) < MaxDepth
    /\ stacks' = [stacks EXCEPT ![i] =
                     Append(Append(Below(i), [pc |-> "blocked", con |-> c]), NewFrame)]
    /\ unsent' = [unsent EXCEPT ![c] = Append(@, i)]
    /\ Enter(routes)
    /\ UNCHANGED writeLock

\* The write lock is taken: the frame awaits a nested routeTunToClients(false).
Nest(i, c, routes) ==
    /\ writeLock[c] # Free
    /\ Depth(i) < MaxDepth
    /\ stacks' = [stacks EXCEPT ![i] =
                     Append(Append(Below(i), [pc |-> "blocked", con |-> c]), NewFrame)]
    /\ Enter(routes)
    /\ UNCHANGED <<writeLock, unsent>>

\* A packet for c: emptyQueue, the lookup, and the first write_lock().
ReadPacket(i, c) ==
    /\ At(i, "read")
    /\ c \in wanted
    /\ routed' = wanted
    /\ LockAndEncrypt(i, c) \/ Nest(i, c, wanted)
    /\ UNCHANGED <<wanted, over, closed, dead>>

\* The nested coroutine has returned: write_lock() again.
Retry(i) ==
    /\ At(i, "retry")
    /\ LockAndEncrypt(i, Top(i).con) \/ Nest(i, Top(i).con, routed)
    /\ UNCHANGED <<wanted, over, routed, closed, dead>>

\* A frame returns to its parent; a root that returns is gone.
Returned(i) ==
    IF Depth(i) = 1 THEN <<>>
    ELSE [Below(i) EXCEPT ![Depth(i) - 1].pc = "retry"]

\* Mutant of SendDone: the nested frame returns with the write lock.
SendDoneLocked(i) ==
    /\ At(i, "send")
    /\ LET c == Top(i).con IN
       /\ c \notin dead
       /\ unsent' = [unsent EXCEPT ![c] = Tail(@)]
       /\ stacks' = IF Depth(i) = 1 THEN TopBecomes(i, "read", c)
                    ELSE [stacks EXCEPT ![i] = Returned(i)]
    /\ UNCHANGED <<wanted, over, routed, writeLock, closed, dead, cussert>>

\* The packet is sent and the lock dropped; a nested frame returns, a root
\* reads the next packet.
SendDone(i) ==
    /\ At(i, "send")
    /\ LET c == Top(i).con IN
       /\ c \notin dead
       /\ writeLock' = [writeLock EXCEPT ![c] = Free]
       /\ unsent' = [unsent EXCEPT ![c] = Tail(@)]
       /\ stacks' = IF Depth(i) = 1 THEN TopBecomes(i, "read", c)
                    ELSE [stacks EXCEPT ![i] = Returned(i)]
    /\ UNCHANGED <<wanted, over, routed, closed, dead, cussert>>

\* The encryption or the send fails: the lock is dropped before close(), which
\* returns at once if somebody else is closing; then "continue", also in a
\* nested frame.
SendFails(i) ==
    /\ At(i, "send")
    /\ LET c == Top(i).con IN
       /\ writeLock' = [writeLock EXCEPT ![c] = Free]
       /\ unsent' = [unsent EXCEPT ![c] = Tail(@)]
       /\ closed' = closed \union {c}
       /\ stacks' = TopBecomes(i, IF c \in closed THEN "read" ELSE "close", c)
    /\ UNCHANGED <<wanted, over, routed, dead, cussert>>

\* close() gets the write lock and does not throw.  (Its send of the error
\* frame ends at once: the send before it has failed.)
CloseReturns(i) ==
    /\ At(i, "close")
    /\ writeLock[Top(i).con] = Free
    /\ dead' = dead \union {Top(i).con}
    /\ stacks' = TopBecomes(i, "read", Top(i).con)
    /\ UNCHANGED <<wanted, over, routed, writeLock, closed, unsent, cussert>>

\* The handler: it starts a new root and the frame returns.
Restart(i) ==
    /\ \E j \in Roots :
         /\ stacks[j] = <<>> \/ (j = i /\ Depth(i) = 1)
         /\ \A k \in Roots : k < j => stacks[k] # <<>> /\ ~(k = i /\ Depth(i) = 1)
         /\ stacks' = [[stacks EXCEPT ![i] = Returned(i)] EXCEPT ![j] = <<NewFrame>>]
    /\ Enter(routed)

\* The read of the tun device fails and throws, before emptyQueue.
ReadThrows(i) ==
    /\ At(i, "read")
    /\ Restart(i)
    /\ UNCHANGED <<wanted, over, routed, writeLock, closed, dead, unsent>>

\* close() throws.
CloseThrows(i) ==
    /\ At(i, "close")
    /\ writeLock[Top(i).con] = Free
    /\ Restart(i)
    /\ UNCHANGED <<wanted, over, routed, writeLock, closed, dead, unsent>>

-----------------------------------------------------------------------------
(* The other coroutines.                                                    *)

\* A session registers its route, and unregisters it when it has ended.
Register(c) ==
    /\ c \notin wanted \union over
    /\ wanted' = wanted \union {c}
    /\ UNCHANGED <<stacks, over, routed, writeLock, closed, dead, unsent, cussert>>

Unregister(c) ==
    /\ c \in wanted
    /\ wanted' = wanted \ {c}
    /\ over' = over \union {c}
    /\ UNCHANGED <<stacks, routed, writeLock, closed, dead, unsent, cussert>>

\* The session or the sweep is in close() of c, from its lock to its end.
CloserLocks(c) ==
    /\ c \notin closed
    /\ writeLock[c] = Free
    /\ closed' = closed \union {c}
    /\ writeLock' = [writeLock EXCEPT ![c] = Closer]
    /\ UNCHANGED <<stacks, wanted, over, routed, dead, unsent, cussert>>

CloserUnlocks(c) ==
    /\ writeLock[c] = Closer
    /\ writeLock' = [writeLock EXCEPT ![c] = Free]
    /\ dead' = dead \union {c}
    /\ UNCHANGED <<stacks, wanted, over, routed, closed, unsent, cussert>>

Step(i) ==
    \/ ReadNothing(i) \/ Retry(i) \/ SendDone(i) \/ SendFails(i)
    \/ CloseReturns(i) \/ CloseThrows(i) \/ ReadThrows(i)
    \/ \E c \in Cons : ReadPacket(i, c)

Next ==
    /\ cussert # "failed"
    /\ \/ \E i \in Roots : Step(i)
       \/ \E c \in Cons : Register(c) \/ Unregister(c) \/ CloserLocks(c) \/ CloserUnlocks(c)

Spec == Init /\ [][Next]_vars

-----------------------------------------------------------------------------
\* A frame that waits for a nested one holds no write lock, so no coroutine of
\* the router waits for a lock that is released only when it goes on.
NoLockWhileWaiting ==
    \A i \in Roots, c \in Cons : writeLock[c] = i =>
        /\ At(i, "send") /\ Top(i).con = c
        /\ \A d \in 1 .. Depth(i) - 1 : stacks[i][d].pc = "blocked"

\* The packets of a connection are sent in the order in which they took their
\* piece of its AES stream: nothing else is encrypted for it between the
\* encryption of a packet and the end of its send.
CipherOrder ==
    \A c \in Cons : unsent[c] = IF writeLock[c] \in Roots THEN <<writeLock[c]>> ELSE <<>>
=============================================================================
