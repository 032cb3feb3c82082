----------------------------- MODULE Connection -----------------------------
(* One accepted connection and the three coroutines that use it: its own    *)
(* session (startConnection, performDataExchange), the router that sends    *)
(* packets to its client (routeTunToClients) and the sweep that closes old  *)
(* sessions (closeOldSessions).  The socket is protected by two try-locks,  *)
(* read_lock_ and write_lock_, held across co_awaits, and by the flag       *)
(* closed, which lets one close() through.  All coroutines run on the one   *)
(* thread of the context, so code between two co_awaits is one step.        *)
EXTENDS FiniteSets

Actors == {"session", "router", "sweep"}
Free == "free"

VARIABLES
    sess,        \* where the session coroutine is
    sending,     \* the router is inside send, under the write lock
    closing,     \* closing[a]: where actor a is in close()
    closed,      \* Connection::closed
    writeLock,   \* owner of write_lock_
    readLock,    \* read_lock_, taken by the session for one whole frame
    open,        \* sock_ is open on our side
    peer,        \* the client's side: present, or gone (FIN or RST received)
    partial,     \* the actor whose frame is partly in the TCP stream
    mangled,     \* bytes of one frame were written inside another
    errorSent,   \* the error frame of close() is in the stream
    routed,      \* tunRouter has the connection
    blocked,     \* a frame of the router waits with this connection in con
    listed,      \* connections_ has the connection
    expired,     \* alive_time() >= max_alive_time, as the next sweep compares it
    aborted      \* cuabort was called

sockVars == <<open, peer>>
routeVars == <<routed, blocked>>
streamVars == <<partial, mangled, errorSent>>
lockVars == <<writeLock, readLock>>
vars == <<sess, sending, closing, closed, writeLock, readLock, open, peer,
          partial, mangled, errorSent, routed, blocked, listed, expired, aborted>>

Init ==
    /\ sess = "handshake"
    /\ sending = FALSE
    /\ closing = [a \in Actors |-> "no"]
    /\ closed = FALSE
    /\ writeLock = Free
    /\ readLock = FALSE
    /\ open = TRUE
    /\ peer = "present"
    /\ partial = Free
    /\ mangled = FALSE
    /\ errorSent = FALSE
    /\ routed = FALSE
    /\ blocked = FALSE
    /\ listed = TRUE
    /\ expired = FALSE
    /\ aborted = FALSE

\* What reliable_is_open can answer: bytes the client sent before it left hide
\* that it is gone, and its connection may have failed in another way than by
\* eof and reset.
OpenAnswers ==
    IF ~open THEN {"no"}
    ELSE IF peer = "present" THEN {"yes"} ELSE {"yes", "no", "error"}

\* The try-locks: the exchange finds the flag not set.
WriteLocked(a) == writeLock = Free /\ writeLock' = a
ReadLocked == ~readLock /\ readLock' = TRUE

\* ~Socket_lock.
WriteUnlocked == writeLock' = Free
ReadUnlocked == readLock' = FALSE

\* is_active has no answer while the read lock is taken.
IsActive == IF readLock THEN {} ELSE OpenAnswers

\* One async_write_some of actor a, and what a client that is still there gets
\* of it.  Before the session is served, little has been sent, and the socket
\* buffer has room for a whole frame.
Write(a, whole) ==
    /\ whole \/ sess \notin {"handshake", "sendip"}
    /\ partial' = IF whole THEN Free ELSE a
    /\ mangled' = (mangled \/ (peer = "present" /\ partial \notin {Free, a}))

-----------------------------------------------------------------------------
(* close().                                                                 *)

\* The exchange of the flag; the winner goes on to the write lock.
EnterClose(a) ==
    /\ closed' = TRUE
    /\ closing' = IF closed THEN closing ELSE [closing EXCEPT ![a] = "lock"]

LeaveClose(a) == closing' = [closing EXCEPT ![a] = "no"]

\* After close() the session coroutine ends, which drops its read lock.
AfterClose(a) ==
    IF a = "session" THEN sess' = "end" /\ ReadUnlocked
    ELSE UNCHANGED <<sess, readLock>>

\* Mutant of CloseLock: the write lock is taken whoever has it.
CloseLockRegardless(a) ==
    /\ closing[a] = "lock"
    /\ \E answer \in OpenAnswers :
         IF answer = "yes"
         THEN /\ writeLock' = a
              /\ closing' = [closing EXCEPT ![a] = "send"]
              /\ UNCHANGED <<sess, readLock>>
         ELSE UNCHANGED writeLock /\ LeaveClose(a) /\ AfterClose(a)
    /\ UNCHANGED <<sending, closed, sockVars, streamVars, routeVars, listed, expired, aborted>>

\* The spin on the write lock succeeds.  A socket that is not open any more is
\* left as it is, and the lock's lifetime ends at once.
CloseLock(a) ==
    /\ closing[a] = "lock"
    /\ writeLock = Free
    /\ \E answer \in OpenAnswers :
         IF answer = "yes"
         THEN /\ WriteLocked(a)
              /\ closing' = [closing EXCEPT ![a] = "send"]
              /\ UNCHANGED <<sess, readLock>>
         ELSE UNCHANGED writeLock /\ LeaveClose(a) /\ AfterClose(a)
    /\ UNCHANGED <<sending, closed, sockVars, streamVars, routeVars, listed, expired, aborted>>

\* The error frame is written, or the send fails and "just skip".
CloseSend(a) ==
    /\ closing[a] = "send"
    /\ \/ /\ open
          /\ \E whole \in BOOLEAN :
               /\ Write(a, whole)
               /\ closing' = [closing EXCEPT ![a] = IF whole THEN "shut" ELSE "send"]
               /\ errorSent' = (errorSent \/ whole)
       \/ /\ peer = "gone"
          /\ closing' = [closing EXCEPT ![a] = "shut"]
          /\ UNCHANGED streamVars
    /\ UNCHANGED <<sess, sending, closed, lockVars, sockVars, routeVars, listed, expired,
                   aborted>>

\* Mutant of CloseShut: the error path returns before the socket is closed.
CloseShutLeavesOpen(a) ==
    /\ closing[a] = "shut"
    /\ UNCHANGED <<open, aborted>>
    /\ WriteUnlocked
    /\ LeaveClose(a)
    /\ AfterClose(a)
    /\ UNCHANGED <<sending, closed, peer, streamVars, routeVars, listed, expired>>

\* shutdown, the drain and close of the socket; shutdown throws when the client
\* has reset the connection meanwhile.  The sweep turns the exception into an
\* abort, the session and the router catch it.
CloseShut(a) ==
    /\ closing[a] = "shut"
    /\ \/ open' = FALSE /\ UNCHANGED aborted
       \/ peer = "gone" /\ UNCHANGED open /\ aborted' = (a = "sweep")
    /\ WriteUnlocked
    /\ LeaveClose(a)
    /\ AfterClose(a)
    /\ UNCHANGED <<sending, closed, peer, streamVars, routeVars, listed, expired>>

-----------------------------------------------------------------------------
(* The session coroutine.  Its reads of the handshake take no lock.         *)

NoClose(a) == closing[a] = "no"

\* A session step that ends with a call of close(): it returns at once if some
\* other actor is closing.
SessionCloses ==
    /\ EnterClose("session")
    /\ IF closed THEN sess' = "end" /\ ReadUnlocked
       ELSE UNCHANGED <<sess, readLock>>

\* Mutant of SessionThrows: the exception leaves the read lock taken.
SessionThrowsLocked ==
    /\ sess \in {"handshake", "frame"}
    /\ NoClose("session")
    /\ sess' = "end"
    /\ UNCHANGED <<sending, closing, closed, lockVars, sockVars, streamVars, routeVars,
                   listed, expired, aborted>>

\* A read fails because the client is gone or the socket was closed under it,
\* or a length field is refused: an exception that does not close anything.
SessionThrows ==
    /\ sess \in {"handshake", "frame"}
    /\ NoClose("session")
    /\ sess' = "end"
    /\ ReadUnlocked
    /\ UNCHANGED <<sending, closing, closed, writeLock, sockVars, streamVars, routeVars,
                   listed, expired, aborted>>

\* A denied login, a decryption failure, a failed sendIp, a full tunQueue: the
\* session calls close().
SessionFails ==
    /\ sess \in {"handshake", "sendip", "frame"}
    /\ NoClose("session")
    /\ SessionCloses
    /\ UNCHANGED <<sending, writeLock, sockVars, streamVars, routeVars, listed, expired,
                   aborted>>

\* sendIp writes without the write lock; its eight bytes fit the empty buffer.
\* A socket that is found closed makes it call close() instead.
SendIp ==
    /\ sess = "handshake"
    /\ NoClose("session")
    /\ \E answer \in OpenAnswers :
         IF answer = "yes"
         THEN /\ Write("session", TRUE)
              /\ sess' = "sendip"
              /\ UNCHANGED <<closing, closed, readLock, errorSent>>
         ELSE SessionCloses /\ UNCHANGED streamVars
    /\ UNCHANGED <<sending, writeLock, sockVars, routeVars, listed, expired, aborted>>

\* The address is sent: the add record is pushed and, at the latest with the
\* next emptyQueue, the connection is routed.
RegisterRoute ==
    /\ sess = "sendip"
    /\ NoClose("session")
    /\ sess' = "wait"
    /\ routed' = TRUE
    /\ UNCHANGED <<blocked, sending, closing, closed, lockVars, sockVars, streamVars,
                   listed, expired, aborted>>

\* What wait_read reports: also a client that is gone is something to read.
WaitRead == IF open THEN "ready" ELSE "cancelled"

\* wait_read reports data: the read lock is taken and the frame is read.
WaitReadReady ==
    /\ sess = "wait"
    /\ WaitRead = "ready"
    /\ ReadLocked
    /\ sess' = "frame"
    /\ UNCHANGED <<sending, closing, closed, writeLock, sockVars, streamVars, routeVars,
                   listed, expired, aborted>>

\* wait_read reports that the socket was closed under it; with the client gone
\* the read that follows fails as well.
WaitReadFails ==
    /\ sess = "wait"
    /\ WaitRead = "cancelled" \/ peer = "gone"
    /\ sess' = "end"
    /\ UNCHANGED <<sending, closing, closed, lockVars, sockVars, streamVars, routeVars,
                   listed, expired, aborted>>

\* The frame is complete (its bytes may precede the client's FIN); it goes to the
\* tun device after the unlock.
FrameRead ==
    /\ sess = "frame"
    /\ NoClose("session")
    /\ open
    /\ sess' = "tunwrite"
    /\ ReadUnlocked
    /\ UNCHANGED <<sending, closing, closed, writeLock, sockVars, streamVars, routeVars,
                   listed, expired, aborted>>

\* The tun device has the packet; or Tun::write throws, which ends the session.
TunWritten ==
    /\ sess = "tunwrite"
    /\ sess' \in {"wait", "end"}
    /\ UNCHANGED <<sending, closing, closed, lockVars, sockVars, streamVars, routeVars,
                   listed, expired, aborted>>

-----------------------------------------------------------------------------
(* The router.                                                              *)

\* A packet for this client while the write lock is taken: the frame keeps con
\* and tries again when the nested router returns, also if the route has been
\* erased by then.
RouterBlocked ==
    /\ routed
    /\ NoClose("router") /\ ~sending
    /\ writeLock # Free
    /\ ~blocked
    /\ blocked' = TRUE
    /\ UNCHANGED <<sess, sending, closing, closed, lockVars, sockVars, streamVars, routed,
                   listed, expired, aborted>>

\* A packet for this client, new or of a blocked frame, while the write lock is
\* free: encrypt and start the send; or the encryption fails, or send finds the
\* socket not open, and the lock is released and close() called.
RouterSends ==
    /\ routed \/ blocked
    /\ NoClose("router") /\ ~sending
    /\ writeLock = Free
    /\ blocked' \in {blocked, FALSE}
    /\ \/ "yes" \in OpenAnswers /\ WriteLocked("router") /\ sending' = TRUE
          /\ UNCHANGED <<closing, closed>>
       \/ EnterClose("router") /\ UNCHANGED <<writeLock, sending>>
    /\ UNCHANGED <<sess, readLock, sockVars, streamVars, routed, listed, expired, aborted>>

\* Part of the packet, or the rest of it, goes into the stream.
RouterWrites ==
    /\ sending
    /\ open
    /\ \E whole \in BOOLEAN :
         /\ Write("router", whole)
         /\ sending' = ~whole
         /\ writeLock' = IF whole THEN Free ELSE writeLock
    /\ UNCHANGED <<sess, closing, closed, readLock, sockVars, errorSent, routeVars, listed,
                   expired, aborted>>

\* Mutant of RouterSendFails: close() is called with the write lock held.
RouterSendFailsLocked ==
    /\ sending
    /\ ~open \/ peer = "gone"
    /\ sending' = FALSE
    /\ EnterClose("router")
    /\ UNCHANGED <<sess, lockVars, sockVars, streamVars, routeVars, listed, expired, aborted>>

\* The send fails: "have to release lock first before close".
RouterSendFails ==
    /\ sending
    /\ ~open \/ peer = "gone"
    /\ sending' = FALSE
    /\ WriteUnlocked
    /\ EnterClose("router")
    /\ UNCHANGED <<sess, readLock, sockVars, streamVars, routeVars, listed, expired, aborted>>

\* emptyQueue applies the remove record of the ended session.
RouteErased ==
    /\ routed
    /\ sess = "end"
    /\ routed' = FALSE
    /\ UNCHANGED <<blocked, sess, sending, closing, closed, lockVars, sockVars,
                   streamVars, listed, expired, aborted>>

-----------------------------------------------------------------------------
(* The sweep, and the world.                                                *)

\* Mutant of Sweep: the age of a connection is not looked at.
SweepInactive ==
    /\ listed
    /\ NoClose("sweep")
    /\ "no" \in IsActive
    /\ listed' = FALSE
    /\ EnterClose("sweep")
    /\ UNCHANGED <<sess, sending, lockVars, sockVars, streamVars, routeVars, expired, aborted>>

\* One look at this connection: an inactive or expired one is dropped from
\* connections_ and then closed; one without an answer is passed over; an error
\* is thrown by is_active and not caught.
Sweep ==
    /\ listed
    /\ NoClose("sweep")
    /\ \E answer \in IsActive :
         \/ /\ answer = "no" \/ (answer = "yes" /\ expired)
            /\ listed' = FALSE
            /\ EnterClose("sweep")
            /\ UNCHANGED aborted
         \/ /\ answer = "error"
            /\ aborted' = TRUE
            /\ UNCHANGED <<listed, closing, closed>>
    /\ UNCHANGED <<sess, sending, lockVars, sockVars, streamVars, routeVars, expired>>

\* Every sweep compares with its own copy of the limit, and no copy is
\* initialized: the comparison comes out one way in one sweep and the other way
\* in the next.
NewLimit ==
    /\ expired' = ~expired
    /\ UNCHANGED <<sess, sending, closing, closed, lockVars, sockVars, streamVars, routeVars,
                   listed, aborted>>

PeerLeaves ==
    /\ peer = "present"
    /\ peer' = "gone"
    /\ UNCHANGED <<sess, sending, closing, closed, lockVars, open, streamVars, routeVars,
                   listed, expired, aborted>>

CloseStep(a) == CloseLock(a) \/ CloseSend(a) \/ CloseShut(a)
SessionStep ==
    \/ SessionThrows \/ SessionFails \/ SendIp \/ RegisterRoute \/ WaitReadReady
    \/ WaitReadFails \/ FrameRead \/ TunWritten
RouterStep == RouterBlocked \/ RouterSends \/ RouterWrites \/ RouterSendFails \/ RouteErased

Next ==
    /\ ~aborted
    /\ \/ \E a \in Actors : CloseStep(a)
       \/ SessionStep
       \/ RouterStep
       \/ Sweep
       \/ NewLimit
       \/ PeerLeaves

Spec == Init /\ [][Next]_vars

\* A coroutine that is ready is resumed; the spin on the write lock and the
\* sweep of every 10 seconds get their turn between the others; a session that
\* reads comes to the end of what a client that left had sent; the client's TCP
\* goes on taking what is sent.  Nothing is assumed of what the client sends, so
\* a frame may stay incomplete for ever, nor of the limit.  That a sweep
\* meets a socket that is closed or a session that is too old is assumed only
\* if that is so again and again.  Nothing runs after an abort.
Running(A) == ~aborted /\ A
Fairness ==
    /\ \A a \in Actors :
         /\ SF_vars(Running(CloseLock(a)))
         /\ WF_vars(Running(CloseSend(a) /\ closing'[a] = "shut"))
         /\ WF_vars(Running(CloseShut(a)))
    /\ WF_vars(Running(RouterWrites /\ ~sending'))
    /\ WF_vars(Running(RouterSendFails))
    /\ SF_vars(Running(SessionThrows /\ (~open \/ peer = "gone")))
    /\ WF_vars(Running(RegisterRoute))
    /\ WF_vars(Running(WaitReadFails))
    /\ WF_vars(Running(TunWritten))
    /\ SF_vars(Running(Sweep /\ (~open \/ expired)))

FairSpec == Spec /\ Fairness

-----------------------------------------------------------------------------
\* No frame of one actor is written into the middle of another's, although
\* sendIp takes no lock ("no lock cuz still in init process").
FramesWhole == ~mangled

\* close() returns to its caller.
CloseCompletes == \A a \in Actors : closing[a] # "no" ~> (closing[a] = "no" \/ aborted)

\* Closing a connection ends its session, whoever closes it and whatever the
\* session waits for.
CloseEndsSession == closed ~> (sess = "end" \/ aborted)

\* A connection whose session has ended does not stay in connections_ for ever:
\* not when its socket has been closed, and not, if the session ended without a
\* close(), when the limit is one that the sweeps find exceeded.
EndedForgotten ==
    /\ sess = "end" /\ ~open ~> (~listed \/ aborted)
    /\ <>[]expired => (sess = "end" ~> (~listed \/ aborted))

\* "session alive time limit": a session that, from some time on, the sweeps
\* would find too old, ends.
SessionExpires == <>[]expired => <>(sess = "end" \/ aborted)

\* It does, unless the client leaves a frame incomplete for ever.
ExpiresUnlessMidFrame ==
    <>[]expired => <>(sess = "end" \/ aborted \/ []readLock)
=============================================================================
