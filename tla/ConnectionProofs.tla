--------------------------- MODULE ConnectionProofs ---------------------------
(* Proof that no frame is ever written inside another one on the connection's *)
(* stream, for any interleaving of the session, the router, the sweep and the *)
(* client.                                                                    *)
EXTENDS Connection, TLAPS

-----------------------------------------------------------------------------
(* The inductive invariant.                                                  *)

TypeOK ==
    /\ sess \in {"handshake", "sendip", "wait", "frame", "tunwrite", "end"}
    /\ sending \in BOOLEAN
    /\ closing \in [Actors -> {"no", "lock", "send", "shut"}]
    /\ closed \in BOOLEAN
    /\ writeLock \in Actors \union {Free}
    /\ readLock \in BOOLEAN
    /\ open \in BOOLEAN
    /\ peer \in {"present", "gone"}
    /\ partial \in Actors \union {Free}
    /\ mangled \in BOOLEAN
    /\ errorSent \in BOOLEAN
    /\ routed \in BOOLEAN
    /\ blocked \in BOOLEAN
    /\ listed \in BOOLEAN
    /\ expired \in BOOLEAN
    /\ aborted \in BOOLEAN

\* Whoever writes under the write lock has it: the router in send, the one
\* actor that close() let through from the error frame to the end of close().
LockInv ==
    /\ sending => writeLock = "router"
    /\ \A a \in Actors : closing[a] \in {"send", "shut"} => writeLock = a

\* The flag closed lets one close() through.
OneCloses ==
    /\ \A a \in Actors : closing[a] # "no" => closed
    /\ \A a, b \in Actors : closing[a] # "no" /\ closing[b] # "no" => a = b

\* The router does not send while it closes.
RouterBusyOnce == sending => closing["router"] = "no"

\* Before the address is sent, while the session writes without the lock, the
\* router has no packets for it, so nothing can fill the socket's buffer.
EarlyInv == sess \in {"handshake", "sendip"} => ~routed /\ ~blocked /\ partial = Free

\* A frame that is begun keeps the write lock with its writer until it is whole,
\* unless the stream has ended on one side.
BegunInv == partial # Free => writeLock = partial \/ ~open \/ peer = "gone"

Inv == TypeOK /\ LockInv /\ OneCloses /\ RouterBusyOnce /\ EarlyInv /\ BegunInv /\ FramesWhole

-----------------------------------------------------------------------------
(* The step.                                                                 *)

\* An action of a coroutine that leaves the stream and its locks alone.
LEMMA Quiet ==
    ASSUME TypeOK', Inv,
           UNCHANGED <<sending, closing, closed, writeLock, sockVars, partial, mangled>>,
           sess' \in {"handshake", "sendip"} => sess' = sess /\ UNCHANGED routeVars
    PROVE  Inv'
  BY DEF Inv, LockInv, OneCloses, RouterBusyOnce, EarlyInv, BegunInv, FramesWhole,
         sockVars, routeVars

\* Where a call of close() may put an actor, and what its end does to the session.
LEMMA EnterTypes ==
    ASSUME TypeOK, NEW a \in Actors, EnterClose(a)
    PROVE  closing' \in [Actors -> {"no", "lock", "send", "shut"}] /\ closed' \in BOOLEAN
  BY DEF EnterClose, TypeOK

LEMMA LeaveTypes ==
    ASSUME TypeOK, NEW a \in Actors, LeaveClose(a)
    PROVE  closing' \in [Actors -> {"no", "lock", "send", "shut"}]
  BY DEF LeaveClose, TypeOK

LEMMA AfterTypes ==
    ASSUME TypeOK, NEW a \in Actors, AfterClose(a)
    PROVE  /\ sess' \in {"handshake", "sendip", "wait", "frame", "tunwrite", "end"}
           /\ readLock' \in BOOLEAN
  BY DEF AfterClose, ReadUnlocked, TypeOK

LEMMA SessionClosesTypes ==
    ASSUME TypeOK, SessionCloses
    PROVE  /\ sess' \in {"handshake", "sendip", "wait", "frame", "tunwrite", "end"}
           /\ readLock' \in BOOLEAN
           /\ closing' \in [Actors -> {"no", "lock", "send", "shut"}] /\ closed' \in BOOLEAN
<1>1. EnterClose("session") /\ "session" \in Actors
  BY DEF SessionCloses, Actors
<1>. QED  BY <1>1, EnterTypes DEF SessionCloses, ReadUnlocked, TypeOK

\* Every step of close(), whoever is in it.
LEMMA CloseKeepsInv ==
    ASSUME Inv, NEW a \in Actors, CloseStep(a)
    PROVE  Inv'
<1> USE DEF Inv, sockVars, streamVars, lockVars, routeVars
<1>1. CASE CloseLock(a)
  <2>1. TypeOK'
    <3>1. CASE WriteLocked(a) /\ closing' = [closing EXCEPT ![a] = "send"]
               /\ UNCHANGED <<sess, readLock>>
      <4>1. closing' \in [Actors -> {"no", "lock", "send", "shut"}]
        BY <3>1 DEF TypeOK
      <4>. QED  BY <1>1, <3>1, <4>1 DEF CloseLock, WriteLocked, TypeOK
    <3>2. CASE UNCHANGED writeLock /\ LeaveClose(a) /\ AfterClose(a)
      BY <1>1, <3>2, LeaveTypes, AfterTypes DEF CloseLock, TypeOK
    <3>. QED  BY <1>1, <3>1, <3>2 DEF CloseLock
  <2>2. LockInv' /\ OneCloses' /\ RouterBusyOnce'
    BY <1>1 DEF CloseLock, WriteLocked, LeaveClose, TypeOK, LockInv, OneCloses, RouterBusyOnce,
                Actors, Free
  <2>3. EarlyInv' /\ BegunInv' /\ FramesWhole'
    BY <1>1 DEF CloseLock, WriteLocked, LeaveClose, AfterClose, TypeOK, EarlyInv, BegunInv,
                FramesWhole, Free
  <2>. QED  BY <2>1, <2>2, <2>3
<1>2. CASE CloseSend(a)
  <2>1. TypeOK'
    BY <1>2 DEF CloseSend, Write, TypeOK, Actors
  <2>2. LockInv' /\ OneCloses' /\ RouterBusyOnce'
    BY <1>2 DEF CloseSend, TypeOK, LockInv, OneCloses, RouterBusyOnce, Actors
  <2>3. writeLock = a
    BY <1>2 DEF CloseSend, LockInv
  <2>4. EarlyInv' /\ BegunInv' /\ FramesWhole'
    BY <1>2, <2>3 DEF CloseSend, Write, TypeOK, EarlyInv, BegunInv, FramesWhole
  <2>. QED  BY <2>1, <2>2, <2>4
<1>3. CASE CloseShut(a)
  <2>1. TypeOK'
    <3>1. LeaveClose(a) /\ AfterClose(a) /\ writeLock' = Free
      BY <1>3 DEF CloseShut, WriteUnlocked
    <3>2. open' \in BOOLEAN /\ aborted' \in BOOLEAN
      BY <1>3 DEF CloseShut, TypeOK
    <3>. QED  BY <1>3, <3>1, <3>2, LeaveTypes, AfterTypes DEF CloseShut, TypeOK
  <2>2. LockInv' /\ OneCloses' /\ RouterBusyOnce'
    BY <1>3 DEF CloseShut, WriteUnlocked, LeaveClose, TypeOK, LockInv, OneCloses,
                RouterBusyOnce, Actors
  <2>3. EarlyInv' /\ BegunInv' /\ FramesWhole'
    BY <1>3 DEF CloseShut, WriteUnlocked, AfterClose, TypeOK, EarlyInv, BegunInv, FramesWhole
  <2>. QED  BY <2>1, <2>2, <2>3
<1>. QED  BY <1>1, <1>2, <1>3 DEF CloseStep

\* The call of close() keeps what is said of the locks.
LEMMA EnterKeepsLocks ==
    ASSUME Inv, NEW a \in Actors, closing[a] = "no", EnterClose(a),
           sending' \in BOOLEAN, sending' => sending /\ a # "router",
           \/ writeLock' = writeLock /\ sending' = sending
           \/ writeLock = "router" /\ a = "router" /\ ~sending'
    PROVE  LockInv' /\ OneCloses' /\ RouterBusyOnce'
  BY DEF EnterClose, Inv, TypeOK, LockInv, OneCloses, RouterBusyOnce

\* The session's steps: it writes only before anybody else can be in the middle
\* of a frame.
LEMMA SessionKeepsInv ==
    ASSUME Inv, SessionStep
    PROVE  Inv'
<1> USE DEF Inv, sockVars, streamVars, lockVars, routeVars
<1>1. ASSUME SessionThrows \/ WaitReadReady \/ WaitReadFails \/ FrameRead \/ TunWritten
      PROVE  Inv'
  <2>1. /\ sess' \in {"wait", "frame", "tunwrite", "end"}
        /\ readLock' \in BOOLEAN
        /\ UNCHANGED <<sending, closing, closed, writeLock, sockVars, streamVars, routeVars,
                       listed, expired, aborted>>
    BY <1>1 DEF SessionThrows, WaitReadReady, WaitReadFails, FrameRead, TunWritten, ReadLocked,
                ReadUnlocked, TypeOK
  <2>2. TypeOK'
    BY <2>1 DEF TypeOK
  <2>. QED  BY <2>1, <2>2, Quiet
<1>2. ASSUME SessionFails
      PROVE  Inv'
  <2>1. TypeOK'
    BY <1>2, SessionClosesTypes DEF SessionFails, TypeOK
  <2>2. LockInv' /\ OneCloses' /\ RouterBusyOnce'
    <3>1. closing["session"] = "no" /\ EnterClose("session") /\ "session" \in Actors
          /\ UNCHANGED <<writeLock, sending>>
      BY <1>2 DEF SessionFails, SessionCloses, NoClose, Actors
    <3>. QED  BY <3>1, EnterKeepsLocks DEF TypeOK
  <2>3. EarlyInv' /\ BegunInv' /\ FramesWhole'
    BY <1>2 DEF SessionFails, SessionCloses, EarlyInv, BegunInv, FramesWhole
  <2>. QED  BY <2>1, <2>2, <2>3
<1>3. ASSUME SendIp
      PROVE  Inv'
  <2>1. CASE SessionCloses /\ UNCHANGED streamVars
    <3>1. TypeOK'
      BY <1>3, <2>1, SessionClosesTypes DEF SendIp, TypeOK
    <3>2. LockInv' /\ OneCloses' /\ RouterBusyOnce'
      <4>1. closing["session"] = "no" /\ EnterClose("session") /\ "session" \in Actors
            /\ UNCHANGED <<writeLock, sending>>
        BY <1>3, <2>1 DEF SendIp, SessionCloses, NoClose, Actors
      <4>. QED  BY <4>1, EnterKeepsLocks DEF TypeOK
    <3>3. EarlyInv' /\ BegunInv' /\ FramesWhole'
      BY <1>3, <2>1 DEF SendIp, SessionCloses, EarlyInv, BegunInv, FramesWhole
    <3>. QED  BY <3>1, <3>2, <3>3
  <2>2. CASE /\ Write("session", TRUE)
             /\ sess' = "sendip"
             /\ UNCHANGED <<closing, closed, readLock, errorSent>>
    <3>1. TypeOK'
      BY <1>3, <2>2 DEF SendIp, Write, TypeOK, Actors
    <3>2. LockInv' /\ OneCloses' /\ RouterBusyOnce'
      BY <1>3, <2>2 DEF SendIp, LockInv, OneCloses, RouterBusyOnce
    <3>3. EarlyInv' /\ BegunInv' /\ FramesWhole'
      BY <1>3, <2>2 DEF SendIp, Write, EarlyInv, BegunInv, FramesWhole
    <3>. QED  BY <3>1, <3>2, <3>3
  <2>. QED  BY <1>3, <2>1, <2>2 DEF SendIp
<1>4. ASSUME RegisterRoute
      PROVE  Inv'
  <2>1. TypeOK'
    BY <1>4 DEF RegisterRoute, TypeOK
  <2>. QED  BY <1>4, <2>1, Quiet DEF RegisterRoute
<1>. QED  BY <1>1, <1>2, <1>3, <1>4 DEF SessionStep

\* The router's steps: a packet goes out under the write lock, which is given
\* back with the packet whole or the stream at its end.
LEMMA RouterKeepsInv ==
    ASSUME Inv, RouterStep
    PROVE  Inv'
<1> USE DEF Inv, sockVars, streamVars, lockVars, routeVars
<1>1. ASSUME RouterSends
      PROVE  Inv'
  <2>0. blocked' \in BOOLEAN /\ (routed \/ blocked)
    BY <1>1 DEF RouterSends, TypeOK
  <2>1. CASE WriteLocked("router") /\ sending' = TRUE /\ UNCHANGED <<closing, closed>>
    <3>1. TypeOK'
      BY <2>0, <1>1, <2>1 DEF RouterSends, WriteLocked, TypeOK, Actors
    <3>2. LockInv' /\ OneCloses' /\ RouterBusyOnce'
      BY <1>1, <2>1 DEF RouterSends, WriteLocked, NoClose, LockInv, OneCloses, RouterBusyOnce,
                        Actors, Free
    <3>3. EarlyInv' /\ BegunInv' /\ FramesWhole'
      BY <1>1, <2>0, <2>1 DEF RouterSends, WriteLocked, TypeOK, Actors, Free, EarlyInv,
                              BegunInv, FramesWhole
    <3>. QED  BY <3>1, <3>2, <3>3
  <2>2. CASE EnterClose("router") /\ UNCHANGED <<writeLock, sending>>
    <3>1. TypeOK'
      <4>1. "router" \in Actors
        BY DEF Actors
      <4>. QED  BY <1>1, <2>0, <2>2, <4>1, EnterTypes DEF RouterSends, TypeOK
    <3>2. LockInv' /\ OneCloses' /\ RouterBusyOnce'
      <4>1. closing["router"] = "no" /\ ~sending /\ "router" \in Actors
        BY <1>1 DEF RouterSends, NoClose, Actors
      <4>. QED  BY <2>2, <4>1, EnterKeepsLocks DEF TypeOK
    <3>3. EarlyInv' /\ BegunInv' /\ FramesWhole'
      BY <1>1, <2>0, <2>2 DEF RouterSends, EarlyInv, BegunInv, FramesWhole
    <3>. QED  BY <3>1, <3>2, <3>3
  <2>. QED  BY <1>1, <2>1, <2>2 DEF RouterSends
<1>2. ASSUME RouterWrites
      PROVE  Inv'
  <2>1. TypeOK'
    BY <1>2 DEF RouterWrites, Write, TypeOK, Actors
  <2>2. LockInv' /\ OneCloses' /\ RouterBusyOnce'
    BY <1>2 DEF RouterWrites, TypeOK, LockInv, OneCloses, RouterBusyOnce, Actors, Free
  <2>3. writeLock = "router"
    BY <1>2 DEF RouterWrites, LockInv
  <2>4. EarlyInv' /\ BegunInv' /\ FramesWhole'
    BY <1>2, <2>3 DEF RouterWrites, Write, TypeOK, EarlyInv, BegunInv, FramesWhole, Free
  <2>. QED  BY <2>1, <2>2, <2>4
<1>3. ASSUME RouterSendFails
      PROVE  Inv'
  <2>1. TypeOK'
    <3>1. EnterClose("router") /\ "router" \in Actors /\ writeLock' = Free /\ sending' = FALSE
      BY <1>3 DEF RouterSendFails, WriteUnlocked, Actors
    <3>2. closing' \in [Actors -> {"no", "lock", "send", "shut"}] /\ closed' \in BOOLEAN
      BY <3>1, EnterTypes
    <3>3. /\ sending' \in BOOLEAN /\ writeLock' \in Actors \union {Free}
          /\ UNCHANGED <<sess, readLock, sockVars, streamVars, routeVars, listed, expired,
                         aborted>>
      BY <1>3, <3>1 DEF RouterSendFails
    <3>. QED  BY <3>2, <3>3 DEF TypeOK
  <2>2. LockInv' /\ OneCloses' /\ RouterBusyOnce'
    <3>1. closing["router"] = "no" /\ writeLock = "router" /\ "router" \in Actors
      BY <1>3 DEF RouterSendFails, LockInv, RouterBusyOnce, Actors
    <3>. QED  BY <1>3, <3>1, EnterKeepsLocks DEF RouterSendFails
  <2>3. EarlyInv' /\ BegunInv' /\ FramesWhole'
    BY <1>3 DEF RouterSendFails, TypeOK, EarlyInv, BegunInv, FramesWhole
  <2>. QED  BY <2>1, <2>2, <2>3
<1>4. ASSUME RouteErased
      PROVE  Inv'
  <2>1. TypeOK'
    <3>1. /\ routed' \in BOOLEAN
          /\ UNCHANGED <<blocked, sess, sending, closing, closed, writeLock, readLock, open,
                         peer, partial, mangled, errorSent, listed, expired, aborted>>
      BY <1>4 DEF RouteErased
    <3>. QED  BY <3>1 DEF TypeOK
  <2>. QED  BY <1>4, <2>1, Quiet DEF RouteErased
<1>5. ASSUME RouterBlocked
      PROVE  Inv'
  <2>1. TypeOK'
    BY <1>5 DEF RouterBlocked, TypeOK
  <2>2. LockInv' /\ OneCloses' /\ RouterBusyOnce'
    BY <1>5 DEF RouterBlocked, LockInv, OneCloses, RouterBusyOnce
  <2>3. EarlyInv' /\ BegunInv' /\ FramesWhole'
    BY <1>5 DEF RouterBlocked, EarlyInv, BegunInv, FramesWhole
  <2>. QED  BY <2>1, <2>2, <2>3
<1>. QED  BY <1>1, <1>2, <1>3, <1>4, <1>5 DEF RouterStep

\* The sweep and the world.
LEMMA OthersKeepInv ==
    ASSUME Inv, Sweep \/ NewLimit \/ PeerLeaves
    PROVE  Inv'
<1> USE DEF Inv, sockVars, streamVars, lockVars, routeVars
<1>1. ASSUME Sweep
      PROVE  Inv'
  <2>1. TypeOK'
    <3>1. closing' \in [Actors -> {"no", "lock", "send", "shut"}] /\ closed' \in BOOLEAN
      <4>1. CASE EnterClose("sweep")
        <5>1. "sweep" \in Actors
          BY DEF Actors
        <5>. QED  BY <4>1, <5>1, EnterTypes
      <4>2. CASE UNCHANGED <<closing, closed>>
        BY <4>2 DEF TypeOK
      <4>. QED  BY <1>1, <4>1, <4>2 DEF Sweep
    <3>2. /\ listed' \in BOOLEAN /\ aborted' \in BOOLEAN
          /\ UNCHANGED <<sess, sending, lockVars, sockVars, streamVars, routeVars, expired>>
      BY <1>1 DEF Sweep, TypeOK
    <3>. QED  BY <3>1, <3>2 DEF TypeOK
  <2>2. LockInv' /\ OneCloses' /\ RouterBusyOnce'
    <3>1. CASE EnterClose("sweep")
      <4>1. closing["sweep"] = "no" /\ "sweep" \in Actors /\ UNCHANGED <<writeLock, sending>>
        BY <1>1 DEF Sweep, NoClose, Actors
      <4>. QED  BY <3>1, <4>1, EnterKeepsLocks DEF TypeOK
    <3>2. CASE UNCHANGED <<closing, closed>>
      BY <1>1, <3>2 DEF Sweep, LockInv, OneCloses, RouterBusyOnce
    <3>. QED  BY <1>1, <3>1, <3>2 DEF Sweep
  <2>3. EarlyInv' /\ BegunInv' /\ FramesWhole'
    BY <1>1 DEF Sweep, EarlyInv, BegunInv, FramesWhole
  <2>. QED  BY <2>1, <2>2, <2>3
<1>2. ASSUME NewLimit
      PROVE  Inv'
  <2>1. TypeOK'
    BY <1>2 DEF NewLimit, TypeOK
  <2>. QED  BY <1>2, <2>1, Quiet DEF NewLimit
<1>3. ASSUME PeerLeaves
      PROVE  Inv'
  <2>1. TypeOK'
    BY <1>3 DEF PeerLeaves, TypeOK
  <2>2. LockInv' /\ OneCloses' /\ RouterBusyOnce'
    BY <1>3 DEF PeerLeaves, LockInv, OneCloses, RouterBusyOnce
  <2>3. EarlyInv' /\ BegunInv' /\ FramesWhole'
    BY <1>3 DEF PeerLeaves, EarlyInv, BegunInv, FramesWhole
  <2>. QED  BY <2>1, <2>2, <2>3
<1>. QED  BY <1>1, <1>2, <1>3

-----------------------------------------------------------------------------
(* The theorem.                                                              *)

LEMMA Invariance == Spec => []Inv
<1>1. Init => Inv
  BY DEF Init, Inv, TypeOK, LockInv, OneCloses, RouterBusyOnce, EarlyInv, BegunInv,
         FramesWhole, Actors, Free
<1>2. Inv /\ [Next]_vars => Inv'
  <2>1. CASE Next
    BY <2>1, CloseKeepsInv, SessionKeepsInv, RouterKeepsInv, OthersKeepInv DEF Next
  <2>2. CASE UNCHANGED vars
    BY <2>2 DEF vars, Inv, TypeOK, LockInv, OneCloses, RouterBusyOnce, EarlyInv, BegunInv,
                FramesWhole
  <2>. QED  BY <2>1, <2>2
<1>. QED  BY <1>1, <1>2, PTL DEF Spec

\* Whatever the session, the router, the sweep and the client do, in whatever
\* order and with whatever partial writes, no frame is begun inside another: the
\* try-lock that send and close() hold over their co_awaits is enough, and
\* sendIp, which takes no lock, comes before anybody else can leave a frame
\* partly written (Connection::close, routeTunToClients, sendIp).
THEOREM FramesStayWhole == Spec => []FramesWhole
<1>1. Inv => FramesWhole
  BY DEF Inv
<1>. QED  BY <1>1, Invariance, PTL
=============================================================================
