------------------------------- MODULE Client -------------------------------
(* The client (startAsync and the two coroutines it starts) against the     *)
(* session of the server that serves it (exchangeAESkey, authenticateUser,  *)
(* sendIp, the frames of performDataExchange).                              *)
(*                                                                          *)
(* Each direction of the TCP connection is a sequence of units, a size      *)
(* field being one unit and a longer field a few.  AES runs in counter      *)
(* mode: a unit is encrypted at a position of its stream and makes sense    *)
(* only to an end that decrypts it at the same position.  A read of n units *)
(* is one step: the loop of read_some goes on until it has them all.        *)
(* Locks and the steps of close() are in module Connection, the address in  *)
(* SessionRoutes, the tun device in Tun.                                    *)
EXTENDS Integers, Sequences, SequencesExt

CONSTANTS
    Clients,      \* the clients to try: what they put in the fields they send; a
                  \* length field covers no more than the login
    Allowed,      \* the logins the server allows, as sequences of units
    KeyLen,       \* expected_first_msg_size: units of the RSA block
    RawLen,       \* units of the buffer for the decrypted key
    Announced,    \* sizes EVP_PKEY_decrypt can announce for that key
    PublicSizes,  \* sizes of the RSA block that the client's file can make: those of
                  \* its public key; 0 if it does not hold one
    MaxLogin,     \* the limit of a login (200 bytes)
    MaxPacket,    \* max_bounds_size
    MaxPackets    \* bound: packets that the two tun devices hand out

ASSUME ClientAssumption ==
    /\ \A c \in Clients : /\ c.key \in Nat /\ c.copies \in Nat \ {0}
                          /\ c.login \in Seq(Nat) /\ c.field \in 0 .. Len(c.login)
    /\ KeyLen \in Nat /\ MaxPacket \in Nat
    /\ Announced \subseteq Nat \ {0} /\ PublicSizes \subseteq Nat

IpLen == 1
Values == 0 .. MaxPacket + 1   \* what a field can hold; the last is "too large"
Mark == -1                     \* numeric_limits<uint32_t>::max()

\* AesSession::create: where the stream an end encrypts starts, and the one it
\* decrypts.  A key block brings the server the key and iv2 and iv1, in that
\* order; apart from what any sequence has of either, the streams do not meet.
Iv1 == 0
Iv2 == 100
Create(encryptIv, decryptIv) == [enc |-> encryptIv, dec |-> decryptIv]
ClientSession == Create(Iv1, Iv2)
\* Mutant of ServerSession: the ivs are taken in the order of the client.
ServerSessionSame == Create(Iv1, Iv2)
ServerSession == Create(Iv2, Iv1)

VARIABLES
    client,     \* the client that runs
    cpc,        \* where startAsync is
    logins,     \* logins still to send
    tunReader,  \* where startTunRead is
    sockReader, \* where startSocketRead is
    out,        \* the packet startTunRead sends
    need,       \* read_size of startSocketRead
    stale,      \* a peek is pending whose coroutine has gone on
    fate,       \* how the client process ended
    spc,        \* where the session is
    sneed,      \* the size the session has read
    routed,     \* the route of the session is registered
    closed,     \* close() of the server has run
    up, down,   \* the units under way to the server, to the client
    at,         \* the positions of the four ends of the two AES streams
    packets     \* history: packets sent and written, in both directions

clientVars == <<client, cpc, logins>>
runVars == <<tunReader, sockReader, out, need>>
serverVars == <<spc, sneed, routed, closed>>
vars == <<clientVars, runVars, stale, fate, serverVars, up, down, at, packets>>

Init ==
    /\ client \in Clients
    /\ cpc = "key" /\ logins = client.copies
    /\ tunReader = "off" /\ sockReader = "off" /\ out = <<>> /\ need = 0
    /\ stale = FALSE /\ fate = "none"
    /\ spc = "key" /\ sneed = 0 /\ routed = FALSE /\ closed = FALSE
    /\ up = <<>> /\ down = <<>>
    /\ at = [cEnc |-> ClientSession.enc, cDec |-> ClientSession.dec,
             sEnc |-> ServerSession.enc, sDec |-> ServerSession.dec]
    /\ packets = [toServer |-> <<>>, served |-> <<>>, toClient |-> <<>>, received |-> <<>>]

-----------------------------------------------------------------------------
(* Units, and the two ends of the connection.                               *)

Plain == -1
Rsa == -2
Garbage == -3
Clear(v) == [v |-> v, pos |-> Plain]
RsaBlock == [i \in 1 .. KeyLen |-> [v |-> i, pos |-> Rsa]]
Encrypted(vs, p) == [i \in 1 .. Len(vs) |-> [v |-> vs[i], pos |-> p + i - 1]]
Frame(vs) == <<Len(vs)>> \o vs

\* What units us decrypt to at position p: Garbage, one value for whatever it
\* is, where they were not encrypted at that position.
Content(us, p) == [i \in 1 .. Len(us) |-> IF us[i].pos = p + i - 1 THEN us[i].v ELSE Garbage]

\* A size can be anything then.
Sizes(u, p) == IF u.pos = p THEN {u.v} ELSE Values

First(s, n) == SubSeq(s, 1, n)
After(s, n) == SubSeq(s, n + 1, Len(s))

Alive == fate = "none"
ErrorFrame == <<Clear(Mark), Clear(0)>>

\* send(): may fail once the server has closed, and works as long as the client
\* has not heard of that.
SendFails == closed

ServerEnds == spc' = "end" /\ UNCHANGED <<sneed, routed, closed, down>>
Close == closed' = TRUE /\ down' = IF closed THEN down ELSE down \o ErrorFrame
Refuse == spc' = "end" /\ Close /\ UNCHANGED <<sneed, routed>>

-----------------------------------------------------------------------------
(* startAsync.                                                              *)

ClientOnly == UNCHANGED <<client, serverVars>>

\* An exception that leaves startAsync or one of its coroutines, and a failed
\* assertion, end in cuabort.
Dies ==
    /\ fate' = "aborted"
    /\ UNCHANGED <<clientVars, runVars, stale, serverVars, up, down, at, packets>>

\* RsaKey::encrypt into a buffer of KeyLen units: what it has used of it, or 0
\* for its errors (the key is no public one, or its block too large).
RsaEncrypt(size) == IF size <= KeyLen THEN size ELSE 0

\* The size field and the RSA block, which has to fill its buffer.
SendKey ==
    /\ Alive /\ cpc = "key"
    /\ \/ SendFails /\ Dies
       \/ \E size \in PublicSizes : RsaEncrypt(size) # KeyLen /\ Dies
       \/ /\ \E size \in PublicSizes : RsaEncrypt(size) = KeyLen
          /\ up' = up \o <<Clear(client.key)>> \o RsaBlock
          /\ cpc' = "check"
          /\ UNCHANGED <<logins, runVars, stale, fate, down, at, packets>>
          /\ ClientOnly

\* The server may have answered already, which can only be an error; what it
\* has sent need not have arrived.
CheckEarlyAnswer ==
    /\ Alive /\ cpc = "check"
    /\ \/ closed /\ down = <<>> /\ Dies
       \/ /\ cpc' \in {"login"} \union (IF down # <<>> THEN {"early"} ELSE {})
          /\ UNCHANGED <<logins, runVars, stale, fate, up, down, at, packets>>
          /\ ClientOnly

\* The text behind the mark was there when the peek was started: the coroutine
\* goes on to read it, and the callback of the peek resumes it in that read.
TextSeen == Len(down) > 1 /\ Head(down) = Clear(Mark)

\* read_block_size(.., false), and "unexpected valid read".
ReadEarlyAnswer ==
    /\ Alive /\ cpc = "early"
    /\ fate' \in {"aborted"} \union (IF TextSeen THEN {"undefined"} ELSE {})
    /\ UNCHANGED <<clientVars, runVars, stale, serverVars, up, down, at, packets>>

\* The login with its size field, sent as often as there are sends of it.
SendLogin ==
    /\ Alive /\ cpc = "login"
    /\ \/ SendFails /\ Dies
       \/ /\ up' = up \o Encrypted(<<client.field>> \o client.login, 0)
          /\ at' = [at EXCEPT !.cEnc = 1 + Len(client.login)]
          /\ logins' = logins - 1
          /\ cpc' = IF logins = 1 THEN "ipsize" ELSE "login"
          /\ UNCHANGED <<runVars, stale, fate, down, packets>>
          /\ ClientOnly

\* What is compared to the mark is what arrives, before it is decrypted: the
\* mark of an error, or any encrypted size, whose bytes can be the same.
MayBeMark(u) == IF u.pos = Plain THEN {u.v = Mark} ELSE BOOLEAN

\* read_block_size: the next unit, decrypted to v.  On the mark it starts a peek
\* and goes on at once: no text is seen yet, and the size is returned while the
\* callback of the peek still holds the coroutine.
ReadBlockSize(v) ==
    /\ down # <<>>
    /\ down' = Tail(down)
    /\ v \in Sizes(Head(down), at.cDec)
    /\ at' = [at EXCEPT !.cDec = @ + 1]
    /\ \E isMark \in MayBeMark(Head(down)) : stale' = (stale \/ isMark)

\* The callback runs: it resumes a coroutine that waits for something else, or
\* that has ended.
PeekCallback ==
    /\ Alive /\ stale
    /\ fate' = "undefined"
    /\ UNCHANGED <<clientVars, runVars, stale, serverVars, up, down, at, packets>>

ReadsUndefined ==
    /\ Alive /\ TextSeen
    /\ cpc = "ipsize" \/ sockReader = "size"
    /\ fate' = "undefined"
    /\ UNCHANGED <<clientVars, runVars, stale, serverVars, up, down, at, packets>>

ReadIpSize ==
    /\ Alive /\ cpc = "ipsize"
    /\ \/ closed /\ down = <<>> /\ Dies
       \/ \E v \in Values :
            /\ ReadBlockSize(v)
            /\ IF v = IpLen THEN cpc' = "ip" /\ UNCHANGED fate
               ELSE fate' = "aborted" /\ UNCHANGED cpc
            /\ UNCHANGED <<logins, runVars, up, packets>>
            /\ ClientOnly

\* setupTun opens the device and runs the commands that bring it up; a command
\* that fails is a cuabort (system_).
SetupTun == {"run", "aborted"}

\* The address; setupTun; the two coroutines.
ReadIp ==
    /\ Alive /\ cpc = "ip"
    /\ \/ closed /\ Len(down) < IpLen /\ Dies
       \/ /\ Len(down) >= IpLen
          /\ "aborted" \in SetupTun /\ Dies
       \/ /\ Len(down) >= IpLen
          /\ down' = After(down, IpLen)
          /\ at' = [at EXCEPT !.cDec = @ + IpLen]
          /\ cpc' \in SetupTun \ {"aborted"} /\ tunReader' = "read" /\ sockReader' = "size"
          /\ UNCHANGED <<logins, out, need, stale, fate, up, packets>>
          /\ ClientOnly

-----------------------------------------------------------------------------
(* startTunRead and startSocketRead.  The only handler that stops them or   *)
(* cancels what they wait for is that of the signal_set, and it aborts (see *)
(* SignalsDestroyed): their loops end with the process.                     *)

\* Packet k of an end: its units all hold k, so that an exchanged or a torn
\* packet shows.
PacketsNo(k) == {[i \in 1 .. n |-> k] : n \in 1 .. MaxPacket}

MorePackets == Len(packets.toServer) + Len(packets.toClient) < MaxPackets

\* The read of the tun device ends with a packet; without one, after 100 ms, the
\* next read begins.
TunRead ==
    /\ Alive /\ tunReader = "read"
    /\ MorePackets
    /\ \E p \in PacketsNo(Len(packets.toServer) + 1) :
         /\ out' = p
         /\ at' = [at EXCEPT !.cEnc = @ + 1 + Len(p)]
    /\ tunReader' = "send"
    /\ UNCHANGED <<clientVars, sockReader, need, stale, fate, serverVars, up, down, packets>>

TunSend ==
    /\ Alive /\ tunReader = "send"
    /\ \/ SendFails /\ Dies
       \/ /\ up' = up \o Encrypted(Frame(out), at.cEnc - 1 - Len(out))
          /\ packets' = [packets EXCEPT !.toServer = Append(@, out)]
          /\ tunReader' = "read" /\ out' = <<>>
          /\ UNCHANGED <<clientVars, sockReader, need, stale, fate, serverVars, down, at>>

\* The size of the next packet.  cussert(read_size > max) ends the client at every
\* size that read_some would not refuse; only a build without assertions goes on.
SockReadSize ==
    /\ Alive /\ sockReader = "size"
    /\ \/ closed /\ down = <<>> /\ Dies
       \/ /\ \E v \in Values :
               /\ ReadBlockSize(v)
               /\ need' = v
               /\ \/ fate' = "aborted" /\ UNCHANGED sockReader
                  \/ v <= MaxPacket /\ sockReader' = "body" /\ UNCHANGED fate
          /\ UNCHANGED <<clientVars, tunReader, out, serverVars, up, packets>>

\* read_some takes amount 0 for "as much as the buffer holds".
Amount(n) == IF n = 0 THEN MaxPacket ELSE n

SockReadBody ==
    /\ Alive /\ sockReader = "body"
    /\ \/ /\ closed /\ Len(down) < Amount(need)
          /\ fate' = "aborted" /\ UNCHANGED <<sockReader, down, at, packets>>
       \/ /\ Len(down) >= Amount(need)
          /\ down' = After(down, Amount(need))
          /\ at' = [at EXCEPT !.cDec = @ + need]
          /\ packets' = [packets EXCEPT !.received =
                            Append(@, Content(First(down, need), at.cDec))]
          /\ sockReader' = "write"
          /\ UNCHANGED fate
    /\ need' = 0
    /\ UNCHANGED <<clientVars, tunReader, out, stale, serverVars, up>>

\* Tun::write returns (module Tun).
SockWrite ==
    /\ Alive /\ sockReader = "write"
    /\ sockReader' = "size"
    /\ UNCHANGED <<clientVars, tunReader, out, need, stale, fate, serverVars, up, down, at,
                   packets>>

\* The signal_set is a local of startAsync: when that has returned, its handler
\* gets operation_aborted, and never a signal.
SignalsDestroyed == Alive /\ cpc = "run" /\ Dies

-----------------------------------------------------------------------------
(* The session of the server.  It meets the end of the connection as a      *)
(* failed read, and ends; only some of its errors close the connection.     *)

ServerOnly == UNCHANGED <<clientVars, runVars, stale, fate>>

ReadFails ==
    /\ spc \in {"key", "rsa", "login", "name", "frame", "body"}
    /\ closed \/ ~Alive
    /\ ServerEnds
    /\ UNCHANGED <<up, at, packets>> /\ ServerOnly

\* exchangeAESkey: the size field, then the RSA block.
ReadKeySize ==
    /\ ~closed /\ spc = "key" /\ up # <<>>
    /\ up' = Tail(up)
    /\ \/ Head(up).v = KeyLen /\ spc' = "rsa" /\ UNCHANGED <<sneed, routed, closed, down>>
       \/ Head(up).v # KeyLen /\ Refuse
    /\ UNCHANGED <<at, packets>> /\ ServerOnly

\* RsaKey::decrypt wants room for the size that OpenSSL announces, which may be
\* more than the key takes.
KeyFits(announced) == announced <= RawLen

\* The decryption fails, without a close, if the key does not fit in its buffer.
ReadKey ==
    /\ ~closed /\ spc = "rsa" /\ Len(up) >= KeyLen
    /\ up' = After(up, KeyLen)
    /\ \/ /\ \E n \in Announced : KeyFits(n)
          /\ spc' = "login" /\ UNCHANGED <<sneed, routed, closed, down>>
       \/ \E n \in Announced : ~KeyFits(n) /\ ServerEnds
    /\ UNCHANGED <<at, packets>> /\ ServerOnly

\* authenticateUser: a login that is too long ends the session, without a close.
ReadLoginSize ==
    /\ ~closed /\ spc = "login" /\ up # <<>>
    /\ up' = Tail(up)
    /\ at' = [at EXCEPT !.sDec = @ + 1]
    /\ sneed' \in Sizes(Head(up), at.sDec)
    /\ spc' = IF sneed' > MaxLogin THEN "end" ELSE "name"
    /\ UNCHANGED <<routed, closed, down, packets>> /\ ServerOnly

\* Mutant of ReadLogin: nobody is refused.
ReadLoginAccepts ==
    /\ ~closed /\ spc = "name" /\ Len(up) >= sneed
    /\ up' = After(up, sneed)
    /\ at' = [at EXCEPT !.sDec = @ + sneed]
    /\ spc' = "sendip"
    /\ UNCHANGED <<sneed, routed, closed, down, packets>> /\ ServerOnly

\* A login of size 0 is an empty buffer, which is read at once.
ReadLogin ==
    /\ ~closed /\ spc = "name" /\ Len(up) >= sneed
    /\ up' = After(up, sneed)
    /\ at' = [at EXCEPT !.sDec = @ + sneed]
    /\ LET login == Content(First(up, sneed), at.sDec) IN
         \/ login \in Allowed /\ spc' = "sendip" /\ UNCHANGED <<sneed, routed, closed, down>>
         \/ login \notin Allowed /\ Refuse
    /\ UNCHANGED packets /\ ServerOnly

\* Mutant of SendIp: the address is sent without its size.
SendIpBare ==
    /\ spc = "sendip"
    /\ \/ /\ closed \/ ~Alive
          /\ Refuse /\ UNCHANGED at
       \/ /\ ~closed
          /\ down' = down \o Encrypted(<<1>>, at.sEnc)
          /\ at' = [at EXCEPT !.sEnc = @ + 1]
          /\ spc' = "frame" /\ routed' = TRUE
          /\ UNCHANGED <<sneed, closed>>
    /\ UNCHANGED <<up, packets>> /\ ServerOnly

\* sendIp and the registration of the route.
SendIp ==
    /\ spc = "sendip"
    /\ \/ /\ closed \/ ~Alive
          /\ Refuse /\ UNCHANGED at
       \/ /\ ~closed
          /\ down' = down \o Encrypted(<<IpLen, 1>>, at.sEnc)
          /\ at' = [at EXCEPT !.sEnc = @ + 2]
          /\ spc' = "frame" /\ routed' = TRUE
          /\ UNCHANGED <<sneed, closed>>
    /\ UNCHANGED <<up, packets>> /\ ServerOnly

\* tunQueue is full: the connection is closed behind the address.
RegisterFails ==
    /\ ~closed /\ spc = "sendip"
    /\ spc' = "end" /\ closed' = TRUE
    /\ down' = down \o Encrypted(<<IpLen, 1>>, at.sEnc) \o ErrorFrame
    /\ at' = [at EXCEPT !.sEnc = @ + 2]
    /\ UNCHANGED <<sneed, routed, up, packets>> /\ ServerOnly

\* performDataExchange.
ReadFrameSize ==
    /\ ~closed /\ spc = "frame" /\ up # <<>>
    /\ up' = Tail(up)
    /\ at' = [at EXCEPT !.sDec = @ + 1]
    /\ sneed' \in Sizes(Head(up), at.sDec)
    /\ spc' = IF sneed' > MaxPacket THEN "end" ELSE "body"
    /\ UNCHANGED <<routed, closed, down, packets>> /\ ServerOnly

\* Mutant of ReadFrame: one unit of the packet is left for the next read.
ReadFrameShort ==
    /\ ~closed /\ spc = "body" /\ Len(up) >= Amount(sneed)
    /\ up' = After(up, Amount(sneed) - 1)
    /\ at' = [at EXCEPT !.sDec = @ + sneed]
    /\ packets' = [packets EXCEPT !.served = Append(@, Content(First(up, sneed), at.sDec))]
    /\ spc' = "frame" /\ sneed' = 0
    /\ UNCHANGED <<routed, closed, down>> /\ ServerOnly

\* The packet is decrypted and written to the tun device of the server.
ReadFrame ==
    /\ ~closed /\ spc = "body" /\ Len(up) >= Amount(sneed)
    /\ up' = After(up, Amount(sneed))
    /\ at' = [at EXCEPT !.sDec = @ + sneed]
    /\ packets' = [packets EXCEPT !.served = Append(@, Content(First(up, sneed), at.sDec))]
    /\ spc' = "frame" /\ sneed' = 0
    /\ UNCHANGED <<routed, closed, down>> /\ ServerOnly

\* The router sends a packet of the tun device of the server, also to a session
\* that has ended and left the connection open, as long as it has the route.
RouterSends ==
    /\ ~closed /\ routed
    /\ MorePackets
    /\ \E p \in PacketsNo(Len(packets.toClient) + 1) :
         /\ down' = down \o Encrypted(Frame(p), at.sEnc)
         /\ at' = [at EXCEPT !.sEnc = @ + 1 + Len(p)]
         /\ packets' = [packets EXCEPT !.toClient = Append(@, p)]
    /\ UNCHANGED <<serverVars, up>> /\ ServerOnly

\* The route goes when the router has applied the remove record of the session.
RouteErased ==
    /\ spc = "end" /\ routed
    /\ routed' = FALSE
    /\ UNCHANGED <<spc, sneed, closed, up, down, at, packets>> /\ ServerOnly

\* The sweep finds the session too old, unless that holds the read lock.  The
\* limit it compares may be any (module Sweep): nothing makes it come to that.
SweepCloses ==
    /\ ~closed /\ spc # "body"
    /\ Close
    /\ UNCHANGED <<spc, sneed, routed, up, at, packets>> /\ ServerOnly

-----------------------------------------------------------------------------
StartAsync ==
    \/ SendKey \/ CheckEarlyAnswer \/ ReadEarlyAnswer \/ SendLogin
    \/ ReadIpSize \/ ReadIp

ClientStep ==
    \/ StartAsync \/ PeekCallback \/ ReadsUndefined
    \/ TunRead \/ TunSend \/ SockReadSize \/ SockReadBody \/ SockWrite
    \/ SignalsDestroyed

ServerStep ==
    \/ ReadFails \/ ReadKeySize \/ ReadKey \/ ReadLoginSize \/ ReadLogin
    \/ SendIp \/ RegisterFails \/ ReadFrameSize \/ ReadFrame

Next == ClientStep \/ ServerStep \/ RouterSends \/ RouteErased \/ SweepCloses

Spec == Init /\ [][Next]_vars

\* A coroutine goes on when what it waits for is there.  Only startAsync's is
\* needed: nothing is assumed of the sweep, the router or the user.
FairSpec == Spec /\ WF_vars(StartAsync)

-----------------------------------------------------------------------------
(* Properties.                                                              *)

\* A client that keeps to the protocol the server reads.
Conforming ==
    client.key = KeyLen /\ client.field = Len(client.login) /\ client.copies = 1

Serving == spc \in {"frame", "body"}

\* Nothing is read for, or sent to, a session whose login (what its length field
\* covers) is not in the allowed list (sessionscontrol.cpp:642), also if the
\* client goes on sending as if it were served.
OnlyAllowedServed ==
    Serving \/ packets.served # <<>> \/ packets.toClient # <<>>
        => First(client.login, client.field) \in Allowed

\* The two AES streams stay in step: whatever is under way was encrypted at the
\* position at which the other end is going to decrypt it (aes.encrypt and
\* aes.decrypt are called for the same bytes in the same order on both ends).
InStep ==
    /\ Conforming /\ (Serving \/ spc \in {"login", "name", "sendip"}) =>
         \A i \in 1 .. Len(up) : up[i].pos = at.sDec + i - 1
    /\ ~stale =>
         \A i \in 1 .. Len(down) : down[i].pos \in {Plain, at.cDec + i - 1}

\* What an end writes to its tun device are the packets the other end has read
\* from its own, whole, in order and once, up to the close of the connection.
PacketsIntact ==
    /\ Conforming => IsPrefix(packets.served, packets.toServer)
    /\ ~stale => IsPrefix(packets.received, packets.toClient)

\* Whatever becomes of a session that has sent the address, the client that was
\* let in comes to bring its device up with it, or ends: startAsync never waits
\* for bytes that nobody is going to send (async.cpp:112-122).
AddressArrives == spc = "frame" ~> cpc = "run" \/ fate # "none"
=============================================================================
