--------------------------------- MODULE Tun ---------------------------------
(* The tun device: Tun::read and Tun::write, called by one reader (the      *)
(* router of the server, startTunRead of the client) and by writers (the    *)
(* sessions of the server, startSocketRead of the client).                  *)
(*                                                                          *)
(* Reader and writers exclude each other with the try-lock lock_.  A writer *)
(* that finds a read in progress (it_is_read_lock) cancels it, so that it   *)
(* need not wait for its timeout.  Who gets the lock then depends on the    *)
(* order in which the io_context runs its ready handlers, so this module    *)
(* has that queue: every step but those of the outside world runs the       *)
(* handler at its head, on the one thread of the context.                   *)
EXTENDS Naturals, Sequences, SequencesExt

CONSTANTS
    Reader,      \* the coroutine that reads
    Writers      \* the coroutines that write

Coroutines == Writers \union {Reader}
Free == "free"

ASSUME TunAssumption == Reader \notin Writers /\ Free \notin Coroutines

VARIABLES
    pc,          \* pc[a]: where coroutine a resumes
    ready,       \* the handlers of the io_context that are ready, in their order
    strand,      \* the handlers that wait in the strand
    lock,        \* who holds lock_
    readFlag,    \* it_is_read_lock
    reading,     \* an async_read_some is pending
    armed,       \* cancel_timer is running
    cancelled    \* history: writers that cancelled a read and wait for lock_

queues == <<ready, strand>>
device == <<reading, armed>>
vars == <<pc, ready, strand, lock, readFlag, reading, armed, cancelled>>

\* Resumption of a coroutine; completion of the read with a packet or as
\* cancelled; expiry of the timer; completion of a write; the strand's turn.
Kinds == {"resume", "packet", "cancelledRead", "timeout", "wrote", "strand"}
Handler(k, a) == [kind |-> k, who |-> a]
Resume(a) == Handler("resume", a)
StrandTurn == Handler("strand", Reader)

Init ==
    /\ pc = [a \in Coroutines |-> "away"]
    /\ ready = <<>>
    /\ strand = <<>>
    /\ lock = Free
    /\ readFlag = FALSE
    /\ reading = FALSE
    /\ armed = FALSE
    /\ cancelled = {}

-----------------------------------------------------------------------------
(* The io_context and the strand (asio).  A handler posted on an idle strand *)
(* waits for a turn of the strand in the ready queue.  While it does, the    *)
(* completion handlers of the device and of the timer, which belong to the   *)
(* strand, line up behind it; otherwise they run when they are ready.        *)

HeadIs(h) == ready # <<>> /\ Head(ready) = h

Goto(a, l) == pc' = [pc EXCEPT ![a] = l]

\* The head of the ready queue resumes coroutine a at l.
Runs(a, l) == HeadIs(Resume(a)) /\ pc[a] = l

\* Handler h runs on the strand: what it goes on with comes first, what it
\* posts comes last, and a strand that is not empty has another turn, at once
\* if the handlers were lined up together.
RunsOnStrand(h, goesOn, posts) ==
    \/ /\ strand = <<>>
       /\ HeadIs(h)
       /\ ready' = goesOn \o Tail(ready) \o posts
       /\ UNCHANGED strand
    \/ /\ strand # <<>> /\ Head(strand) = h
       /\ HeadIs(StrandTurn)
       /\ strand' = Tail(strand)
       /\ ready' \in IF strand' = <<>> THEN {goesOn \o Tail(ready) \o posts}
                     ELSE {goesOn \o Tail(ready) \o posts \o <<StrandTurn>>,
                           goesOn \o <<StrandTurn>> \o Tail(ready) \o posts}

\* A completion handler finds the strand waiting for its turn.
StrandBusy ==
    /\ strand # <<>>
    /\ ready # <<>> /\ Head(ready).kind \in Kinds \ {"resume", "strand"}
    /\ strand' = Append(strand, Head(ready))
    /\ ready' = Tail(ready)
    /\ UNCHANGED <<pc, lock, readFlag, device, cancelled>>

-----------------------------------------------------------------------------
(* lock(): one exchange of lock_.  If it is taken, reschedule; otherwise    *)
(* the awaiting coroutine goes on, at once or through the queue (which of   *)
(* the two is the choice of the future library).                            *)

LockStep(a) ==
    /\ Runs(a, "lock")
    /\ IF lock # Free
       THEN /\ ready' = Append(Tail(ready), Resume(a))
            /\ UNCHANGED <<pc, lock, cancelled>>
       ELSE /\ lock' = a
            /\ Goto(a, "locked")
            /\ ready' \in {ready, Append(Tail(ready), Resume(a))}
            /\ cancelled' = cancelled \ {a}
    /\ UNCHANGED <<strand, readFlag, device>>

-----------------------------------------------------------------------------
(* Tun::read.                                                               *)

\* The call, up to the reschedule it begins with.
CallRead ==
    /\ pc[Reader] = "away"
    /\ Goto(Reader, "lock")
    /\ ready' = Append(ready, Resume(Reader))
    /\ UNCHANGED <<strand, lock, readFlag, device, cancelled>>

\* With lock_ held: the flag, the read and its timer.
StartRead ==
    /\ Runs(Reader, "locked")
    /\ Goto(Reader, "reading")
    /\ ready' = Tail(ready)
    /\ readFlag' = TRUE
    /\ reading' = TRUE
    /\ armed' = TRUE
    /\ UNCHANGED <<strand, lock, cancelled>>

\* What tun.cancel() makes ready: a pending read completes as cancelled.
Cancelled == IF reading THEN <<Handler("cancelledRead", Reader)>> ELSE <<>>

\* Mutant of PacketHandler: the timer goes on running.
PacketHandlerTimed ==
    /\ RunsOnStrand(Handler("packet", Reader), <<>>, <<Resume(Reader)>>)
    /\ UNCHANGED <<pc, lock, readFlag, device, cancelled>>

\* The handler of the read got a packet: cancel the timer, resume the reader.
PacketHandler ==
    /\ RunsOnStrand(Handler("packet", Reader), <<>>, <<Resume(Reader)>>)
    /\ armed' = FALSE
    /\ UNCHANGED <<pc, lock, readFlag, reading, cancelled>>

\* The handler of the read got operation_canceled: resume the reader.
CancelledHandler ==
    /\ RunsOnStrand(Handler("cancelledRead", Reader), <<>>, <<Resume(Reader)>>)
    /\ UNCHANGED <<pc, lock, readFlag, device, cancelled>>

\* The handler of the timer.
TimeoutHandler ==
    /\ RunsOnStrand(Handler("timeout", Reader), <<>>, Cancelled)
    /\ reading' = FALSE
    /\ UNCHANGED <<pc, lock, readFlag, armed, cancelled>>

\* Mutant of ReadReturns: lock_ is not released.
ReadReturnsLocked ==
    /\ Runs(Reader, "reading")
    /\ Goto(Reader, "away")
    /\ ready' = Tail(ready)
    /\ readFlag' = FALSE
    /\ UNCHANGED <<strand, lock, device, cancelled>>

\* read returns: its two Locks are destroyed.
ReadReturns ==
    /\ Runs(Reader, "reading")
    /\ Goto(Reader, "away")
    /\ ready' = Tail(ready)
    /\ readFlag' = FALSE
    /\ lock' = Free
    /\ UNCHANGED <<strand, device, cancelled>>

-----------------------------------------------------------------------------
(* Tun::write.                                                              *)

\* A packet came from a client, and its coroutine calls write.
CallWrite(w) ==
    /\ pc[w] = "away"
    /\ Goto(w, "call")
    /\ ready' = Append(ready, Resume(w))
    /\ UNCHANGED <<strand, lock, readFlag, device, cancelled>>

\* Mutants of CheckFlag: the writer goes on before the strand has resumed it; a
\* writer that sees no read does without lock_.
CheckFlagGoesOn(w) ==
    /\ Runs(w, "call")
    /\ Goto(w, "lock")
    /\ strand' = IF readFlag THEN Append(strand, Resume(w)) ELSE strand
    /\ UNCHANGED <<ready, lock, readFlag, device, cancelled>>
CheckFlagUnlocked(w) ==
    /\ Runs(w, "call")
    /\ IF readFlag
       THEN /\ Goto(w, "strand")
            /\ strand' = Append(strand, Resume(w))
            /\ ready' = Tail(ready) \o (IF strand = <<>> THEN <<StrandTurn>> ELSE <<>>)
       ELSE Goto(w, "locked") /\ UNCHANGED queues
    /\ UNCHANGED <<lock, readFlag, device, cancelled>>

\* it_is_read_lock is set: post itself on the strand; otherwise on to lock_.
CheckFlag(w) ==
    /\ Runs(w, "call")
    /\ IF readFlag
       THEN /\ Goto(w, "strand")
            /\ strand' = Append(strand, Resume(w))
            /\ ready' = Tail(ready) \o (IF strand = <<>> THEN <<StrandTurn>> ELSE <<>>)
       ELSE Goto(w, "lock") /\ UNCHANGED queues
    /\ UNCHANGED <<lock, readFlag, device, cancelled>>

\* On the strand: cancel the timer and the read, whatever is pending by now,
\* and on to lock_.
CancelRead(w) ==
    /\ pc[w] = "strand"
    /\ RunsOnStrand(Resume(w), <<Resume(w)>>, Cancelled)
    /\ Goto(w, "lock")
    /\ armed' = FALSE
    /\ reading' = FALSE
    /\ cancelled' = IF reading THEN cancelled \union {w} ELSE cancelled
    /\ UNCHANGED <<lock, readFlag>>

\* With lock_ held: async_write.  The tun device takes a packet at once, so its
\* handler is ready.
StartWrite(w) ==
    /\ Runs(w, "locked")
    /\ Goto(w, "writing")
    /\ ready' = Append(Tail(ready), Handler("wrote", w))
    /\ UNCHANGED <<strand, lock, readFlag, device, cancelled>>

WroteHandler(w) ==
    /\ RunsOnStrand(Handler("wrote", w), <<>>, <<Resume(w)>>)
    /\ UNCHANGED <<pc, lock, readFlag, device, cancelled>>

WriteReturns(w) ==
    /\ Runs(w, "writing")
    /\ Goto(w, "away")
    /\ ready' = Tail(ready)
    /\ lock' = Free
    /\ UNCHANGED <<strand, readFlag, device, cancelled>>

-----------------------------------------------------------------------------
(* The outside world: the pending read completes with a packet (or an error, *)
(* which takes the same path to the reader), the timer expires.             *)

PacketArrives ==
    /\ reading
    /\ reading' = FALSE
    /\ ready' = Append(ready, Handler("packet", Reader))
    /\ UNCHANGED <<pc, strand, lock, readFlag, armed, cancelled>>

TimerExpires ==
    /\ armed
    /\ armed' = FALSE
    /\ ready' = Append(ready, Handler("timeout", Reader))
    /\ UNCHANGED <<pc, strand, lock, readFlag, reading, cancelled>>

ReaderStep == LockStep(Reader) \/ StartRead \/ ReadReturns
WriterStep(w) ==
    \/ CheckFlag(w) \/ CancelRead(w) \/ LockStep(w) \/ StartWrite(w)
    \/ WroteHandler(w) \/ WriteReturns(w)
HandlerStep == PacketHandler \/ CancelledHandler \/ TimeoutHandler \/ StrandBusy

RunReady == ReaderStep \/ HandlerStep \/ \E w \in Writers : WriterStep(w)

Next ==
    \/ RunReady
    \/ CallRead
    \/ \E w \in Writers : CallWrite(w)
    \/ PacketArrives
    \/ TimerExpires

Spec == Init /\ [][Next]_vars

\* The io_context runs what is ready, the timer of a read expires, and the
\* reader always reads again.
Fairness == WF_vars(RunReady) /\ WF_vars(TimerExpires) /\ WF_vars(CallRead)

FairSpec == Spec /\ Fairness

-----------------------------------------------------------------------------
\* Type invariant of the coroutines, the ready queue and the device.
TypeOK ==
    /\ pc \in [Coroutines -> {"away", "call", "strand", "lock", "locked", "reading",
                              "writing"}]
    /\ {ready, strand} \subseteq Seq([kind : Kinds, who : Coroutines])
    /\ lock \in Coroutines \union {Free}
    /\ {readFlag, reading, armed} \subseteq BOOLEAN
    /\ cancelled \subseteq Writers

\* "it should be only one operation": at most one operation is outstanding on
\* the device, and a writer that is about to write finds no read pending and no
\* completed read whose coroutine still uses the device.
OneOperation ==
    /\ reading => lock = Reader /\ readFlag
    /\ \A a, b \in Coroutines :
         {pc[a], pc[b]} \subseteq {"locked", "reading", "writing"} => a = b

Pending(h) == Contains(ready, h) \/ Contains(strand, h)

\* A read in progress can always end: it is pending with its timer armed, or
\* the handler that ends it, or the one that will cancel it, is ready.
ReadEnds ==
    pc[Reader] = "reading" =>
        \/ reading /\ (armed \/ Pending(Handler("timeout", Reader)))
        \/ \E k \in {"packet", "cancelledRead", "resume"} : Pending(Handler(k, Reader))

\* The timeout of a read never cuts a later read short: its handler has run, or
\* was never queued, when the next read arms the timer.
TimeoutOfOwnRead == armed => ~Pending(Handler("timeout", Reader))

Resumptions(q, a) ==
    {i \in 1 .. Len(q) : q[i].who = a /\ q[i].kind \notin {"timeout", "strand"}}

\* No coroutine is resumed twice: of the handlers that resume it, or lead to
\* that, there is at most one, however a cancel, the timer and a packet race.
ResumedOnce ==
    \A a \in Coroutines :
        Cardinality(Resumptions(ready, a)) + Cardinality(Resumptions(strand, a)) <= 1

\* "so i have guarantee that after cancel here, send will acquire lock first"
\* (tun.cpp:133): a writer that cancelled a read gets lock_ before the next read
\* does.
SendLocksFirst == [][lock' = Reader /\ lock # Reader => cancelled = {}]_vars

\* A write ends, however often the reader reads again, unless other writers come
\* for ever: a spin on a try-lock can be overtaken by them without end.
WriteEnds ==
    \A w \in Writers :
        <>[](\A v \in Writers \ {w} : pc[v] = "away") => (pc[w] = "call" ~> pc[w] = "away")
=============================================================================
