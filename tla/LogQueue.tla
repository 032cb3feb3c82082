------------------------------ MODULE LogQueue ------------------------------
(* The logger: threads push messages, one thread writes them to the file of  *)
(* their target, and the end of it, by Logger::exit.                         *)
EXTENDS FlatMap

CONSTANTS
    Writers,    \* threads that write log messages
    Opened,     \* the orders in which Logger::init may open the files
    MaxPushes   \* bound: messages of one thread

ASSUME LogAssumption ==
    /\ Opened \subseteq Seq(Nat) \ {<<>>}
    /\ \A o \in Opened : IsInjective(o)

VARIABLES
    streams,   \* the map from targets to files
    queue,
    stop,      \* the stop token of the thread
    worker,    \* where the thread is, or that its assertion has ended the process
    main,      \* where Logger::exit is
    files,     \* history: what each file has got
    remains,   \* history: what the exit file has got
    pushed,    \* history: all messages, in the order of push
    missed     \* history: the stop reached a worker that was past its test

vars == <<streams, queue, stop, worker, main, files, remains, pushed, missed>>

\* cvk::log::to: server, client, session.
Targets == {0, 1, 2}

\* Logger::init, which inserts one file after the other; the file has the name
\* of its target.
StreamsOf(order) ==
    LET opened[n \in 0 .. Len(order)] ==
            IF n = 0 THEN EmptyMap ELSE Inserted(opened[n - 1], order[n], order[n])
    IN  opened[Len(order)]

Init ==
    /\ \E order \in Opened :
         /\ streams = StreamsOf(order)
         /\ files = [t \in {order[i] : i \in DOMAIN order} |-> <<>>]
    /\ queue = <<>> /\ stop = FALSE /\ worker = "loop" /\ main = "run"
    /\ remains = <<>> /\ pushed = <<>> /\ missed = FALSE

\* The worker has the mutex from the test of the predicate to the wait, and as
\* long as it writes.
MutexFree == worker \notin {"tested", "write"}

\* notify_one: only a worker that waits notices.
Woken == IF worker = "wait" THEN "lock" ELSE worker

-----------------------------------------------------------------------------
Count(w) == Cardinality({i \in DOMAIN pushed : pushed[i].by = w})

\* Mutant of Push: the worker is not notified.
PushSilent(w) ==
    /\ main \in {"run", "stopping", "join"} /\ MutexFree /\ Count(w) < MaxPushes
    /\ \E t \in Targets \intersect DOMAIN files :
         LET e == [by |-> w, no |-> Count(w), to |-> t]
         IN  queue' = Append(queue, e) /\ pushed' = Append(pushed, e)
    /\ UNCHANGED <<streams, stop, worker, main, files, remains, missed>>

\* log_impl::push.  Nobody pushes any more when exit() has joined the thread: it
\* looks at the queue without the mutex.
Push(w) ==
    /\ main \in {"run", "stopping", "join"} /\ MutexFree /\ Count(w) < MaxPushes
    /\ \E t \in Targets \intersect DOMAIN files :
         LET e == [by |-> w, no |-> Count(w), to |-> t]
         IN  queue' = Append(queue, e) /\ pushed' = Append(pushed, e)
    /\ worker' = Woken
    /\ UNCHANGED <<streams, stop, main, files, remains, missed>>

-----------------------------------------------------------------------------
(* log_impl::work.                                                           *)

WorkerOnly == UNCHANGED <<streams, stop, main, remains, pushed, missed>>

Loop ==
    /\ worker = "loop"
    /\ worker' = IF stop THEN "done" ELSE "lock"
    /\ UNCHANGED <<queue, files>> /\ WorkerOnly

\* Mutant of Predicate: only messages count.
PredicateOfQueue ==
    /\ worker = "lock"
    /\ worker' = IF queue # <<>> THEN "write" ELSE "tested"
    /\ UNCHANGED <<queue, files>> /\ WorkerOnly

\* The mutex is taken and the predicate of the wait tested.
Predicate ==
    /\ worker = "lock"
    /\ worker' = IF queue # <<>> \/ stop THEN "write" ELSE "tested"
    /\ UNCHANGED <<queue, files>> /\ WorkerOnly

\* The wait begins, and the mutex is free.
Wait ==
    /\ worker = "tested"
    /\ worker' = "wait"
    /\ UNCHANGED <<queue, files>> /\ WorkerOnly

\* A wait may end without a notification.
SpuriousWake ==
    /\ worker = "wait"
    /\ worker' = "lock"
    /\ UNCHANGED <<queue, files>> /\ WorkerOnly

\* The front of the queue goes to the file of its target and is popped, or the
\* stream is not good after that (a full disk, a file that could not be opened)
\* and the assertion ends the process; with an empty queue the mutex is released.
\* at_tryFirst throws for a target without a file, which nobody uses.
WriteFront ==
    /\ worker = "write"
    /\ \/ /\ queue = <<>>
          /\ worker' = "loop"
          /\ UNCHANGED <<queue, files>>
       \/ /\ queue # <<>>
          /\ LET f == streams.vals[TryFirst(streams, 1, Head(queue).to) + 1]
             IN  files' = [files EXCEPT ![f] = Append(@, Head(queue))]
          /\ queue' = Tail(queue)
          /\ UNCHANGED worker
       \/ /\ queue # <<>>
          /\ worker' = "aborted"
          /\ UNCHANGED <<queue, files>>
    /\ WorkerOnly

-----------------------------------------------------------------------------
(* Logger::exit.                                                             *)

MainOnly == UNCHANGED <<streams, files, pushed>>

\* stop(): request_stop, which takes no lock.
RequestStop ==
    /\ main = "run"
    /\ stop' = TRUE /\ main' = "stopping"
    /\ UNCHANGED <<queue, worker, remains, missed>> /\ MainOnly

\* notify_one, without the mutex.
Notify ==
    /\ main = "stopping"
    /\ worker' = Woken /\ main' = "join"
    /\ missed' = (worker = "tested")
    /\ UNCHANGED <<queue, stop, remains>> /\ MainOnly

Joined ==
    /\ main = "join" /\ worker = "done"
    /\ main' = "remains"
    /\ UNCHANGED <<queue, stop, worker, remains, missed>> /\ MainOnly

\* Mutant of RemainsOnExit: the loop ends one message early.
RemainsOnExitButOne ==
    /\ main = "remains"
    /\ \/ Len(queue) <= 1 /\ main' = "exited" /\ UNCHANGED <<queue, remains>>
       \/ /\ Len(queue) > 1
          /\ remains' = Append(remains, Head(queue)) /\ queue' = Tail(queue)
          /\ UNCHANGED main
    /\ UNCHANGED <<stop, worker, missed>> /\ MainOnly

RemainsOnExit ==
    /\ main = "remains"
    /\ \/ queue = <<>> /\ main' = "exited" /\ UNCHANGED <<queue, remains>>
       \/ /\ queue # <<>>
          /\ remains' = Append(remains, Head(queue)) /\ queue' = Tail(queue)
          /\ UNCHANGED main
    /\ UNCHANGED <<stop, worker, missed>> /\ MainOnly

-----------------------------------------------------------------------------
Work == Loop \/ Predicate \/ Wait \/ WriteFront
End == Notify \/ Joined \/ RemainsOnExit
Alive == worker # "aborted"

Next ==
    /\ Alive
    /\ \/ \E w \in Writers : Push(w)
       \/ Work \/ SpuriousWake
       \/ RequestStop \/ End

Spec == Init /\ [][Next]_vars

\* The threads run while the process does.  Nobody has to log, to call exit(), or
\* to wake a waiting thread without a notification.
FairSpec == Spec /\ WF_vars(Alive /\ Work) /\ WF_vars(Alive /\ End)

-----------------------------------------------------------------------------
(* Properties.                                                               *)

\* The messages of s for target t.
For(t, s) ==
    LET upTo[n \in 0 .. Len(s)] ==
            IF n = 0 THEN <<>>
            ELSE IF s[n].to = t THEN Append(upTo[n - 1], s[n]) ELSE upTo[n - 1]
    IN  upTo[Len(s)]

\* A message is in one place: the file of its target, the exit file or the
\* queue, in the order of push; and Logger::exit leaves none in the queue.
NothingLost ==
    /\ \A t \in DOMAIN files : files[t] \o For(t, remains) \o For(t, queue) = For(t, pushed)
    /\ main = "exited" => queue = <<>>

\* What was pushed gets written, also if the worker was about to wait, or the
\* notification of the stop was lost; unless a stream fails.
PushedIsWritten ==
    \A w \in Writers, n \in 1 .. MaxPushes :
        Count(w) >= n ~>
            \/ ~Alive
            \/ \E t \in DOMAIN files : \E i \in DOMAIN files[t] :
                 files[t][i].by = w /\ files[t][i].no = n - 1
            \/ \E i \in DOMAIN remains : remains[i].by = w /\ remains[i].no = n - 1

\* Logger::exit returns, unless the stop came between the worker's test of the
\* predicate and its wait, or a stream fails.
ExitReturnsUnlessMissed == main = "join" ~> main = "exited" \/ missed \/ ~Alive

\* The search finds a key exactly if it is in the map, whatever the number and
\* the order of insertions, and still after one key is removed; and the value
\* is that of the key.
SearchFinds ==
    \A k \in 0 .. 9 :
        LET keys == ToSet(streams.keys)
            i == BinarySearch(streams, k)
            r == Removed(streams, k)
        IN  /\ k \in keys => i # NotFound /\ streams.vals[i + 1] = k /\ TryFirst(streams, 1, k) = i
            /\ k \notin keys => i = NotFound
            /\ k \in keys /\ Len(streams.keys) > 1 =>
                 \A j \in keys : BinarySearch(r, j) = NotFound <=> j = k
=============================================================================
