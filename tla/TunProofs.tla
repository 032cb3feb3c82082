----------------------------- MODULE TunProofs -----------------------------
(* Theorems about Tun, for any set of writers.                              *)
(*                                                                          *)
(* What has to be shown is that a coroutine that does not wait outside has  *)
(* exactly one thing that will resume it (TurnInv): a handler in the ready  *)
(* queue, one in the strand, or, for the reader, the pending read itself.   *)
(* Cancel, timer and packet only turn one of them into another.  Who holds  *)
(* lock_ (PcInv) and which read has a timer (TimedInv) follow along.        *)
(*                                                                          *)
(* Whose read a timer cuts short, and who is the first to take lock_ after  *)
(* a cancel, depend on the order of the handlers in the two queues          *)
(* (OrderInv and, for one writer, SendInv).                                 *)
EXTENDS Tun, SequenceTheorems, FiniteSetTheorems, TLAPS

Handlers == [kind : Kinds, who : Coroutines]
QueueOK == ready \in Seq(Handlers) /\ strand \in Seq(Handlers)

\* Queue q has no element of S, exactly one element of S; the same for two
\* queues together.
NoneIn(q, S) == \A i \in 1 .. Len(q) : q[i] \notin S
OneIn(q, S) ==
    \E i \in 1 .. Len(q) : q[i] \in S /\ \A j \in 1 .. Len(q) : j # i => q[j] \notin S
Absent(q, r, S) == NoneIn(q, S) /\ NoneIn(r, S)
Once(q, r, S) == (OneIn(q, S) /\ NoneIn(r, S)) \/ (NoneIn(q, S) /\ OneIn(r, S))

\* A step leaves the number of elements of S alone.
Keeps(S) ==
    /\ Absent(ready', strand', S) <=> Absent(ready, strand, S)
    /\ Once(ready', strand', S) <=> Once(ready, strand, S)

\* The handlers that resume a, or lead to that.
Turns(a) == {h \in Handlers : h.who = a /\ h.kind \notin {"timeout", "strand"}}
Timeout == {Handler("timeout", Reader)}
WroteReader == {Handler("wrote", Reader)}

TurnInv ==
    \A a \in Coroutines :
        IF pc[a] = "away" \/ (a = Reader /\ reading)
        THEN Absent(ready, strand, Turns(a)) ELSE Once(ready, strand, Turns(a))

PcInv ==
    /\ pc[Reader] \in {"away", "lock", "locked", "reading"}
    /\ \A w \in Writers : pc[w] # "reading"
    /\ \A a \in Coroutines : pc[a] \in {"locked", "reading", "writing"} <=> lock = a
    /\ readFlag <=> pc[Reader] = "reading"
    /\ reading => pc[Reader] = "reading"

\* A pending read has a timer that runs or has expired.
TimedInv == reading => armed \/ ~Absent(ready, strand, Timeout)

\* The reader writes nothing.
WroteInv == Absent(ready, strand, WroteReader)

Inv == TypeOK /\ TurnInv /\ PcInv /\ TimedInv /\ WroteInv

-----------------------------------------------------------------------------
(* Elements of S in a queue, under the operations of a queue.               *)

LEMMA EmptyHas == \A S : NoneIn(<<>>, S) /\ ~OneIn(<<>>, S)
  BY SMT DEF NoneIn, OneIn

LEMMA SingleHas ==
  ASSUME NEW h, NEW S
  PROVE  /\ NoneIn(<<h>>, S) <=> h \notin S
         /\ OneIn(<<h>>, S) <=> h \in S
  BY SMT DEF NoneIn, OneIn

LEMMA ConcatHas ==
  ASSUME NEW H, NEW q \in Seq(H), NEW r \in Seq(H), NEW S
  PROVE  /\ q \o r \in Seq(H)
         /\ NoneIn(q \o r, S) <=> NoneIn(q, S) /\ NoneIn(r, S)
         /\ OneIn(q \o r, S) <=>
              (OneIn(q, S) /\ NoneIn(r, S)) \/ (NoneIn(q, S) /\ OneIn(r, S))
<1> DEFINE c == q \o r
<1>1. /\ c \in Seq(H) /\ Len(q) \in Nat /\ Len(r) \in Nat
      /\ Len(c) = Len(q) + Len(r)
      /\ \A i \in 1 .. Len(q) : c[i] = q[i]
      /\ \A i \in 1 .. Len(r) : c[Len(q) + i] = r[i]
  BY SMT
<1> HIDE DEF c
<1>2. ASSUME NEW i \in 1 .. Len(c)
      PROVE  i \in 1 .. Len(q) \/ \E k \in 1 .. Len(r) : i = Len(q) + k
  <2>1. i \in 1 .. Len(q) \/ (i - Len(q) \in 1 .. Len(r) /\ i = Len(q) + (i - Len(q)))
    BY <1>1, SMT
  <2> QED BY <2>1, Zenon
<1>3. /\ \A i \in 1 .. Len(q) : i \in 1 .. Len(c)
      /\ \A k \in 1 .. Len(r) : Len(q) + k \in 1 .. Len(c)
      /\ \A i \in 1 .. Len(q), k \in 1 .. Len(r) : i # Len(q) + k
      /\ \A j, k \in 1 .. Len(r) : j # k => Len(q) + j # Len(q) + k
  BY <1>1, SMT
<1>4. NoneIn(c, S) <=> NoneIn(q, S) /\ NoneIn(r, S)
  BY <1>1, <1>2, <1>3, Zenon DEF NoneIn
<1>5. ASSUME OneIn(c, S)
      PROVE  (OneIn(q, S) /\ NoneIn(r, S)) \/ (NoneIn(q, S) /\ OneIn(r, S))
  <2>1. PICK i \in 1 .. Len(c) : c[i] \in S /\ \A j \in 1 .. Len(c) : j # i => c[j] \notin S
    BY <1>5 DEF OneIn
  <2>2. CASE i \in 1 .. Len(q)
    BY <2>1, <2>2, <1>1, <1>3, Zenon DEF OneIn, NoneIn
  <2>3. CASE \E k \in 1 .. Len(r) : i = Len(q) + k
    <3>1. PICK k \in 1 .. Len(r) : i = Len(q) + k
      BY <2>3
    <3>2. r[k] \in S /\ \A j \in 1 .. Len(r) : j # k => r[j] \notin S
      BY <2>1, <3>1, <1>1, <1>3, Zenon
    <3>3. \A j \in 1 .. Len(q) : q[j] \notin S
      BY <2>1, <3>1, <1>1, <1>3, Zenon
    <3> QED BY <3>2, <3>3 DEF OneIn, NoneIn
  <2> QED BY <2>2, <2>3, <1>2
<1>6. ASSUME OneIn(q, S), NoneIn(r, S)
      PROVE  OneIn(c, S)
  <2>1. PICK i \in 1 .. Len(q) : q[i] \in S /\ \A j \in 1 .. Len(q) : j # i => q[j] \notin S
    BY <1>6 DEF OneIn
  <2>2. \A j \in 1 .. Len(c) : j # i => c[j] \notin S
    BY <2>1, <1>6, <1>1, <1>2, Zenon DEF NoneIn
  <2> QED BY <2>1, <2>2, <1>1, <1>3, Zenon DEF OneIn
<1>7. ASSUME NoneIn(q, S), OneIn(r, S)
      PROVE  OneIn(c, S)
  <2>1. PICK k \in 1 .. Len(r) : r[k] \in S /\ \A j \in 1 .. Len(r) : j # k => r[j] \notin S
    BY <1>7 DEF OneIn
  <2>2. \A j \in 1 .. Len(c) : j # Len(q) + k => c[j] \notin S
    BY <2>1, <1>7, <1>1, <1>2, Zenon DEF NoneIn
  <2> QED BY <2>1, <2>2, <1>1, <1>3, Zenon DEF OneIn
<1> QED BY <1>1, <1>4, <1>5, <1>6, <1>7 DEF c

LEMMA AppendHas ==
  ASSUME NEW H, NEW q \in Seq(H), NEW h \in H, NEW S
  PROVE  /\ Append(q, h) \in Seq(H)
         /\ NoneIn(Append(q, h), S) <=> NoneIn(q, S) /\ h \notin S
         /\ OneIn(Append(q, h), S) <=>
              (OneIn(q, S) /\ h \notin S) \/ (NoneIn(q, S) /\ h \in S)
<1>1. <<h>> \in Seq(H) /\ Append(q, h) = q \o <<h>>
  BY AppendIsConcat, SMT
<1> DEFINE r == <<h>>
<1>2. r \in Seq(H) /\ (NoneIn(r, S) <=> h \notin S) /\ (OneIn(r, S) <=> h \in S)
  BY <1>1, SingleHas
<1> HIDE DEF r
<1>3. /\ q \o r \in Seq(H)
      /\ NoneIn(q \o r, S) <=> NoneIn(q, S) /\ h \notin S
      /\ OneIn(q \o r, S) <=> (OneIn(q, S) /\ h \notin S) \/ (NoneIn(q, S) /\ h \in S)
  BY <1>2, ConcatHas
<1> QED BY <1>1, <1>3 DEF r

LEMMA HeadHas ==
  ASSUME NEW H, NEW q \in Seq(H), q # <<>>, NEW S
  PROVE  /\ Head(q) \in H /\ Tail(q) \in Seq(H)
         /\ NoneIn(q, S) <=> Head(q) \notin S /\ NoneIn(Tail(q), S)
         /\ OneIn(q, S) <=>
              (Head(q) \in S /\ NoneIn(Tail(q), S)) \/ (Head(q) \notin S /\ OneIn(Tail(q), S))
<1>1. /\ Head(q) \in H /\ Tail(q) \in Seq(H) /\ <<Head(q)>> \in Seq(H)
      /\ q = <<Head(q)>> \o Tail(q)
  BY SMT
<1> DEFINE h == Head(q)  t == Tail(q)
<1> HIDE DEF h, t
<1>2. /\ NoneIn(<<h>> \o t, S) <=> h \notin S /\ NoneIn(t, S)
      /\ OneIn(<<h>> \o t, S) <=>
              (h \in S /\ NoneIn(t, S)) \/ (h \notin S /\ OneIn(t, S))
  BY <1>1, ConcatHas, SingleHas, Zenon DEF h, t
<1> QED BY <1>1, <1>2, Zenon DEF h, t

\* What the moves of the model do to a pair of queues.
LEMMA TailMoves ==
  ASSUME NEW q \in Seq(Handlers), q # <<>>, NEW r \in Seq(Handlers), NEW h \in Handlers, NEW S
  PROVE  /\ Tail(q) \in Seq(Handlers) /\ Append(Tail(q), h) \in Seq(Handlers)
         /\ Append(r, Head(q)) \in Seq(Handlers)
         /\ Head(q) \in S => /\ ~Absent(q, r, S)
                             /\ Once(q, r, S) => Absent(Tail(q), r, S)
         /\ Head(q) \notin S => /\ Absent(Tail(q), r, S) <=> Absent(q, r, S)
                                /\ Once(Tail(q), r, S) <=> Once(q, r, S)
         /\ (Head(q) \in S <=> h \in S) =>
                /\ Absent(Append(Tail(q), h), r, S) <=> Absent(q, r, S)
                /\ Once(Append(Tail(q), h), r, S) <=> Once(q, r, S)
         /\ Absent(Tail(q), Append(r, Head(q)), S) <=> Absent(q, r, S)
         /\ Once(Tail(q), Append(r, Head(q)), S) <=> Once(q, r, S)
<1>1. Head(q) \in Handlers /\ Tail(q) \in Seq(Handlers)
  BY HeadHas
<1>2. /\ NoneIn(q, S) <=> Head(q) \notin S /\ NoneIn(Tail(q), S)
      /\ OneIn(q, S) <=>
           (Head(q) \in S /\ NoneIn(Tail(q), S)) \/ (Head(q) \notin S /\ OneIn(Tail(q), S))
  BY HeadHas
<1>3. /\ Append(Tail(q), h) \in Seq(Handlers)
      /\ NoneIn(Append(Tail(q), h), S) <=> NoneIn(Tail(q), S) /\ h \notin S
      /\ OneIn(Append(Tail(q), h), S) <=>
           (OneIn(Tail(q), S) /\ h \notin S) \/ (NoneIn(Tail(q), S) /\ h \in S)
  BY <1>1, AppendHas
<1>4. /\ Append(r, Head(q)) \in Seq(Handlers)
      /\ NoneIn(Append(r, Head(q)), S) <=> NoneIn(r, S) /\ Head(q) \notin S
      /\ OneIn(Append(r, Head(q)), S) <=>
           (OneIn(r, S) /\ Head(q) \notin S) \/ (NoneIn(r, S) /\ Head(q) \in S)
  BY <1>1, AppendHas
<1> QED BY <1>1, <1>2, <1>3, <1>4 DEF Absent, Once

LEMMA AppendMoves ==
  ASSUME NEW q \in Seq(Handlers), NEW r \in Seq(Handlers), NEW h \in Handlers, NEW S
  PROVE  /\ Append(q, h) \in Seq(Handlers)
         /\ h \in S => /\ ~Absent(Append(q, h), r, S)
                       /\ Absent(q, r, S) => Once(Append(q, h), r, S)
         /\ h \notin S => /\ Absent(Append(q, h), r, S) <=> Absent(q, r, S)
                          /\ Once(Append(q, h), r, S) <=> Once(q, r, S)
<1>1. /\ Append(q, h) \in Seq(Handlers)
      /\ NoneIn(Append(q, h), S) <=> NoneIn(q, S) /\ h \notin S
      /\ OneIn(Append(q, h), S) <=>
           (OneIn(q, S) /\ h \notin S) \/ (NoneIn(q, S) /\ h \in S)
  BY AppendHas
<1> QED BY <1>1 DEF Absent, Once

\* The kinds of a handler.
LEMMA HandlerFacts ==
  ASSUME NEW k \in Kinds, NEW a \in Coroutines
  PROVE  /\ Handler(k, a) \in Handlers
         /\ \A b \in Coroutines :
                Handler(k, a) \in Turns(b) <=> b = a /\ k \notin {"timeout", "strand"}
         /\ Handler(k, a) \in Timeout <=> k = "timeout" /\ a = Reader
         /\ Handler(k, a) \in WroteReader <=> k = "wrote" /\ a = Reader
BY DEF Handler, Handlers, Turns, Timeout, WroteReader

LEMMA ResumeFacts ==
  ASSUME NEW a \in Coroutines
  PROVE  /\ Resume(a) \in Handlers /\ Resume(a) \notin Timeout /\ Resume(a) \notin WroteReader
         /\ \A b \in Coroutines : Resume(a) \in Turns(b) <=> b = a
BY HandlerFacts DEF Resume, Kinds

LEMMA TurnFacts ==
  /\ StrandTurn \in Handlers /\ StrandTurn \notin Timeout /\ StrandTurn \notin WroteReader
  /\ \A b \in Coroutines : StrandTurn \notin Turns(b)
BY HandlerFacts DEF StrandTurn, Kinds, Coroutines

\* A handler h that runs on the strand and leaves g and p in the ready queue.
LEMMA StrandMoves ==
  ASSUME QueueOK, NEW h \in Handlers, NEW g \in Seq(Handlers), NEW p \in Seq(Handlers),
         RunsOnStrand(h, g, p)
  PROVE  /\ QueueOK'
         /\ \A S : StrandTurn \notin S =>
              /\ h \notin S /\ NoneIn(g, S) /\ NoneIn(p, S) => Keeps(S)
              /\ h \in S /\ Once(g, p, S) => Keeps(S)
              /\ h \in S => ~Absent(ready, strand, S)
              /\ h \notin S /\ Once(g, p, S) /\ Absent(ready, strand, S)
                    => Once(ready', strand', S)
<1> DEFINE t == Tail(ready)
           turn == <<StrandTurn>>
<1>0. turn \in Seq(Handlers)
  BY TurnFacts
<1>1. /\ ready # <<>> /\ t \in Seq(Handlers) /\ strand' \in Seq(Handlers)
      /\ \/ Head(ready) = h /\ strand = <<>> /\ strand' = strand
         \/ Head(ready) = StrandTurn /\ strand # <<>> /\ Head(strand) = h /\ strand' = Tail(strand)
      /\ \/ ready' = g \o t \o p
         \/ ready' = g \o t \o p \o turn
         \/ ready' = g \o turn \o t \o p
  <2>1. ready # <<>> /\ (Head(ready) = h \/ Head(ready) = StrandTurn)
    BY DEF RunsOnStrand, HeadIs
  <2>2. t \in Seq(Handlers) /\ (strand # <<>> => Tail(strand) \in Seq(Handlers))
    BY <2>1, HeadHas DEF QueueOK
  <2>3. /\ \/ Head(ready) = h /\ strand = <<>> /\ strand' = strand
           \/ Head(ready) = StrandTurn /\ strand # <<>> /\ Head(strand) = h
              /\ strand' = Tail(strand)
        /\ \/ ready' = g \o t \o p
           \/ ready' = g \o t \o p \o turn
           \/ ready' = g \o turn \o t \o p
    <3> HIDE DEF t, turn
    <3> QED BY Zenon DEF RunsOnStrand, HeadIs, t, turn
  <2> QED BY <2>1, <2>2, <2>3 DEF QueueOK
<1> HIDE DEF t, turn
<1>2. ready' \in Seq(Handlers)
  <2>1. g \o t \in Seq(Handlers) /\ g \o turn \in Seq(Handlers)
    BY <1>0, <1>1, ConcatHas
  <2>2. g \o t \o p \in Seq(Handlers) /\ g \o turn \o t \in Seq(Handlers)
    BY <2>1, <1>1, ConcatHas
  <2>3. g \o t \o p \o turn \in Seq(Handlers) /\ g \o turn \o t \o p \in Seq(Handlers)
    BY <2>2, <1>0, ConcatHas
  <2> QED BY <1>1, <2>2, <2>3
<1>3. ASSUME NEW S, StrandTurn \notin S
      PROVE  /\ h \notin S /\ NoneIn(g, S) /\ NoneIn(p, S) => Keeps(S)
             /\ h \in S /\ Once(g, p, S) => Keeps(S)
             /\ h \in S => ~Absent(ready, strand, S)
             /\ h \notin S /\ Once(g, p, S) /\ Absent(ready, strand, S)
                   => Once(ready', strand', S)
  <2>1. NoneIn(turn, S) /\ ~OneIn(turn, S)
    BY <1>3, SingleHas DEF turn
  <2>2. /\ NoneIn(ready', S) <=> NoneIn(g, S) /\ NoneIn(t, S) /\ NoneIn(p, S)
        /\ OneIn(ready', S) <=> \/ OneIn(g, S) /\ NoneIn(t, S) /\ NoneIn(p, S)
                                \/ NoneIn(g, S) /\ OneIn(t, S) /\ NoneIn(p, S)
                                \/ NoneIn(g, S) /\ NoneIn(t, S) /\ OneIn(p, S)
    <3>1. /\ g \o t \in Seq(Handlers)
          /\ NoneIn(g \o t, S) <=> NoneIn(g, S) /\ NoneIn(t, S)
          /\ OneIn(g \o t, S) <=>
               (OneIn(g, S) /\ NoneIn(t, S)) \/ (NoneIn(g, S) /\ OneIn(t, S))
      BY <1>1, ConcatHas
    <3>2. /\ g \o turn \in Seq(Handlers)
          /\ NoneIn(g \o turn, S) <=> NoneIn(g, S)
          /\ OneIn(g \o turn, S) <=> OneIn(g, S)
      BY <1>0, <2>1, ConcatHas
    <3>3. /\ g \o t \o p \in Seq(Handlers)
          /\ NoneIn(g \o t \o p, S) <=> NoneIn(g \o t, S) /\ NoneIn(p, S)
          /\ OneIn(g \o t \o p, S) <=>
               (OneIn(g \o t, S) /\ NoneIn(p, S)) \/ (NoneIn(g \o t, S) /\ OneIn(p, S))
      BY <3>1, ConcatHas
    <3>4. /\ NoneIn(g \o t \o p \o turn, S) <=> NoneIn(g \o t \o p, S)
          /\ OneIn(g \o t \o p \o turn, S) <=> OneIn(g \o t \o p, S)
      <4> DEFINE c == g \o t \o p
      <4>1. c \in Seq(Handlers)
        BY <3>3
      <4> HIDE DEF c
      <4>2. /\ NoneIn(c \o turn, S) <=> NoneIn(c, S) /\ NoneIn(turn, S)
            /\ OneIn(c \o turn, S) <=>
                 (OneIn(c, S) /\ NoneIn(turn, S)) \/ (NoneIn(c, S) /\ OneIn(turn, S))
        BY <1>0, <4>1, ConcatHas
      <4>3. (NoneIn(c \o turn, S) <=> NoneIn(c, S)) /\ (OneIn(c \o turn, S) <=> OneIn(c, S))
        BY <4>2, <2>1
      <4> QED BY <4>3 DEF c
    <3>5. /\ g \o turn \o t \in Seq(Handlers)
          /\ NoneIn(g \o turn \o t, S) <=> NoneIn(g, S) /\ NoneIn(t, S)
          /\ OneIn(g \o turn \o t, S) <=>
               (OneIn(g, S) /\ NoneIn(t, S)) \/ (NoneIn(g, S) /\ OneIn(t, S))
      <4> DEFINE c == g \o turn
      <4>1. /\ c \in Seq(Handlers)
            /\ NoneIn(c, S) <=> NoneIn(g, S)
            /\ OneIn(c, S) <=> OneIn(g, S)
        BY <3>2
      <4> HIDE DEF c
      <4>2. /\ c \o t \in Seq(Handlers)
            /\ NoneIn(c \o t, S) <=> NoneIn(c, S) /\ NoneIn(t, S)
            /\ OneIn(c \o t, S) <=>
                 (OneIn(c, S) /\ NoneIn(t, S)) \/ (NoneIn(c, S) /\ OneIn(t, S))
        BY <1>1, <4>1, ConcatHas
      <4>3. /\ c \o t \in Seq(Handlers)
            /\ NoneIn(c \o t, S) <=> NoneIn(g, S) /\ NoneIn(t, S)
            /\ OneIn(c \o t, S) <=>
                 (OneIn(g, S) /\ NoneIn(t, S)) \/ (NoneIn(g, S) /\ OneIn(t, S))
        BY <4>1, <4>2
      <4> QED BY <4>3 DEF c
    <3>6. /\ NoneIn(g \o turn \o t \o p, S) <=> NoneIn(g \o turn \o t, S) /\ NoneIn(p, S)
          /\ OneIn(g \o turn \o t \o p, S) <=>
               (OneIn(g \o turn \o t, S) /\ NoneIn(p, S))
               \/ (NoneIn(g \o turn \o t, S) /\ OneIn(p, S))
      BY <3>5, ConcatHas
    <3>7. CASE ready' = g \o t \o p
      BY <3>7, <3>1, <3>3, Zenon
    <3>8. CASE ready' = g \o t \o p \o turn
      BY <3>8, <3>1, <3>3, <3>4, Zenon
    <3>9. CASE ready' = g \o turn \o t \o p
      BY <3>9, <3>5, <3>6, Zenon
    <3> QED BY <1>1, <3>7, <3>8, <3>9
  <2>3. /\ NoneIn(ready, S) <=> Head(ready) \notin S /\ NoneIn(t, S)
        /\ OneIn(ready, S) <=>
             (Head(ready) \in S /\ NoneIn(t, S)) \/ (Head(ready) \notin S /\ OneIn(t, S))
    BY <1>1, HeadHas DEF QueueOK, t
  <2>4. /\ Absent(ready, strand, S) <=> h \notin S /\ Absent(t, strand', S)
        /\ Once(ready, strand, S) <=>
             (h \in S /\ Absent(t, strand', S)) \/ (h \notin S /\ Once(t, strand', S))
    <3>1. CASE Head(ready) = h /\ strand = <<>> /\ strand' = strand
      BY <3>1, <2>3, EmptyHas DEF Absent, Once
    <3>2. CASE Head(ready) = StrandTurn /\ strand # <<>> /\ Head(strand) = h
               /\ strand' = Tail(strand)
      <4>1. /\ NoneIn(strand, S) <=> h \notin S /\ NoneIn(strand', S)
            /\ OneIn(strand, S) <=>
                 (h \in S /\ NoneIn(strand', S)) \/ (h \notin S /\ OneIn(strand', S))
        BY <3>2, HeadHas DEF QueueOK
      <4> QED BY <3>2, <4>1, <2>3, <1>3 DEF Absent, Once
    <3> QED BY <1>1, <3>1, <3>2
  <2>5. NoneIn(g, S) => ~OneIn(g, S)
    BY DEF NoneIn, OneIn
  <2>6. NoneIn(p, S) => ~OneIn(p, S)
    BY DEF NoneIn, OneIn
  <2>7. NoneIn(t, S) => ~OneIn(t, S)
    BY DEF NoneIn, OneIn
  <2> QED BY <2>2, <2>4, <2>5, <2>6, <2>7 DEF Absent, Once, Keeps
<1> QED BY <1>1, <1>2, <1>3 DEF QueueOK
-----------------------------------------------------------------------------
(* The queues in the steps of Tun.                                          *)

\* The head of the ready queue resumes a, which goes on without a handler.
LEMMA Leaves ==
  ASSUME QueueOK, NEW a \in Coroutines, HeadIs(Resume(a)),
         ready' = Tail(ready), UNCHANGED strand
  PROVE  /\ QueueOK' /\ Keeps(Timeout) /\ Keeps(WroteReader)
         /\ \A b \in Coroutines : b # a => Keeps(Turns(b))
         /\ ~Absent(ready, strand, Turns(a))
         /\ Once(ready, strand, Turns(a)) => Absent(ready', strand', Turns(a))
<1>1. ready # <<>> /\ Head(ready) = Resume(a)
  BY DEF HeadIs
<1>2. \A S : /\ Head(ready) \in S =>
               /\ ~Absent(ready, strand, S)
               /\ Once(ready, strand, S) => Absent(Tail(ready), strand, S)
             /\ Head(ready) \notin S =>
               /\ Absent(Tail(ready), strand, S) <=> Absent(ready, strand, S)
               /\ Once(Tail(ready), strand, S) <=> Once(ready, strand, S)
  BY <1>1, TailMoves, TurnFacts DEF QueueOK
<1>3. QueueOK'
  BY <1>1, HeadHas DEF QueueOK
<1> QED BY <1>1, <1>2, <1>3, ResumeFacts DEF Keeps

\* The head of the ready queue resumes a, which stays there, or has posted h.
LEMMA Stays ==
  ASSUME QueueOK, NEW a \in Coroutines, HeadIs(Resume(a)),
         NEW k \in {"resume", "wrote"}, k = "wrote" => a # Reader,
         ready' = ready \/ ready' = Append(Tail(ready), Handler(k, a)), UNCHANGED strand
  PROVE  /\ QueueOK' /\ Keeps(Timeout) /\ Keeps(WroteReader)
         /\ \A b \in Coroutines : Keeps(Turns(b))
<1> DEFINE h == Handler(k, a)
<1>1. /\ ready # <<>> /\ Head(ready) = Resume(a)
      /\ h \in Handlers /\ h \notin Timeout /\ h \notin WroteReader
      /\ \A b \in Coroutines : h \in Turns(b) <=> b = a
  BY HandlerFacts DEF HeadIs, Kinds
<1> HIDE DEF h
<1>2. \A S : (Head(ready) \in S <=> h \in S) =>
         /\ Absent(Append(Tail(ready), h), strand, S) <=> Absent(ready, strand, S)
         /\ Once(Append(Tail(ready), h), strand, S) <=> Once(ready, strand, S)
  BY <1>1, TailMoves DEF QueueOK
<1>3. QueueOK'
  <2>1. Append(Tail(ready), h) \in Seq(Handlers)
    BY <1>1, TailMoves DEF QueueOK
  <2> QED BY <2>1 DEF QueueOK, h
<1>4. \A S : (Resume(a) \in S <=> h \in S) => Keeps(S)
  BY <1>1, <1>2 DEF Keeps, h
<1> QED BY <1>1, <1>3, <1>4, ResumeFacts

\* A handler is posted.
LEMMA Posts ==
  ASSUME QueueOK, NEW k \in Kinds, NEW a \in Coroutines,
         ready' = Append(ready, Handler(k, a)), UNCHANGED strand
  PROVE  /\ QueueOK'
         /\ k # "timeout" => Keeps(Timeout)
         /\ k = "timeout" /\ a = Reader => ~Absent(ready', strand', Timeout)
         /\ k # "wrote" => Keeps(WroteReader)
         /\ \A b \in Coroutines :
              IF b = a /\ k \notin {"timeout", "strand"}
              THEN Absent(ready, strand, Turns(b)) => Once(ready', strand', Turns(b))
              ELSE Keeps(Turns(b))
<1> DEFINE h == Handler(k, a)
<1>1. /\ h \in Handlers
      /\ \A b \in Coroutines : h \in Turns(b) <=> b = a /\ k \notin {"timeout", "strand"}
      /\ h \in Timeout <=> k = "timeout" /\ a = Reader
      /\ h \in WroteReader <=> k = "wrote" /\ a = Reader
  BY HandlerFacts
<1>2. ready' = Append(ready, h) /\ strand' = strand
  OBVIOUS
<1> HIDE DEF h
<1>3. /\ QueueOK'
      /\ \A S : /\ h \in S => /\ ~Absent(ready', strand', S)
                              /\ Absent(ready, strand, S) => Once(ready', strand', S)
                /\ h \notin S => Keeps(S)
  BY <1>1, <1>2, AppendMoves DEF QueueOK, Keeps
<1> QED BY <1>1, <1>3

\* The head of the ready queue resumes a, which posts itself on the strand.
LEMMA Diverts ==
  ASSUME QueueOK, NEW a \in Coroutines, HeadIs(Resume(a)),
         strand' = Append(strand, Resume(a)),
         ready' = Tail(ready) \o (IF strand = <<>> THEN <<StrandTurn>> ELSE <<>>)
  PROVE  /\ QueueOK' /\ Keeps(Timeout) /\ Keeps(WroteReader)
         /\ \A b \in Coroutines : Keeps(Turns(b))
<1>1. ready # <<>> /\ Head(ready) = Resume(a) /\ Tail(ready) \in Seq(Handlers)
  BY HeadHas DEF HeadIs, QueueOK
<1>2. \/ ready' = Append(Tail(ready), StrandTurn)
      \/ ready' = Tail(ready)
  BY <1>1, TurnFacts, AppendIsConcat, SMT
<1>3. strand' \in Seq(Handlers) /\ strand' = Append(strand, Head(ready))
  BY <1>1, TailMoves, TurnFacts DEF QueueOK
<1>4. \A S : /\ Absent(Tail(ready), strand', S) <=> Absent(ready, strand, S)
             /\ Once(Tail(ready), strand', S) <=> Once(ready, strand, S)
  BY <1>1, <1>3, TailMoves, TurnFacts DEF QueueOK
<1>5. /\ Append(Tail(ready), StrandTurn) \in Seq(Handlers)
      /\ \A S : StrandTurn \notin S =>
          /\ Absent(Append(Tail(ready), StrandTurn), strand', S) <=> Absent(Tail(ready), strand', S)
          /\ Once(Append(Tail(ready), StrandTurn), strand', S) <=> Once(Tail(ready), strand', S)
  BY <1>1, <1>3, AppendMoves, TurnFacts
<1>6. QueueOK' /\ \A S : StrandTurn \notin S => Keeps(S)
  BY <1>1, <1>2, <1>3, <1>4, <1>5 DEF QueueOK, Keeps
<1> QED BY <1>6, TurnFacts

\* A completion handler lines up on the strand.
LEMMA LinesUp ==
  ASSUME QueueOK, StrandBusy
  PROVE  QueueOK' /\ \A S : Keeps(S)
<1>1. ready # <<>> /\ strand' = Append(strand, Head(ready)) /\ ready' = Tail(ready)
  BY DEF StrandBusy
<1>2. \A S : /\ Tail(ready) \in Seq(Handlers) /\ Append(strand, Head(ready)) \in Seq(Handlers)
             /\ Absent(Tail(ready), Append(strand, Head(ready)), S) <=> Absent(ready, strand, S)
             /\ Once(Tail(ready), Append(strand, Head(ready)), S) <=> Once(ready, strand, S)
  BY <1>1, TailMoves, TurnFacts DEF QueueOK
<1> QED BY <1>1, <1>2 DEF QueueOK, Keeps

\* A completion handler of kind k, for a, that makes resume(a) ready.
LEMMA Completes ==
  ASSUME QueueOK, NEW k \in {"packet", "cancelledRead", "wrote"}, NEW a \in Coroutines,
         k = "wrote" => a # Reader,
         RunsOnStrand(Handler(k, a), <<>>, <<Resume(a)>>)
  PROVE  /\ QueueOK' /\ Keeps(Timeout) /\ Keeps(WroteReader)
         /\ \A b \in Coroutines : Keeps(Turns(b))
         /\ ~Absent(ready, strand, Turns(a))
<1> DEFINE h == Handler(k, a)
           p == <<Resume(a)>>
           g == <<>>
<1>1. /\ h \in Handlers /\ h \notin Timeout /\ h \notin WroteReader
      /\ \A b \in Coroutines : h \in Turns(b) <=> b = a
  BY HandlerFacts DEF Kinds
<1>2. /\ p \in Seq(Handlers) /\ g \in Seq(Handlers)
      /\ NoneIn(p, Timeout) /\ NoneIn(p, WroteReader)
      /\ \A b \in Coroutines : b # a => NoneIn(p, Turns(b))
      /\ OneIn(p, Turns(a))
  BY ResumeFacts, SingleHas
<1>3. \A S : NoneIn(g, S) /\ ~OneIn(g, S)
  BY EmptyHas
<1>4. RunsOnStrand(h, g, p)
  OBVIOUS
<1> HIDE DEF h, p, g
<1>5. /\ QueueOK'
      /\ \A S : StrandTurn \notin S =>
           /\ h \notin S /\ NoneIn(p, S) => Keeps(S)
           /\ h \in S /\ OneIn(p, S) => Keeps(S)
           /\ h \in S => ~Absent(ready, strand, S)
  BY <1>1, <1>2, <1>3, <1>4, StrandMoves DEF Once
<1> QED BY <1>1, <1>2, <1>5, TurnFacts

\* What a cancel makes ready.
LEMMA CancelledHas ==
  ASSUME reading \in BOOLEAN
  PROVE  /\ Cancelled \in Seq(Handlers)
         /\ NoneIn(Cancelled, Timeout) /\ NoneIn(Cancelled, WroteReader)
         /\ \A b \in Coroutines :
              IF b = Reader /\ reading THEN OneIn(Cancelled, Turns(b))
              ELSE NoneIn(Cancelled, Turns(b))
<1> DEFINE h == Handler("cancelledRead", Reader)
<1>1. /\ h \in Handlers /\ h \notin Timeout /\ h \notin WroteReader
      /\ \A b \in Coroutines : h \in Turns(b) <=> b = Reader
  BY HandlerFacts DEF Kinds, Coroutines
<1>2. Cancelled = IF reading THEN <<h>> ELSE <<>>
  BY DEF Cancelled
<1> HIDE DEF h
<1>3. CASE reading
  BY <1>1, <1>2, <1>3, SingleHas
<1>4. CASE ~reading
  BY <1>2, <1>4, EmptyHas
<1> QED BY <1>3, <1>4

\* The handler of the timer cancels what is pending.
LEMMA TimesOut ==
  ASSUME QueueOK, reading \in BOOLEAN,
         RunsOnStrand(Handler("timeout", Reader), <<>>, Cancelled)
  PROVE  /\ QueueOK' /\ Keeps(WroteReader)
         /\ \A b \in Coroutines :
              IF b = Reader /\ reading
              THEN Absent(ready, strand, Turns(b)) => Once(ready', strand', Turns(b))
              ELSE Keeps(Turns(b))
<1> DEFINE h == Handler("timeout", Reader)
           g == <<>>
<1>1. /\ h \in Handlers /\ h \notin WroteReader
      /\ \A b \in Coroutines : h \notin Turns(b)
  BY HandlerFacts DEF Kinds, Coroutines
<1>2. g \in Seq(Handlers) /\ \A S : NoneIn(g, S) /\ ~OneIn(g, S)
  BY EmptyHas
<1>3. RunsOnStrand(h, g, Cancelled)
  OBVIOUS
<1> HIDE DEF h, g
<1>4. /\ QueueOK'
      /\ \A S : StrandTurn \notin S /\ h \notin S =>
           /\ NoneIn(Cancelled, S) => Keeps(S)
           /\ OneIn(Cancelled, S) /\ Absent(ready, strand, S) => Once(ready', strand', S)
  BY <1>1, <1>2, <1>3, StrandMoves, CancelledHas DEF Once
<1> QED BY <1>1, <1>4, TurnFacts, CancelledHas

\* A writer on the strand goes on and cancels what is pending.
LEMMA Cancels ==
  ASSUME QueueOK, reading \in BOOLEAN, NEW w \in Writers,
         RunsOnStrand(Resume(w), <<Resume(w)>>, Cancelled)
  PROVE  /\ QueueOK' /\ Keeps(WroteReader) /\ Keeps(Timeout)
         /\ \A b \in Coroutines :
              IF b = Reader /\ reading
              THEN Absent(ready, strand, Turns(b)) => Once(ready', strand', Turns(b))
              ELSE Keeps(Turns(b))
<1> DEFINE h == Resume(w)
           g == <<h>>
<1>0. w \in Coroutines /\ w # Reader
  BY TunAssumption DEF Coroutines
<1>1. /\ h \in Handlers /\ h \notin WroteReader /\ h \notin Timeout
      /\ \A b \in Coroutines : h \in Turns(b) <=> b = w
  BY <1>0, ResumeFacts
<1> HIDE DEF h
<1>2. g \in Seq(Handlers) /\ \A S : (NoneIn(g, S) <=> h \notin S) /\ (OneIn(g, S) <=> h \in S)
  BY <1>1, SingleHas
<1>3. RunsOnStrand(h, g, Cancelled)
  BY DEF h
<1> HIDE DEF g
<1>4. /\ QueueOK'
      /\ \A S : StrandTurn \notin S /\ NoneIn(Cancelled, S) => Keeps(S)
      /\ \A S : StrandTurn \notin S /\ h \notin S /\ OneIn(Cancelled, S)
                /\ Absent(ready, strand, S) => Once(ready', strand', S)
  BY <1>1, <1>2, <1>3, StrandMoves, CancelledHas DEF Once
<1> QED BY <1>0, <1>1, <1>4, TurnFacts, CancelledHas

-----------------------------------------------------------------------------
(* The inductive invariant.                                                 *)

\* TypeOK without the queues.
OtherTypes ==
    /\ pc \in [Coroutines -> {"away", "call", "strand", "lock", "locked", "reading",
                              "writing"}]
    /\ lock \in Coroutines \union {Free}
    /\ readFlag \in BOOLEAN /\ reading \in BOOLEAN /\ armed \in BOOLEAN
    /\ cancelled \subseteq Writers

LEMMA TypesSplit == TypeOK <=> OtherTypes /\ QueueOK
BY DEF TypeOK, OtherTypes, QueueOK, Handlers

LEMMA InitInv == Init => Inv
<1> SUFFICES ASSUME Init PROVE Inv
  OBVIOUS
<1>1. OtherTypes /\ QueueOK
  <2>1. pc \in [Coroutines -> {"away", "call", "strand", "lock", "locked", "reading", "writing"}]
    BY Zenon DEF Init
  <2>2. lock \in Coroutines \union {Free} /\ readFlag \in BOOLEAN /\ reading \in BOOLEAN
        /\ armed \in BOOLEAN /\ cancelled \subseteq Writers
    BY DEF Init
  <2>3. QueueOK
    BY SMT DEF Init, QueueOK
  <2> QED BY <2>1, <2>2, <2>3 DEF OtherTypes
<1>2. \A S : Absent(ready, strand, S)
  BY EmptyHas DEF Init, Absent
<1>3. PcInv
  BY TunAssumption DEF Init, PcInv, Coroutines
<1> QED BY <1>1, <1>2, <1>3, TypesSplit DEF Inv, TurnInv, TimedInv, WroteInv, Init


\* One step of a coroutine or of its surroundings, by what it does to the queues.
LEMMA StepInv ==
  ASSUME Inv, [Next]_vars
  PROVE  Inv'
<1>0. /\ OtherTypes /\ QueueOK /\ TurnInv /\ PcInv /\ TimedInv /\ WroteInv
      /\ Reader \in Coroutines /\ Free \notin Coroutines
      /\ \A w \in Writers : w \in Coroutines /\ w # Reader
      /\ \A a \in Coroutines : a # Reader => a \in Writers
  BY TypesSplit, TunAssumption DEF Inv, Coroutines
<1> SUFFICES OtherTypes' /\ QueueOK' /\ TurnInv' /\ PcInv' /\ TimedInv' /\ WroteInv'
  BY TypesSplit DEF Inv, TypeOK, OtherTypes, QueueOK, Handlers, TurnInv, PcInv, TimedInv,
     WroteInv
<1>1. CASE UNCHANGED vars
  BY <1>0, <1>1 DEF vars, queues, device, OtherTypes, QueueOK, TurnInv, PcInv, TimedInv, WroteInv
<1>2. ASSUME NEW a \in Coroutines, LockStep(a)
      PROVE  OtherTypes' /\ QueueOK' /\ TurnInv' /\ PcInv' /\ TimedInv' /\ WroteInv'
  <2>1. /\ QueueOK' /\ Keeps(Timeout) /\ Keeps(WroteReader)
        /\ \A b \in Coroutines : Keeps(Turns(b))
    <3>1. HeadIs(Resume(a)) /\ UNCHANGED strand
      BY <1>2 DEF LockStep, Runs
    <3>2. ready' = ready \/ ready' = Append(Tail(ready), Handler("resume", a))
      BY <1>2 DEF LockStep, Resume
    <3> QED BY <1>0, <3>1, <3>2, Stays
  <2>2. /\ pc[a] = "lock" /\ UNCHANGED <<readFlag, reading, armed>>
        /\ \/ UNCHANGED <<pc, lock>>
           \/ lock = Free /\ lock' = a /\ pc' = [pc EXCEPT ![a] = "locked"]
        /\ cancelled' \subseteq cancelled
    BY <1>2 DEF LockStep, Runs, Goto, device
  <2>3. OtherTypes' /\ PcInv'
    BY <1>0, <2>2 DEF OtherTypes, PcInv
  <2>4. TurnInv'
    BY <1>0, <2>1, <2>2 DEF TurnInv, Keeps, OtherTypes
  <2> QED BY <1>0, <2>1, <2>2, <2>3, <2>4 DEF TimedInv, WroteInv, Keeps
<1>3. CASE StartRead
  <2>1. HeadIs(Resume(Reader)) /\ ready' = Tail(ready) /\ UNCHANGED strand
    BY <1>3 DEF StartRead, Runs
  <2>2. /\ pc[Reader] = "locked" /\ pc' = [pc EXCEPT ![Reader] = "reading"]
        /\ readFlag' = TRUE /\ reading' = TRUE /\ armed' = TRUE /\ UNCHANGED <<lock, cancelled>>
    BY <1>3 DEF StartRead, Runs, Goto
  <2>3. OtherTypes' /\ PcInv'
    BY <1>0, <2>2 DEF OtherTypes, PcInv
  <2>4. /\ QueueOK' /\ Keeps(WroteReader)
        /\ \A b \in Coroutines : b # Reader => Keeps(Turns(b))
        /\ Once(ready, strand, Turns(Reader)) => Absent(ready', strand', Turns(Reader))
    BY <1>0, <2>1, Leaves
  <2>5. TurnInv'
    BY <1>0, <2>2, <2>4 DEF TurnInv, Keeps, OtherTypes, PcInv
  <2> QED BY <1>0, <2>2, <2>3, <2>4, <2>5 DEF TimedInv, WroteInv, Keeps
<1>4. CASE ReadReturns
  <2>1. HeadIs(Resume(Reader)) /\ ready' = Tail(ready) /\ UNCHANGED strand
    BY <1>4 DEF ReadReturns, Runs
  <2>2. /\ pc[Reader] = "reading" /\ pc' = [pc EXCEPT ![Reader] = "away"]
        /\ readFlag' = FALSE /\ lock' = Free /\ UNCHANGED <<reading, armed, cancelled>>
    BY <1>4 DEF ReadReturns, Runs, Goto, device
  <2>3. /\ QueueOK' /\ Keeps(Timeout) /\ Keeps(WroteReader)
        /\ \A b \in Coroutines : b # Reader => Keeps(Turns(b))
        /\ ~Absent(ready, strand, Turns(Reader))
        /\ Once(ready, strand, Turns(Reader)) => Absent(ready', strand', Turns(Reader))
    BY <1>0, <2>1, Leaves
  <2>4. ~reading
    BY <1>0, <2>3 DEF TurnInv
  <2>5. OtherTypes' /\ PcInv'
    BY <1>0, <2>2, <2>4 DEF OtherTypes, PcInv
  <2>6. TurnInv'
    BY <1>0, <2>2, <2>3, <2>4 DEF TurnInv, Keeps, OtherTypes
  <2> QED BY <1>0, <2>2, <2>3, <2>5, <2>6, <2>4 DEF TimedInv, WroteInv, Keeps
<1>5. ASSUME NEW w \in Writers, CheckFlag(w)
      PROVE  OtherTypes' /\ QueueOK' /\ TurnInv' /\ PcInv' /\ TimedInv' /\ WroteInv'
  <2>1. /\ pc[w] = "call" /\ HeadIs(Resume(w))
        /\ pc' = [pc EXCEPT ![w] = "strand"] \/ pc' = [pc EXCEPT ![w] = "lock"]
        /\ UNCHANGED <<lock, readFlag, reading, armed, cancelled>>
    BY <1>5 DEF CheckFlag, Runs, Goto, device
  <2>2. /\ QueueOK' /\ Keeps(Timeout) /\ Keeps(WroteReader)
        /\ \A b \in Coroutines : Keeps(Turns(b))
    <3>1. CASE readFlag
      BY <1>0, <1>5, <2>1, <3>1, Diverts DEF CheckFlag
    <3>2. CASE ~readFlag
      BY <1>0, <1>5, <3>2 DEF CheckFlag, queues, QueueOK, Keeps
    <3> QED BY <3>1, <3>2
  <2>3. OtherTypes' /\ PcInv'
    BY <1>0, <2>1 DEF OtherTypes, PcInv
  <2>4. TurnInv'
    BY <1>0, <2>1, <2>2 DEF TurnInv, Keeps, OtherTypes
  <2> QED BY <1>0, <2>1, <2>2, <2>3, <2>4 DEF TimedInv, WroteInv, Keeps
<1>6. ASSUME NEW w \in Writers, CancelRead(w)
      PROVE  OtherTypes' /\ QueueOK' /\ TurnInv' /\ PcInv' /\ TimedInv' /\ WroteInv'
  <2>1. /\ pc[w] = "strand" /\ RunsOnStrand(Resume(w), <<Resume(w)>>, Cancelled)
        /\ pc' = [pc EXCEPT ![w] = "lock"] /\ reading' = FALSE /\ armed' = FALSE
        /\ cancelled' \subseteq cancelled \union {w}
        /\ UNCHANGED <<lock, readFlag>>
    BY <1>6 DEF CancelRead, Goto
  <2>2. /\ QueueOK' /\ Keeps(WroteReader)
        /\ \A b \in Coroutines :
              IF b = Reader /\ reading
              THEN Absent(ready, strand, Turns(b)) => Once(ready', strand', Turns(b))
              ELSE Keeps(Turns(b))
    BY <1>0, <2>1, Cancels DEF OtherTypes
  <2>3. OtherTypes' /\ PcInv'
    BY <1>0, <2>1 DEF OtherTypes, PcInv
  <2>4. TurnInv'
    BY <1>0, <2>1, <2>2 DEF TurnInv, Keeps, OtherTypes, PcInv
  <2> QED BY <1>0, <2>1, <2>2, <2>3, <2>4 DEF TimedInv, WroteInv, Keeps
<1>7. ASSUME NEW w \in Writers, StartWrite(w)
      PROVE  OtherTypes' /\ QueueOK' /\ TurnInv' /\ PcInv' /\ TimedInv' /\ WroteInv'
  <2>1. /\ pc[w] = "locked" /\ HeadIs(Resume(w)) /\ UNCHANGED strand
        /\ ready' = Append(Tail(ready), Handler("wrote", w))
        /\ pc' = [pc EXCEPT ![w] = "writing"]
        /\ UNCHANGED <<lock, readFlag, reading, armed, cancelled>>
    BY <1>7 DEF StartWrite, Runs, Goto, device
  <2>2. /\ QueueOK' /\ Keeps(Timeout) /\ Keeps(WroteReader)
        /\ \A b \in Coroutines : Keeps(Turns(b))
    BY <1>0, <2>1, Stays
  <2>3. OtherTypes' /\ PcInv'
    BY <1>0, <2>1 DEF OtherTypes, PcInv
  <2>4. TurnInv'
    BY <1>0, <2>1, <2>2 DEF TurnInv, Keeps, OtherTypes
  <2> QED BY <1>0, <2>1, <2>2, <2>3, <2>4 DEF TimedInv, WroteInv, Keeps
<1>8. ASSUME NEW w \in Writers, WroteHandler(w)
      PROVE  OtherTypes' /\ QueueOK' /\ TurnInv' /\ PcInv' /\ TimedInv' /\ WroteInv'
  <2>1. /\ RunsOnStrand(Handler("wrote", w), <<>>, <<Resume(w)>>)
        /\ UNCHANGED <<pc, lock, readFlag, reading, armed, cancelled>>
    BY <1>8 DEF WroteHandler, device
  <2>2. /\ QueueOK' /\ Keeps(Timeout) /\ Keeps(WroteReader)
        /\ \A b \in Coroutines : Keeps(Turns(b))
    BY <1>0, <2>1, Completes
  <2> QED BY <1>0, <2>1, <2>2 DEF OtherTypes, TurnInv, PcInv, TimedInv, WroteInv, Keeps
<1>9. ASSUME NEW w \in Writers, WriteReturns(w)
      PROVE  OtherTypes' /\ QueueOK' /\ TurnInv' /\ PcInv' /\ TimedInv' /\ WroteInv'
  <2>1. /\ pc[w] = "writing" /\ HeadIs(Resume(w)) /\ ready' = Tail(ready) /\ UNCHANGED strand
        /\ pc' = [pc EXCEPT ![w] = "away"] /\ lock' = Free
        /\ UNCHANGED <<readFlag, reading, armed, cancelled>>
    BY <1>9 DEF WriteReturns, Runs, Goto, device
  <2>2. /\ QueueOK' /\ Keeps(Timeout) /\ Keeps(WroteReader)
        /\ \A b \in Coroutines : b # w => Keeps(Turns(b))
        /\ Once(ready, strand, Turns(w)) => Absent(ready', strand', Turns(w))
    BY <1>0, <2>1, Leaves
  <2>3. OtherTypes' /\ PcInv'
    BY <1>0, <2>1 DEF OtherTypes, PcInv
  <2>4. TurnInv'
    BY <1>0, <2>1, <2>2 DEF TurnInv, Keeps, OtherTypes
  <2> QED BY <1>0, <2>1, <2>2, <2>3, <2>4 DEF TimedInv, WroteInv, Keeps
<1>10. CASE PacketHandler
  <2>1. /\ RunsOnStrand(Handler("packet", Reader), <<>>, <<Resume(Reader)>>)
        /\ armed' = FALSE /\ UNCHANGED <<pc, lock, readFlag, reading, cancelled>>
    BY <1>10 DEF PacketHandler
  <2>2. /\ QueueOK' /\ Keeps(WroteReader)
        /\ \A b \in Coroutines : Keeps(Turns(b))
        /\ ~Absent(ready, strand, Turns(Reader))
    BY <1>0, <2>1, Completes
  <2>3. ~reading
    BY <1>0, <2>2 DEF TurnInv
  <2> QED BY <1>0, <2>1, <2>2, <2>3 DEF OtherTypes, TurnInv, PcInv, TimedInv, WroteInv, Keeps
<1>11. CASE CancelledHandler
  <2>1. /\ RunsOnStrand(Handler("cancelledRead", Reader), <<>>, <<Resume(Reader)>>)
        /\ UNCHANGED <<pc, lock, readFlag, reading, armed, cancelled>>
    BY <1>11 DEF CancelledHandler, device
  <2>2. /\ QueueOK' /\ Keeps(Timeout) /\ Keeps(WroteReader)
        /\ \A b \in Coroutines : Keeps(Turns(b))
    BY <1>0, <2>1, Completes
  <2> QED BY <1>0, <2>1, <2>2 DEF OtherTypes, TurnInv, PcInv, TimedInv, WroteInv, Keeps
<1>12. CASE TimeoutHandler
  <2>1. /\ RunsOnStrand(Handler("timeout", Reader), <<>>, Cancelled)
        /\ reading' = FALSE /\ UNCHANGED <<pc, lock, readFlag, armed, cancelled>>
    BY <1>12 DEF TimeoutHandler
  <2>2. /\ QueueOK' /\ Keeps(WroteReader)
        /\ \A b \in Coroutines :
              IF b = Reader /\ reading
              THEN Absent(ready, strand, Turns(b)) => Once(ready', strand', Turns(b))
              ELSE Keeps(Turns(b))
    BY <1>0, <2>1, TimesOut DEF OtherTypes
  <2>3. TurnInv'
    BY <1>0, <2>1, <2>2 DEF TurnInv, Keeps, PcInv
  <2> QED BY <1>0, <2>1, <2>2, <2>3 DEF OtherTypes, PcInv, TimedInv, WroteInv, Keeps
<1>13. CASE StrandBusy
  <2>1. QueueOK' /\ \A S : Keeps(S)
    BY <1>0, <1>13, LinesUp
  <2>2. UNCHANGED <<pc, lock, readFlag, reading, armed, cancelled>>
    BY <1>13 DEF StrandBusy, device
  <2> QED BY <1>0, <2>1, <2>2 DEF OtherTypes, TurnInv, PcInv, TimedInv, WroteInv, Keeps
<1>14. ASSUME NEW a \in Coroutines, NEW l \in {"lock", "call"}, a = Reader <=> l = "lock",
              pc[a] = "away", Goto(a, l), ready' = Append(ready, Resume(a)),
              UNCHANGED <<strand, lock, readFlag, device, cancelled>>
       PROVE  OtherTypes' /\ QueueOK' /\ TurnInv' /\ PcInv' /\ TimedInv' /\ WroteInv'
  <2>1. /\ pc' = [pc EXCEPT ![a] = l]
        /\ UNCHANGED <<strand, lock, readFlag, reading, armed, cancelled>>
    BY <1>14 DEF Goto, device
  <2>2. ready' = Append(ready, Handler("resume", a))
    BY <1>14 DEF Resume
  <2>3. /\ QueueOK' /\ Keeps(Timeout) /\ Keeps(WroteReader)
        /\ \A b \in Coroutines : b # a => Keeps(Turns(b))
        /\ Absent(ready, strand, Turns(a)) => Once(ready', strand', Turns(a))
    BY <1>0, <2>1, <2>2, Posts DEF Kinds
  <2>4. OtherTypes' /\ PcInv'
    BY <1>0, <1>14, <2>1 DEF OtherTypes, PcInv
  <2>5. TurnInv'
    BY <1>0, <1>14, <2>1, <2>3 DEF TurnInv, Keeps, OtherTypes, PcInv
  <2> QED BY <1>0, <2>1, <2>3, <2>4, <2>5 DEF TimedInv, WroteInv, Keeps
<1>15. CASE CallRead
  BY <1>0, <1>14, <1>15 DEF CallRead
<1>16. ASSUME NEW w \in Writers, CallWrite(w)
       PROVE  OtherTypes' /\ QueueOK' /\ TurnInv' /\ PcInv' /\ TimedInv' /\ WroteInv'
  BY <1>0, <1>14, <1>16 DEF CallWrite
<1>17. CASE PacketArrives
  <2>1. /\ reading /\ reading' = FALSE /\ ready' = Append(ready, Handler("packet", Reader))
        /\ UNCHANGED <<pc, strand, lock, readFlag, armed, cancelled>>
    BY <1>17 DEF PacketArrives
  <2>2. /\ QueueOK' /\ Keeps(WroteReader)
        /\ \A b \in Coroutines : b # Reader => Keeps(Turns(b))
        /\ Absent(ready, strand, Turns(Reader)) => Once(ready', strand', Turns(Reader))
    BY <1>0, <2>1, Posts DEF Kinds
  <2>3. TurnInv'
    BY <1>0, <2>1, <2>2 DEF TurnInv, Keeps, PcInv
  <2> QED BY <1>0, <2>1, <2>2, <2>3 DEF OtherTypes, PcInv, TimedInv, WroteInv, Keeps
<1>18. CASE TimerExpires
  <2>1. /\ armed' = FALSE /\ ready' = Append(ready, Handler("timeout", Reader))
        /\ UNCHANGED <<pc, strand, lock, readFlag, reading, cancelled>>
    BY <1>18 DEF TimerExpires
  <2>2. /\ QueueOK' /\ Keeps(WroteReader) /\ ~Absent(ready', strand', Timeout)
        /\ \A b \in Coroutines : Keeps(Turns(b))
    BY <1>0, <2>1, Posts DEF Kinds
  <2> QED BY <1>0, <2>1, <2>2 DEF OtherTypes, TurnInv, PcInv, TimedInv, WroteInv, Keeps
<1> QED
  BY <1>0, <1>1, <1>2, <1>3, <1>4, <1>5, <1>6, <1>7, <1>8, <1>9, <1>10, <1>11, <1>12, <1>13,
     <1>15, <1>16, <1>17, <1>18
     DEF Next, RunReady, ReaderStep, WriterStep, HandlerStep

-----------------------------------------------------------------------------
(* The theorems.                                                            *)

LEMMA Invariance == Spec => []Inv
<1>1. Inv /\ [Next]_vars => Inv'
  BY StepInv
<1> QED BY InitInv, <1>1, PTL DEF Spec

\* The queues, the coroutines and the device have their types, for any writers.
THEOREM TypeCorrect == Spec => []TypeOK
<1>1. Inv => TypeOK
  BY DEF Inv
<1> QED BY Invariance, <1>1, PTL

\* However many sessions write, one operation at a time is outstanding on the
\* device (Tun::read, Tun::write).
THEOREM OneOperationAtATime == Spec => []OneOperation
<1>1. Inv => OneOperation
  <2> SUFFICES ASSUME Inv PROVE OneOperation
    OBVIOUS
  <2>1. PcInv /\ Reader \in Coroutines
    BY DEF Inv, Coroutines
  <2> QED BY <2>1 DEF PcInv, OneOperation
<1> QED BY Invariance, <1>1, PTL

\* A read that is in progress can end: its coroutine has a handler, or the
\* pending read has a timer that runs or has expired.
THEOREM ReadsCanEnd == Spec => []ReadEnds
<1>1. Inv => ReadEnds
  <2> SUFFICES ASSUME Inv, pc[Reader] = "reading"
               PROVE  \/ reading /\ (armed \/ Pending(Handler("timeout", Reader)))
                      \/ \E k \in {"packet", "cancelledRead", "resume"} :
                            Pending(Handler(k, Reader))
    BY DEF ReadEnds
  <2>1. Reader \in Coroutines
    BY DEF Coroutines
  <2>2. CASE reading
    <3>1. armed \/ ~NoneIn(ready, Timeout) \/ ~NoneIn(strand, Timeout)
      BY <2>2 DEF Inv, TimedInv, Absent
    <3> QED BY <2>2, <3>1 DEF NoneIn, Timeout, Pending, Contains
  <2>3. CASE ~reading
    <3>1. OneIn(ready, Turns(Reader)) \/ OneIn(strand, Turns(Reader))
      BY <2>1, <2>3 DEF Inv, TurnInv, Once
    <3>2. PICK h \in Turns(Reader) : Pending(h)
      BY <3>1 DEF OneIn, Pending, Contains
    <3>3. h.kind \in Kinds /\ h = Handler(h.kind, Reader)
          /\ h.kind \notin {"timeout", "strand"}
      BY DEF Turns, Handlers, Handler
    <3>4. h # Handler("wrote", Reader)
      BY <3>2 DEF Inv, WroteInv, Absent, NoneIn, WroteReader, Pending, Contains
    <3>5. h.kind \in {"packet", "cancelledRead", "resume"}
      BY <3>3, <3>4 DEF Kinds
    <3> QED BY <3>2, <3>3, <3>5
  <2> QED BY <2>2, <2>3
<1> QED BY Invariance, <1>1, PTL

\* The handlers of one queue that resume a, counted.
LEMMA ResumptionsCount ==
  ASSUME NEW q \in Seq(Handlers), NEW a \in Coroutines
  PROVE  /\ NoneIn(q, Turns(a)) => Cardinality(Resumptions(q, a)) = 0
         /\ OneIn(q, Turns(a)) => Cardinality(Resumptions(q, a)) = 1
<1>1. Resumptions(q, a) = {i \in 1 .. Len(q) : q[i] \in Turns(a)}
  BY DEF Resumptions, Turns
<1>2. ASSUME NoneIn(q, Turns(a))
      PROVE  Cardinality(Resumptions(q, a)) = 0
  <2>1. Resumptions(q, a) = {}
    BY <1>1, <1>2 DEF NoneIn
  <2> QED BY <2>1, FS_EmptySet
<1>3. ASSUME OneIn(q, Turns(a))
      PROVE  Cardinality(Resumptions(q, a)) = 1
  <2>1. PICK i \in 1 .. Len(q) :
            q[i] \in Turns(a) /\ \A j \in 1 .. Len(q) : j # i => q[j] \notin Turns(a)
    BY <1>3 DEF OneIn
  <2>2. Resumptions(q, a) = {i}
    BY <1>1, <2>1
  <2> QED BY <2>2, FS_Singleton
<1> QED BY <1>2, <1>3

\* No coroutine is resumed twice, however a cancel, the timer and a packet race.
THEOREM NobodyResumedTwice == Spec => []ResumedOnce
<1>1. Inv => ResumedOnce
  <2> SUFFICES ASSUME Inv, NEW a \in Coroutines
               PROVE  Cardinality(Resumptions(ready, a))
                        + Cardinality(Resumptions(strand, a)) <= 1
    BY DEF ResumedOnce
  <2>1. ready \in Seq(Handlers) /\ strand \in Seq(Handlers)
    BY TypesSplit DEF Inv, QueueOK
  <2>2. Absent(ready, strand, Turns(a)) \/ Once(ready, strand, Turns(a))
    BY DEF Inv, TurnInv
  <2> QED BY <2>1, <2>2, ResumptionsCount DEF Absent, Once
<1> QED BY Invariance, <1>1, PTL

-----------------------------------------------------------------------------
(* The order of the handlers.  An expired timer of a read is run before the *)
(* reader comes to its next read, because everything that could let it      *)
(* overtake is behind that handler: the reader itself, or a writer that     *)
(* holds lock_ and has to pass the strand before it lets go of it.          *)

\* In queue q all elements of S are ahead of all elements of U; some element of
\* S is ahead of every element of U.
Behind(q, S, U) == \A i, j \in 1 .. Len(q) : q[i] \in S /\ q[j] \in U => i < j
Led(q, S, U) ==
    \A j \in 1 .. Len(q) : q[j] \in U => \E i \in 1 .. Len(q) : i < j /\ q[i] \in S

\* Queue r has the elements of S and U that q has, in the same order.
Orders(q, r, S, U) ==
    /\ NoneIn(r, S) <=> NoneIn(q, S)
    /\ OneIn(r, S) <=> OneIn(q, S)
    /\ Behind(q, S, U) => Behind(r, S, U)
    /\ Led(q, S, U) => Led(r, S, U)

\* A step leaves the handlers of X where they are.
Undisturbed(X) ==
    \A S, U \in SUBSET X : Orders(ready, ready', S, U) /\ Orders(strand, strand', S, U)

Completions == {h \in Handlers : h.kind \notin {"resume", "strand"}}
Packet == {Handler("packet", Reader)}
Ending == {Handler("packet", Reader), Handler("cancelledRead", Reader)}
Wrote(w) == {Handler("wrote", w)}
Turning == {StrandTurn}
Resumed(a) == {Resume(a)}

\* The timer of a read has expired and its handler has not run.
Expired == ~Absent(ready, strand, Timeout)

\* A strand that has something to run waits for its turn.
StrandInv == strand # <<>> => ~NoneIn(ready, Turning)

\* Only a write in progress completes, and only a read in progress ends.
KindInv ==
    /\ \A w \in Writers : ~Absent(ready, strand, Wrote(w)) => pc[w] = "writing"
    /\ ~Absent(ready, strand, Ending) => pc[Reader] = "reading"

\* The timer runs for a read that is pending or has just got its packet, and
\* there is one at a time.
ArmedInv ==
    /\ armed => /\ pc[Reader] = "reading" /\ ~Expired
                /\ reading \/ ~Absent(ready, strand, Packet)
    /\ Expired => Once(ready, strand, Timeout)

\* The completion of w's write is behind the expired timer.
Late(w) ==
    /\ ~Absent(ready, strand, Wrote(w))
    /\ Behind(ready, Timeout, Wrote(w)) /\ Behind(strand, Timeout, Wrote(w))
    /\ NoneIn(strand, Wrote(w)) \/ NoneIn(ready, Timeout)

\* A writer keeps lock_ until the expired timer has had its turn.
WriteBehind ==
    \A w \in Writers : Expired /\ lock = w => pc[w] = "locked" \/ Late(w)

\* The next handler is that of a writer that is about to take lock_.
WriterNext == \E w \in Writers : pc[w] = "lock" /\ HeadIs(Resume(w))

\* The reader does not get lock_ before the expired timer has had its turn.
ReadBehind ==
    Expired =>
        /\ pc[Reader] # "locked"
        /\ pc[Reader] = "lock" /\ lock = Free =>
              \/ WriterNext
              \/ /\ Behind(ready, Timeout, Resumed(Reader))
                 /\ strand # <<>> => Led(ready, Turning, Resumed(Reader))

OrderInv == StrandInv /\ KindInv /\ ArmedInv /\ WriteBehind /\ ReadBehind

-----------------------------------------------------------------------------
(* The order of a queue, under the operations of a queue.                   *)

LEMMA NoneOrders ==
  ASSUME NEW q, NEW S, NEW U, NoneIn(q, U)
  PROVE  Behind(q, S, U) /\ Led(q, S, U)
BY Zenon DEF NoneIn, Behind, Led

LEMMA AppendOrders ==
  ASSUME NEW H, NEW q \in Seq(H), NEW h \in H, NEW S, NEW U
  PROVE  /\ Behind(q, S, U) /\ h \notin S => Behind(Append(q, h), S, U)
         /\ Led(q, S, U) /\ (h \notin U \/ ~NoneIn(q, S)) => Led(Append(q, h), S, U)
<1> DEFINE c == Append(q, h)
<1>1. /\ Len(q) \in Nat /\ Len(c) = Len(q) + 1 /\ c[Len(q) + 1] = h
      /\ \A i \in 1 .. Len(q) : i \in 1 .. Len(c) /\ c[i] = q[i] /\ i < Len(q) + 1
      /\ \A i \in 1 .. Len(c) : i \in 1 .. Len(q) \/ i = Len(q) + 1
  BY SMT
<1> HIDE DEF c
<1>2. Behind(q, S, U) /\ h \notin S => Behind(c, S, U)
  BY <1>1, Zenon DEF Behind
<1>3. ASSUME Led(q, S, U), h \notin U \/ ~NoneIn(q, S) PROVE Led(c, S, U)
  <2> SUFFICES ASSUME NEW j \in 1 .. Len(c), c[j] \in U
               PROVE  \E i \in 1 .. Len(c) : i < j /\ c[i] \in S
    BY DEF Led
  <2>1. CASE j \in 1 .. Len(q)
    BY <1>1, <1>3, <2>1, Zenon DEF Led
  <2>2. CASE j = Len(q) + 1
    <3>1. PICK i \in 1 .. Len(q) : q[i] \in S
      BY <1>1, <1>3, <2>2, Zenon DEF NoneIn
    <3> QED BY <1>1, <2>2, <3>1, Zenon
  <2> QED BY <1>1, <2>1, <2>2
<1> QED BY <1>2, <1>3 DEF c

LEMMA TailOrders ==
  ASSUME NEW H, NEW q \in Seq(H), q # <<>>, NEW S, NEW U
  PROVE  /\ Behind(q, S, U) => Behind(Tail(q), S, U)
         /\ Led(q, S, U) /\ Head(q) \notin S => Led(Tail(q), S, U)
         /\ Behind(q, S, U) /\ Head(q) \in U => NoneIn(q, S)
         /\ Led(q, S, U) => Head(q) \notin U
<1> DEFINE t == Tail(q)
<1>1. /\ Len(q) \in Nat /\ 1 \in 1 .. Len(q) /\ q[1] = Head(q)
      /\ \A i \in 1 .. Len(t) : i + 1 \in 1 .. Len(q) /\ t[i] = q[i + 1]
      /\ \A i \in 1 .. Len(q) : i = 1 \/ (i - 1 \in 1 .. Len(t) /\ q[i] = t[i - 1])
      /\ \A i \in 1 .. Len(q) : ~(i < 1)
      /\ \A i, j \in 1 .. Len(t) : i + 1 < j + 1 => i < j
      /\ \A i \in 1 .. Len(q), j \in 1 .. Len(t) : i < j + 1 /\ i # 1 => i - 1 < j
  BY SMT
<1> HIDE DEF t
<1>2. Behind(q, S, U) => Behind(t, S, U)
  BY <1>1, Zenon DEF Behind
<1>3. ASSUME Led(q, S, U), Head(q) \notin S PROVE Led(t, S, U)
  <2> SUFFICES ASSUME NEW j \in 1 .. Len(t), t[j] \in U
               PROVE  \E i \in 1 .. Len(t) : i < j /\ t[i] \in S
    BY DEF Led
  <2>1. PICK i \in 1 .. Len(q) : i < j + 1 /\ q[i] \in S
    BY <1>1, <1>3, Zenon DEF Led
  <2>2. i # 1
    BY <1>1, <1>3, <2>1
  <2>3. i - 1 \in 1 .. Len(t) /\ t[i - 1] = q[i] /\ i - 1 < j
    BY <1>1, <2>1, <2>2
  <2> QED BY <2>1, <2>3
<1>4. Behind(q, S, U) /\ Head(q) \in U => NoneIn(q, S)
  BY <1>1, Zenon DEF Behind, NoneIn
<1>5. Led(q, S, U) => Head(q) \notin U
  BY <1>1, Zenon DEF Led
<1> QED BY <1>2, <1>3, <1>4, <1>5 DEF t

\* What has nothing of S and U can be put before or behind a queue, or be taken
\* from its front.
LEMMA PrefixOrders ==
  ASSUME NEW H, NEW a \in Seq(H), NEW q \in Seq(H), NEW S, NEW U, NoneIn(a, S), NoneIn(a, U)
  PROVE  Orders(q, a \o q, S, U)
<1> DEFINE c == a \o q
<1>1. /\ Len(a) \in Nat /\ Len(c) = Len(a) + Len(q)
      /\ \A i \in 1 .. Len(a) : c[i] = a[i]
      /\ \A i \in 1 .. Len(q) : Len(a) + i \in 1 .. Len(c) /\ c[Len(a) + i] = q[i]
      /\ \A i \in 1 .. Len(c) : i \in 1 .. Len(a) \/
             (i - Len(a) \in 1 .. Len(q) /\ i = Len(a) + (i - Len(a)))
      /\ \A i, j \in 1 .. Len(q) : i < j <=> Len(a) + i < Len(a) + j
  BY SMT
<1>2. /\ NoneIn(c, S) <=> NoneIn(q, S)
      /\ OneIn(c, S) <=> OneIn(q, S)
  <2>1. ~OneIn(a, S)
    BY DEF OneIn, NoneIn
  <2> QED BY <2>1, ConcatHas
<1> HIDE DEF c
<1>3. ASSUME NEW i \in 1 .. Len(c), c[i] \in S \/ c[i] \in U
      PROVE  \E k \in 1 .. Len(q) : i = Len(a) + k /\ c[i] = q[k]
  <2>1. i \notin 1 .. Len(a)
    BY <1>1, <1>3 DEF NoneIn
  <2> QED BY <1>1, <2>1, Zenon
<1>4. ASSUME Behind(q, S, U) PROVE Behind(c, S, U)
  <2> SUFFICES ASSUME NEW i \in 1 .. Len(c), NEW j \in 1 .. Len(c), c[i] \in S, c[j] \in U
               PROVE  i < j
    BY DEF Behind
  <2>1. PICK k \in 1 .. Len(q) : i = Len(a) + k /\ c[i] = q[k]
    BY <1>3
  <2>2. PICK l \in 1 .. Len(q) : j = Len(a) + l /\ c[j] = q[l]
    BY <1>3
  <2>3. k < l
    BY <1>4, <2>1, <2>2 DEF Behind
  <2> QED BY <1>1, <2>1, <2>2, <2>3
<1>5. ASSUME Led(q, S, U) PROVE Led(c, S, U)
  <2> SUFFICES ASSUME NEW j \in 1 .. Len(c), c[j] \in U
               PROVE  \E i \in 1 .. Len(c) : i < j /\ c[i] \in S
    BY DEF Led
  <2>1. PICK l \in 1 .. Len(q) : j = Len(a) + l /\ c[j] = q[l]
    BY <1>3
  <2>2. PICK k \in 1 .. Len(q) : k < l /\ q[k] \in S
    BY <1>5, <2>1 DEF Led
  <2>3. Len(a) + k \in 1 .. Len(c) /\ Len(a) + k < j /\ c[Len(a) + k] \in S
    BY <1>1, <2>1, <2>2
  <2> QED BY <2>3
<1> QED BY <1>2, <1>4, <1>5 DEF c, Orders

LEMMA SuffixOrders ==
  ASSUME NEW H, NEW a \in Seq(H), NEW q \in Seq(H), NEW S, NEW U, NoneIn(a, S), NoneIn(a, U)
  PROVE  Orders(q, q \o a, S, U)
<1> DEFINE c == q \o a
<1>1. /\ \A i \in 1 .. Len(q) : i \in 1 .. Len(c) /\ c[i] = q[i]
      /\ \A i \in 1 .. Len(c) : i \in 1 .. Len(q) \/ \E k \in 1 .. Len(a) : c[i] = a[k]
  <2>1. /\ Len(q) \in Nat /\ Len(a) \in Nat /\ Len(c) = Len(q) + Len(a)
        /\ \A i \in 1 .. Len(q) : i \in 1 .. Len(c) /\ c[i] = q[i]
        /\ \A i \in 1 .. Len(c) : i \in 1 .. Len(q) \/
             (i - Len(q) \in 1 .. Len(a) /\ c[i] = a[i - Len(q)])
    BY SMT
  <2> HIDE DEF c
  <2> QED BY <2>1, Zenon
<1>2. /\ NoneIn(c, S) <=> NoneIn(q, S)
      /\ OneIn(c, S) <=> OneIn(q, S)
  <2>1. ~OneIn(a, S)
    BY DEF OneIn, NoneIn
  <2> QED BY <2>1, ConcatHas
<1> HIDE DEF c
<1>3. ASSUME NEW i \in 1 .. Len(c), c[i] \in S \/ c[i] \in U
      PROVE  i \in 1 .. Len(q)
  BY <1>1, <1>3, Zenon DEF NoneIn
<1>4. Behind(q, S, U) => Behind(c, S, U)
  BY <1>1, <1>3, Zenon DEF Behind
<1>5. Led(q, S, U) => Led(c, S, U)
  BY <1>1, <1>3, Zenon DEF Led
<1> QED BY <1>2, <1>4, <1>5 DEF c, Orders

LEMMA FrontOrders ==
  ASSUME NEW H, NEW q \in Seq(H), q # <<>>, NEW S, NEW U, Head(q) \notin S, Head(q) \notin U
  PROVE  Orders(q, Tail(q), S, U)
BY HeadHas, TailOrders DEF Orders

LEMMA LastOrders ==
  ASSUME NEW H, NEW q \in Seq(H), NEW h \in H, NEW S, NEW U, h \notin S, h \notin U
  PROVE  Orders(q, Append(q, h), S, U)
BY AppendHas, AppendOrders DEF Orders

LEMMA OrdersCompose ==
  ASSUME NEW q, NEW r, NEW s, NEW S, NEW U, Orders(q, r, S, U), Orders(r, s, S, U)
  PROVE  Orders(q, s, S, U)
BY DEF Orders

LEMMA SameOrders == \A q, S, U : Orders(q, q, S, U)
BY DEF Orders

-----------------------------------------------------------------------------
(* The order of the queues in the steps of Tun.                              *)

\* The head of the ready queue runs, or nothing leaves it, and h may be posted.
LEMMA HeadOrders ==
  ASSUME QueueOK, NEW h \in Handlers, NEW X, h \notin X, UNCHANGED strand,
         \/ ready' = ready
         \/ ready' = Append(ready, h)
         \/ ready # <<>> /\ Head(ready) \notin X
            /\ (ready' = Tail(ready) \/ ready' = Append(Tail(ready), h))
  PROVE  Undisturbed(X)
<1> SUFFICES ASSUME NEW S \in SUBSET X, NEW U \in SUBSET X
             PROVE  Orders(ready, ready', S, U)
  BY SameOrders DEF Undisturbed
<1>1. CASE ready' = ready
  BY <1>1, SameOrders
<1>2. CASE ready' = Append(ready, h)
  BY <1>2, LastOrders DEF QueueOK
<1>3. CASE ready # <<>> /\ Head(ready) \notin X
  <2>1. Tail(ready) \in Seq(Handlers) /\ Orders(ready, Tail(ready), S, U)
    BY <1>3, FrontOrders, HeadHas DEF QueueOK
  <2>2. Orders(Tail(ready), Append(Tail(ready), h), S, U)
    BY <2>1, LastOrders
  <2>3. Orders(ready, Append(Tail(ready), h), S, U)
    BY <2>1, <2>2, OrdersCompose
  <2>4. \/ ready' = ready \/ ready' = Append(ready, h)
        \/ ready' = Tail(ready) \/ ready' = Append(Tail(ready), h)
    OBVIOUS
  <2> QED BY <1>1, <1>2, <2>1, <2>3, <2>4, Zenon
<1> QED BY <1>1, <1>2, <1>3, Zenon

\* The head of the ready queue posts itself on the strand.
LEMMA DivertOrders ==
  ASSUME QueueOK, NEW a \in Coroutines, HeadIs(Resume(a)),
         strand' = Append(strand, Resume(a)),
         ready' = Tail(ready) \o (IF strand = <<>> THEN <<StrandTurn>> ELSE <<>>)
  PROVE  /\ Undisturbed(Completions)
         /\ StrandInv => StrandInv'
<1>1. /\ ready # <<>> /\ Head(ready) = Resume(a) /\ Tail(ready) \in Seq(Handlers)
      /\ Resume(a) \in Handlers /\ Resume(a) \notin Completions
      /\ StrandTurn \in Handlers /\ StrandTurn \notin Completions
      /\ Resume(a) # StrandTurn
  BY HeadHas, ResumeFacts, TurnFacts DEF HeadIs, QueueOK, Completions, Resume, StrandTurn, Handler
<1>2. \/ strand = <<>> /\ ready' = Append(Tail(ready), StrandTurn)
      \/ strand # <<>> /\ ready' = Tail(ready)
  BY <1>1, AppendIsConcat, SMT
<1>3. ASSUME NEW S \in SUBSET Completions, NEW U \in SUBSET Completions
      PROVE  Orders(ready, ready', S, U) /\ Orders(strand, strand', S, U)
  <2>1. Orders(ready, Tail(ready), S, U)
    BY <1>1, <1>3, FrontOrders DEF QueueOK
  <2>2. Orders(Tail(ready), Append(Tail(ready), StrandTurn), S, U)
    BY <1>1, <1>3, LastOrders
  <2>3. Orders(strand, strand', S, U)
    BY <1>1, <1>3, LastOrders DEF QueueOK
  <2> QED BY <1>2, <2>1, <2>2, <2>3, OrdersCompose
<1>4. StrandInv => StrandInv'
  <2>1. ~NoneIn(Append(Tail(ready), StrandTurn), Turning)
    BY <1>1, AppendHas DEF Turning
  <2>2. NoneIn(Tail(ready), Turning) <=> NoneIn(ready, Turning)
    BY <1>1, HeadHas DEF Turning, QueueOK
  <2> QED BY <1>2, <2>1, <2>2 DEF StrandInv
<1> QED BY <1>3, <1>4 DEF Undisturbed

\* A handler h that runs on the strand and leaves g and p in the ready queue.
LEMMA StrandOrders ==
  ASSUME QueueOK, NEW h \in Handlers, NEW g \in Seq(Handlers), NEW p \in Seq(Handlers),
         RunsOnStrand(h, g, p)
  PROVE  /\ StrandInv'
         /\ \A X : /\ h \notin X /\ StrandTurn \notin X /\ NoneIn(g, X) /\ NoneIn(p, X)
                        => Undisturbed(X)
                   /\ h \in X /\ StrandTurn \notin X /\ NoneIn(g, X) /\ NoneIn(p, X)
                      /\ Once(ready, strand, X) => Absent(ready', strand', X)
         /\ g # <<>> => ready' # <<>> /\ Head(ready') = Head(g)
<1> DEFINE t == Tail(ready)
           turn == <<StrandTurn>>
<1>0. turn \in Seq(Handlers)
  BY TurnFacts
<1>1. /\ ready # <<>> /\ t \in Seq(Handlers) /\ strand' \in Seq(Handlers)
      /\ \/ Head(ready) = h /\ strand = <<>> /\ strand' = strand
         \/ Head(ready) = StrandTurn /\ strand # <<>> /\ Head(strand) = h /\ strand' = Tail(strand)
      /\ \/ ready' = g \o t \o p /\ strand' = <<>>
         \/ ready' = g \o t \o p \o turn
         \/ ready' = g \o turn \o t \o p
  <2>1. ready # <<>> /\ (Head(ready) = h \/ Head(ready) = StrandTurn)
    BY DEF RunsOnStrand, HeadIs
  <2>2. t \in Seq(Handlers) /\ (strand # <<>> => Tail(strand) \in Seq(Handlers))
    BY <2>1, HeadHas DEF QueueOK
  <2>3. /\ \/ Head(ready) = h /\ strand = <<>> /\ strand' = strand
           \/ Head(ready) = StrandTurn /\ strand # <<>> /\ Head(strand) = h
              /\ strand' = Tail(strand)
        /\ \/ ready' = g \o t \o p /\ strand' = <<>>
           \/ ready' = g \o t \o p \o turn
           \/ ready' = g \o turn \o t \o p
    <3> HIDE DEF t, turn
    <3> QED BY Zenon DEF RunsOnStrand, HeadIs, t, turn
  <2> QED BY <2>1, <2>2, <2>3 DEF QueueOK
<1> HIDE DEF t, turn
<1>2. /\ g \o t \in Seq(Handlers) /\ g \o turn \in Seq(Handlers) /\ turn \o t \in Seq(Handlers)
      /\ g \o t \o p \in Seq(Handlers) /\ g \o turn \o t \in Seq(Handlers)
      /\ g \o turn \o t \o p \in Seq(Handlers)
  <2>1. g \o t \in Seq(Handlers) /\ g \o turn \in Seq(Handlers) /\ turn \o t \in Seq(Handlers)
    BY <1>0, <1>1, ConcatHas
  <2>2. g \o t \o p \in Seq(Handlers) /\ g \o turn \o t \in Seq(Handlers)
    BY <2>1, <1>1, ConcatHas
  <2>3. g \o turn \o t \o p \in Seq(Handlers)
    BY <2>2, ConcatHas
  <2> QED BY <2>1, <2>2, <2>3
<1>3. StrandInv'
  <2>1. ~NoneIn(turn, Turning)
    BY SingleHas DEF turn, Turning
  <2>2. ~NoneIn(g \o t \o p \o turn, Turning)
    BY <1>0, <1>2, <2>1, ConcatHas
  <2>3. ~NoneIn(g \o turn, Turning)
    BY <1>0, <2>1, ConcatHas
  <2>4. ~NoneIn(g \o turn \o t, Turning)
    BY <1>1, <1>2, <2>3, ConcatHas
  <2>5. ~NoneIn(g \o turn \o t \o p, Turning)
    BY <1>2, <2>4, ConcatHas
  <2> QED BY <1>1, <2>2, <2>5 DEF StrandInv
\* What only g, p and the turn were put around is in its order.
<1>4. ASSUME NEW S, NEW U, StrandTurn \notin S, StrandTurn \notin U,
             NoneIn(g, S), NoneIn(p, S), NoneIn(g, U), NoneIn(p, U)
      PROVE  Orders(t, ready', S, U)
  <2>1. NoneIn(turn, S) /\ NoneIn(turn, U)
    BY <1>4, SingleHas DEF turn
  <2>2. NoneIn(g \o turn, S) /\ NoneIn(g \o turn, U)
    BY <1>0, <1>4, <2>1, ConcatHas
  <2>3. Orders(t, g \o t, S, U) /\ Orders(t, g \o turn \o t, S, U)
    BY <1>1, <1>2, <1>4, <2>2, PrefixOrders
  <2>4. /\ Orders(g \o t, g \o t \o p, S, U)
        /\ Orders(g \o turn \o t, g \o turn \o t \o p, S, U)
        /\ Orders(g \o t \o p, g \o t \o p \o turn, S, U)
    BY <1>0, <1>2, <1>4, <2>1, SuffixOrders
  <2>5. Orders(t, g \o t \o p, S, U) /\ Orders(t, g \o turn \o t \o p, S, U)
    BY <2>3, <2>4, OrdersCompose
  <2>6. Orders(t, g \o t \o p \o turn, S, U)
    BY <2>4, <2>5, OrdersCompose
  <2> QED BY <1>1, <2>5, <2>6, Zenon
<1>5. ASSUME NEW X, h \notin X, StrandTurn \notin X, NoneIn(g, X), NoneIn(p, X)
      PROVE  Undisturbed(X)
  <2> SUFFICES ASSUME NEW S \in SUBSET X, NEW U \in SUBSET X
               PROVE  Orders(ready, ready', S, U) /\ Orders(strand, strand', S, U)
    BY DEF Undisturbed
  <2>1. /\ NoneIn(g, S) /\ NoneIn(p, S) /\ NoneIn(g, U) /\ NoneIn(p, U)
        /\ h \notin S /\ h \notin U /\ StrandTurn \notin S /\ StrandTurn \notin U
    BY <1>5 DEF NoneIn
  <2>2. Orders(t, ready', S, U)
    BY <1>4, <2>1
  <2>3. Orders(ready, t, S, U)
    BY <1>1, <2>1, FrontOrders DEF QueueOK, t
  <2>4. Orders(strand, strand', S, U)
    BY <1>1, <2>1, FrontOrders, SameOrders DEF QueueOK
  <2> QED BY <2>2, <2>3, <2>4, OrdersCompose
<1>6. ASSUME NEW X, h \in X, StrandTurn \notin X, NoneIn(g, X), NoneIn(p, X),
             Once(ready, strand, X)
      PROVE  Absent(ready', strand', X)
  <2>1. NoneIn(ready', X) <=> NoneIn(t, X)
    BY <1>4, <1>6 DEF Orders
  <2>2. /\ NoneIn(ready, X) <=> Head(ready) \notin X /\ NoneIn(t, X)
        /\ OneIn(ready, X) => (Head(ready) \in X /\ NoneIn(t, X)) \/ Head(ready) \notin X
    BY <1>1, HeadHas DEF QueueOK, t
  <2>3. strand # <<>> => /\ NoneIn(strand, X) <=> Head(strand) \notin X /\ NoneIn(Tail(strand), X)
                         /\ OneIn(strand, X) /\ Head(strand) \in X => NoneIn(Tail(strand), X)
    BY HeadHas DEF QueueOK, OneIn, NoneIn
  <2>4. NoneIn(<<>>, X) /\ ~OneIn(<<>>, X)
    BY EmptyHas
  <2> QED BY <1>1, <1>6, <2>1, <2>2, <2>3, <2>4 DEF Once, Absent
<1>7. ASSUME g # <<>> PROVE ready' # <<>> /\ Head(ready') = Head(g)
  <2>1. ASSUME NEW q \in Seq(Handlers), NEW r \in Seq(Handlers), q # <<>>
        PROVE  q \o r # <<>> /\ Head(q \o r) = Head(q)
    BY <2>1, SMT
  <2>2. g \o t # <<>> /\ Head(g \o t) = Head(g) /\ g \o turn # <<>> /\ Head(g \o turn) = Head(g)
    BY <1>0, <1>1, <1>7, <2>1
  <2>3. /\ g \o t \o p # <<>> /\ Head(g \o t \o p) = Head(g)
        /\ g \o turn \o t # <<>> /\ Head(g \o turn \o t) = Head(g)
    BY <1>1, <1>2, <2>1, <2>2
  <2>4. /\ g \o t \o p \o turn # <<>> /\ Head(g \o t \o p \o turn) = Head(g)
        /\ g \o turn \o t \o p # <<>> /\ Head(g \o turn \o t \o p) = Head(g)
    BY <1>0, <1>2, <2>1, <2>3
  <2> QED BY <1>1, <2>3, <2>4, Zenon
<1> QED BY <1>3, <1>5, <1>6, <1>7

\* What an undisturbed set says of the queues and of the timer.
LEMMA Frame ==
  ASSUME NEW X, Undisturbed(X)
  PROVE  /\ \A S \in SUBSET X :
              /\ NoneIn(ready', S) <=> NoneIn(ready, S)
              /\ NoneIn(strand', S) <=> NoneIn(strand, S)
              /\ Absent(ready', strand', S) <=> Absent(ready, strand, S)
              /\ Once(ready', strand', S) <=> Once(ready, strand, S)
         /\ Timeout \subseteq X => (Expired' <=> Expired)
         /\ \A w : Timeout \subseteq X /\ Wrote(w) \subseteq X /\ Late(w) => Late(w)'
<1>1. ASSUME NEW S \in SUBSET X
      PROVE  /\ NoneIn(ready', S) <=> NoneIn(ready, S)
             /\ NoneIn(strand', S) <=> NoneIn(strand, S)
             /\ Absent(ready', strand', S) <=> Absent(ready, strand, S)
             /\ Once(ready', strand', S) <=> Once(ready, strand, S)
  BY DEF Undisturbed, Orders, Absent, Once
<1>2. Timeout \subseteq X => (Expired' <=> Expired)
  BY <1>1 DEF Expired, Timeout, Handler
<1>3. ASSUME NEW w, Timeout \subseteq X, Wrote(w) \subseteq X, Late(w) PROVE Late(w)'
  <2>1. /\ Behind(ready, Timeout, Wrote(w)) => Behind(ready', Timeout, Wrote(w))
        /\ Behind(strand, Timeout, Wrote(w)) => Behind(strand', Timeout, Wrote(w))
    BY <1>3 DEF Undisturbed, Orders
  <2>2. /\ NoneIn(strand', Wrote(w)) <=> NoneIn(strand, Wrote(w))
        /\ NoneIn(ready', Timeout) <=> NoneIn(ready, Timeout)
        /\ Absent(ready', strand', Wrote(w)) <=> Absent(ready, strand, Wrote(w))
    BY <1>1, <1>3
  <2>3. Timeout' = Timeout /\ Wrote(w)' = Wrote(w)
    BY DEF Timeout, Wrote, Handler
  <2> QED BY <1>3, <2>1, <2>2, <2>3 DEF Late
<1> QED BY <1>1, <1>2, <1>3

LEMMA CompletionFacts ==
  /\ Timeout \subseteq Completions /\ Packet \subseteq Completions
  /\ Ending \subseteq Completions
  /\ \A w \in Writers : Wrote(w) \subseteq Completions
  /\ \A a \in Coroutines : Resume(a) \in Handlers \ Completions
  /\ StrandTurn \in Handlers \ Completions
BY HandlerFacts, ResumeFacts, TurnFacts DEF Timeout, Packet, Ending, Wrote, Completions,
   Handler, Resume, StrandTurn, Kinds, Coroutines, Handlers

\* Handlers are told apart by what they do and for whom.
LEMMA Distinct ==
  /\ \A k, l, a, b : Handler(k, a) = Handler(l, b) <=> k = l /\ a = b
  /\ \A a, b : Resume(a) = Resume(b) <=> a = b
  /\ \A a : Resume(a) # StrandTurn
  /\ Packet \subseteq Ending
BY DEF Handler, Resume, StrandTurn, Packet, Ending

\* What leads to a resumption of a coroutine is one of its turns.
LEMMA TurnsOf ==
  /\ Packet \subseteq Turns(Reader) /\ Ending \subseteq Turns(Reader)
  /\ \A w \in Writers : Wrote(w) \subseteq Turns(w)
  /\ \A a \in Coroutines : Resume(a) \in Turns(a)
BY HandlerFacts, ResumeFacts DEF Packet, Ending, Wrote, Kinds, Coroutines

-----------------------------------------------------------------------------
(* The order is kept.                                                       *)

\* What a handler that does not resume anybody leaves alone.
Others(h) == Completions \ {h}

\* The coroutine that runs is out of the queues for now.
LEMMA HeadIsOut ==
  ASSUME Inv, NEW a \in Coroutines, HeadIs(Resume(a))
  PROVE  /\ ready # <<>> /\ Head(ready) = Resume(a)
         /\ \A S \in SUBSET Turns(a) : Resume(a) \notin S => Absent(ready, strand, S)
         /\ a = Reader => ~reading
<1>1. /\ ready # <<>> /\ Head(ready) = Resume(a) /\ Resume(a) \in Turns(a)
      /\ ready \in Seq(Handlers) /\ strand \in Seq(Handlers)
  BY TypesSplit, TurnsOf DEF HeadIs, Inv, QueueOK
<1>2. ~NoneIn(ready, Turns(a))
  BY <1>1, HeadHas
<1>3. OneIn(ready, Turns(a)) /\ NoneIn(strand, Turns(a)) /\ (a = Reader => ~reading)
  BY <1>2 DEF Inv, TurnInv, Absent, Once
<1>4. NoneIn(Tail(ready), Turns(a))
  BY <1>1, <1>3, HeadHas
<1>5. ASSUME NEW S \in SUBSET Turns(a), Resume(a) \notin S PROVE Absent(ready, strand, S)
  <2>1. NoneIn(Tail(ready), S) /\ NoneIn(strand, S)
    BY <1>3, <1>4 DEF NoneIn
  <2> QED BY <1>1, <1>5, <2>1, HeadHas DEF Absent
<1> QED BY <1>1, <1>3, <1>5

\* While the reader holds lock_ to read, nobody waits behind an expired timer.
LEMMA ReaderReads ==
  ASSUME PcInv, pc[Reader] = "reading"
  PROVE  lock = Reader /\ WriteBehind /\ ReadBehind
BY TunAssumption DEF PcInv, WriteBehind, ReadBehind, Coroutines

\* A step that disturbs no completion and ends no read and no write.
LEMMA KindFrame ==
  ASSUME KindInv, Undisturbed(Completions),
         \A a \in Coroutines : pc[a] \in {"writing", "reading"} => pc'[a] = pc[a]
  PROVE  KindInv'
<1>1. /\ \A w \in Writers : w \in Coroutines /\ Wrote(w)' = Wrote(w)
      /\ Reader \in Coroutines /\ Ending' = Ending
  BY DEF Coroutines, Wrote, Ending, Handler
<1>2. /\ \A w \in Writers :
            Absent(ready', strand', Wrote(w)) <=> Absent(ready, strand, Wrote(w))
      /\ Absent(ready', strand', Ending) <=> Absent(ready, strand, Ending)
  BY Frame, CompletionFacts
<1> QED BY <1>1, <1>2 DEF KindInv

\* A step that disturbs no completion and neither starts nor ends a read.
LEMMA ArmedFrame ==
  ASSUME ArmedInv, Undisturbed(Completions), armed' => armed, armed' => reading' = reading,
         pc[Reader] = "reading" => pc'[Reader] = "reading"
  PROVE  ArmedInv'
<1>1. /\ Expired' <=> Expired
      /\ Once(ready', strand', Timeout) <=> Once(ready, strand, Timeout)
      /\ Absent(ready', strand', Packet) <=> Absent(ready, strand, Packet)
  BY Frame, CompletionFacts
<1>2. Packet' = Packet /\ Timeout' = Timeout
  BY DEF Packet, Timeout, Handler
<1> QED BY <1>1, <1>2 DEF ArmedInv

\* A coroutine that tries lock_.
LEMMA LockOrder ==
  ASSUME Inv, OrderInv, NEW a \in Coroutines, LockStep(a)
  PROVE  OrderInv'
<1>0. /\ QueueOK /\ OtherTypes /\ PcInv /\ Reader \in Coroutines /\ Free \notin Coroutines
      /\ \A w \in Writers : w \in Coroutines /\ w # Reader
  BY TypesSplit, TunAssumption DEF Inv, Coroutines
<1>1. /\ HeadIs(Resume(a)) /\ pc[a] = "lock" /\ UNCHANGED <<strand, readFlag, reading, armed>>
      /\ ready' = ready \/ ready' = Append(Tail(ready), Resume(a))
      /\ \/ lock # Free /\ UNCHANGED <<pc, lock>>
         \/ lock = Free /\ lock' = a /\ pc' = [pc EXCEPT ![a] = "locked"]
  BY DEF LockStep, Runs, Goto, device
<1>2. ready # <<>> /\ Head(ready) = Resume(a)
  BY <1>1 DEF HeadIs
<1>3. Undisturbed(Completions \union {StrandTurn})
  <2>1. Resume(a) \in Handlers /\ Resume(a) \notin Completions \union {StrandTurn}
    BY CompletionFacts, Distinct
  <2> QED BY <1>0, <1>1, <1>2, <2>1, HeadOrders
<1>4. Undisturbed(Completions)
  BY <1>3 DEF Undisturbed
<1>5. StrandInv'
  <2>1. NoneIn(ready', Turning) <=> NoneIn(ready, Turning)
    BY <1>3, Frame DEF Turning
  <2>2. Turning' = Turning
    BY DEF Turning, StrandTurn, Handler
  <2> QED BY <1>1, <2>1, <2>2 DEF OrderInv, StrandInv
<1>6. KindInv'
  BY <1>0, <1>1, <1>4, KindFrame DEF OrderInv, OtherTypes
<1>7. ArmedInv'
  BY <1>0, <1>1, <1>4, ArmedFrame DEF OrderInv, OtherTypes
<1>8. /\ Expired' <=> Expired
      /\ \A w \in Writers : Late(w) => Late(w)'
  BY <1>4, Frame, CompletionFacts
<1>9. WriteBehind'
  BY <1>0, <1>1, <1>8 DEF OrderInv, WriteBehind, OtherTypes
<1>10. ReadBehind'
  <2>1. ASSUME lock = Free, a = Reader, Expired PROVE FALSE
    <3>1. ~WriterNext
      BY <1>0, <1>2, <2>1, Distinct DEF WriterNext, HeadIs
    <3>2. /\ Behind(ready, Timeout, Resumed(Reader))
          /\ strand # <<>> => Led(ready, Turning, Resumed(Reader))
      BY <1>1, <2>1, <3>1 DEF OrderInv, ReadBehind
    <3>3. NoneIn(ready, Timeout) /\ strand = <<>>
      BY <1>0, <1>2, <2>1, <3>2, TailOrders DEF QueueOK, Resumed
    <3>4. NoneIn(strand, Timeout)
      BY <3>3, EmptyHas
    <3> QED BY <2>1, <3>3, <3>4 DEF Expired, Absent
  <2>2. CASE lock # Free /\ UNCHANGED <<pc, lock>>
    BY <1>8, <2>2 DEF OrderInv, ReadBehind
  <2>3. CASE lock = Free /\ lock' = a /\ pc' = [pc EXCEPT ![a] = "locked"]
    <3>1. CASE Expired
      BY <1>0, <2>1, <2>3, <3>1 DEF OrderInv, ReadBehind, OtherTypes
    <3>2. CASE ~Expired
      BY <1>8, <3>2 DEF ReadBehind
    <3> QED BY <3>1, <3>2
  <2> QED BY <1>1, <2>2, <2>3
<1> QED BY <1>5, <1>6, <1>7, <1>9, <1>10 DEF OrderInv

\* A read begins.
LEMMA StartReadOrder ==
  ASSUME Inv, Inv', OrderInv, StartRead
  PROVE  OrderInv'
<1>0. /\ QueueOK /\ OtherTypes /\ PcInv' /\ Reader \in Coroutines
      /\ \A w \in Writers : w \in Coroutines /\ w # Reader
  BY TypesSplit, TunAssumption DEF Inv, Coroutines
<1>1. /\ HeadIs(Resume(Reader)) /\ ready' = Tail(ready) /\ UNCHANGED strand
      /\ pc[Reader] = "locked" /\ pc' = [pc EXCEPT ![Reader] = "reading"]
      /\ reading' = TRUE /\ armed' = TRUE
  BY DEF StartRead, Runs, Goto
<1>2. Undisturbed(Completions \union {StrandTurn})
  <2>1. Resume(Reader) \in Handlers /\ Resume(Reader) \notin Completions \union {StrandTurn}
    BY <1>0, CompletionFacts, Distinct
  <2> QED BY <1>0, <1>1, <2>1, HeadOrders DEF HeadIs
<1>3. Undisturbed(Completions)
  BY <1>2 DEF Undisturbed
<1>4. StrandInv'
  <2>1. NoneIn(ready', Turning) <=> NoneIn(ready, Turning)
    BY <1>2, Frame DEF Turning
  <2>2. Turning' = Turning
    BY DEF Turning, StrandTurn, Handler
  <2> QED BY <1>1, <2>1, <2>2 DEF OrderInv, StrandInv
<1>5. KindInv'
  BY <1>0, <1>1, <1>3, KindFrame DEF OrderInv, OtherTypes
<1>6. ~Expired'
  BY <1>1, <1>3, Frame, CompletionFacts DEF OrderInv, ReadBehind
<1>7. ArmedInv'
  BY <1>0, <1>1, <1>6 DEF ArmedInv, OtherTypes
<1> QED BY <1>4, <1>5, <1>6, <1>7 DEF OrderInv, WriteBehind, ReadBehind

\* A read returns.
LEMMA ReadReturnsOrder ==
  ASSUME Inv, OrderInv, ReadReturns
  PROVE  OrderInv'
<1>0. /\ QueueOK /\ OtherTypes /\ Reader \in Coroutines /\ Free \notin Coroutines
      /\ \A w \in Writers : w \in Coroutines /\ w # Reader
  BY TypesSplit, TunAssumption DEF Inv, Coroutines
<1>1. /\ HeadIs(Resume(Reader)) /\ ready' = Tail(ready)
      /\ UNCHANGED <<strand, reading, armed>>
      /\ pc[Reader] = "reading" /\ pc' = [pc EXCEPT ![Reader] = "away"] /\ lock' = Free
  BY DEF ReadReturns, Runs, Goto, device
<1>2. Undisturbed(Completions \union {StrandTurn})
  <2>1. Resume(Reader) \in Handlers /\ Resume(Reader) \notin Completions \union {StrandTurn}
    BY <1>0, CompletionFacts, Distinct
  <2> QED BY <1>0, <1>1, <2>1, HeadOrders DEF HeadIs
<1>3. Undisturbed(Completions)
  BY <1>2 DEF Undisturbed
<1>4. StrandInv'
  <2>1. NoneIn(ready', Turning) <=> NoneIn(ready, Turning)
    BY <1>2, Frame DEF Turning
  <2>2. Turning' = Turning
    BY DEF Turning, StrandTurn, Handler
  <2> QED BY <1>1, <2>1, <2>2 DEF OrderInv, StrandInv
<1>5. ~reading /\ Absent(ready, strand, Ending) /\ Absent(ready, strand, Packet)
  <2>1. Resume(Reader) \notin Ending /\ Resume(Reader) \notin Packet
    BY <1>0, CompletionFacts
  <2> QED BY <1>0, <1>1, <2>1, HeadIsOut, TurnsOf
<1>6. /\ \A w \in Writers :
            Absent(ready', strand', Wrote(w)) <=> Absent(ready, strand, Wrote(w))
      /\ Absent(ready', strand', Ending)
      /\ Once(ready', strand', Timeout) <=> Once(ready, strand, Timeout)
      /\ Expired' <=> Expired
  BY <1>3, <1>5, Frame, CompletionFacts
<1>7. ~armed'
  BY <1>1, <1>5 DEF OrderInv, ArmedInv
<1>8. Ending' = Ending /\ Timeout' = Timeout /\ \A w : Wrote(w)' = Wrote(w)
  BY DEF Ending, Timeout, Wrote, Handler
<1>9. KindInv'
  BY <1>0, <1>1, <1>6, <1>8 DEF OrderInv, KindInv, OtherTypes
<1>10. ArmedInv'
  BY <1>6, <1>7, <1>8 DEF OrderInv, ArmedInv
<1>11. WriteBehind' /\ ReadBehind'
  BY <1>0, <1>1 DEF WriteBehind, ReadBehind, OtherTypes
<1> QED BY <1>4, <1>9, <1>10, <1>11 DEF OrderInv

\* A writer looks at the flag.
LEMMA CheckFlagOrder ==
  ASSUME Inv, Inv', OrderInv, NEW w \in Writers, CheckFlag(w)
  PROVE  OrderInv'
<1>0. /\ QueueOK /\ OtherTypes /\ PcInv /\ Reader \in Coroutines /\ Free \notin Coroutines
      /\ \A v \in Writers : v \in Coroutines /\ v # Reader
  BY TypesSplit, TunAssumption DEF Inv, Coroutines
<1>1. /\ HeadIs(Resume(w)) /\ pc[w] = "call" /\ UNCHANGED <<lock, readFlag, reading, armed>>
      /\ \/ readFlag /\ pc' = [pc EXCEPT ![w] = "strand"]
         \/ ~readFlag /\ pc' = [pc EXCEPT ![w] = "lock"] /\ UNCHANGED queues
  BY DEF CheckFlag, Runs, Goto, device
<1>2. Undisturbed(Completions) /\ StrandInv'
  <2>1. CASE readFlag
    BY <1>0, <1>1, <2>1, DivertOrders DEF CheckFlag, OrderInv
  <2>2. CASE ~readFlag
    BY <1>1, <2>2, SameOrders DEF Undisturbed, queues, OrderInv, StrandInv, Turning, StrandTurn
  <2> QED BY <2>1, <2>2
<1>3. KindInv'
  BY <1>0, <1>1, <1>2, KindFrame DEF OrderInv, OtherTypes
<1>4. ArmedInv'
  BY <1>0, <1>1, <1>2, ArmedFrame DEF OrderInv, OtherTypes
<1>5. WriteBehind' /\ ReadBehind'
  <2>1. CASE readFlag
    <3>1. PcInv' /\ pc'[Reader] = "reading"
      BY <1>0, <1>1, <2>1 DEF PcInv, Inv, OtherTypes
    <3>2. lock = Reader /\ lock' = lock
      BY <1>0, <1>1, <2>1 DEF PcInv
    <3> QED BY <1>0, <3>1, <3>2 DEF WriteBehind, ReadBehind
  <2>2. CASE ~readFlag
    <3>1. /\ Expired' <=> Expired
          /\ \A v \in Writers : Late(v) => Late(v)'
      BY <1>2, Frame, CompletionFacts
    <3>2. WriteBehind'
      BY <1>0, <1>1, <2>2, <3>1 DEF OrderInv, WriteBehind, OtherTypes
    <3>3. WriterNext'
      BY <1>0, <1>1, <2>2 DEF WriterNext, HeadIs, queues, OtherTypes, Resume, Handler
    <3>4. ReadBehind'
      BY <1>0, <1>1, <2>2, <3>1, <3>3 DEF OrderInv, ReadBehind, OtherTypes
    <3> QED BY <3>2, <3>4
  <2> QED BY <2>1, <2>2
<1> QED BY <1>2, <1>3, <1>4, <1>5 DEF OrderInv

\* A cancel makes at most the end of the read ready.
LEMMA CancelledOrders ==
  ASSUME reading \in BOOLEAN, Reader \in Coroutines
  PROVE  /\ Cancelled \in Seq(Handlers)
         /\ NoneIn(Cancelled, Others(Handler("cancelledRead", Reader)))
         /\ ~reading => NoneIn(Cancelled, Completions)
<1> DEFINE h == Handler("cancelledRead", Reader)
<1>1. NoneIn(<<h>>, Others(h))
  BY SingleHas DEF Others
<1>2. \A X : NoneIn(<<>>, X)
  BY EmptyHas
<1> HIDE DEF h
<1>3. NoneIn(Cancelled, Others(h)) /\ (~reading => NoneIn(Cancelled, Completions))
  BY <1>1, <1>2 DEF Cancelled, h
<1> QED BY <1>3, CancelledHas DEF h

\* A writer on the strand cancels the read.
LEMMA CancelReadOrder ==
  ASSUME Inv, OrderInv, NEW w \in Writers, CancelRead(w)
  PROVE  OrderInv'
<1>0. /\ QueueOK /\ OtherTypes /\ PcInv /\ Reader \in Coroutines /\ Free \notin Coroutines
      /\ \A v \in Writers : v \in Coroutines /\ v # Reader
  BY TypesSplit, TunAssumption DEF Inv, Coroutines
<1>1. /\ pc[w] = "strand" /\ RunsOnStrand(Resume(w), <<Resume(w)>>, Cancelled)
      /\ pc' = [pc EXCEPT ![w] = "lock"] /\ armed' = FALSE /\ reading' = FALSE
      /\ UNCHANGED <<lock, readFlag>>
  BY DEF CancelRead, Goto
<1> DEFINE c == Handler("cancelledRead", Reader)
           g == <<Resume(w)>>
<1>2. /\ Cancelled \in Seq(Handlers) /\ NoneIn(Cancelled, Others(c))
      /\ ~reading => NoneIn(Cancelled, Completions)
  BY <1>0, CancelledOrders DEF OtherTypes
<1>3. /\ Resume(w) \in Handlers /\ g \in Seq(Handlers) /\ g # <<>> /\ Head(g) = Resume(w)
      /\ Resume(w) \notin Completions /\ Resume(w) \notin Others(c)
      /\ StrandTurn \notin Completions /\ StrandTurn \notin Others(c)
      /\ NoneIn(g, Completions) /\ NoneIn(g, Others(c))
  BY <1>0, CompletionFacts, SingleHas DEF Others
<1> HIDE DEF g, c
<1>4. /\ StrandInv' /\ Undisturbed(Others(c))
      /\ ~reading => Undisturbed(Completions)
      /\ ready' # <<>> /\ Head(ready') = Resume(w)
  BY <1>0, <1>1, <1>2, <1>3, StrandOrders DEF g
<1>5. /\ Timeout \subseteq Others(c)
      /\ \A v \in Writers : Wrote(v) \subseteq Others(c)
  BY CompletionFacts, Distinct DEF Others, c, Timeout, Wrote
<1>6. /\ Expired' <=> Expired
      /\ Once(ready', strand', Timeout) <=> Once(ready, strand, Timeout)
      /\ \A v \in Writers : /\ Late(v) => Late(v)'
                            /\ Absent(ready', strand', Wrote(v)) <=> Absent(ready, strand, Wrote(v))
  BY <1>4, <1>5, Frame
<1>7. Ending' = Ending /\ Timeout' = Timeout /\ \A v : Wrote(v)' = Wrote(v)
  BY DEF Ending, Timeout, Wrote, Handler
<1>8. ~Absent(ready', strand', Ending) => pc'[Reader] = "reading"
  <2>1. CASE reading
    BY <1>0, <1>1, <2>1 DEF PcInv, OtherTypes
  <2>2. CASE ~reading
    <3>1. Absent(ready', strand', Ending) <=> Absent(ready, strand, Ending)
      BY <1>4, <2>2, Frame, CompletionFacts
    <3> QED BY <1>0, <1>1, <3>1 DEF OrderInv, KindInv, OtherTypes
  <2> QED BY <2>1, <2>2
<1>9. KindInv'
  BY <1>0, <1>1, <1>6, <1>7, <1>8 DEF OrderInv, KindInv, OtherTypes
<1>10. ArmedInv'
  BY <1>1, <1>6, <1>7 DEF OrderInv, ArmedInv
<1>11. WriteBehind'
  BY <1>0, <1>1, <1>6 DEF OrderInv, WriteBehind, OtherTypes
<1>12. ReadBehind'
  <2>1. Resume(w)' = Resume(w)
    BY DEF Resume, Handler
  <2>2. WriterNext'
    BY <1>0, <1>1, <1>4, <2>1 DEF WriterNext, HeadIs, OtherTypes
  <2> QED BY <1>0, <1>1, <1>6, <2>2 DEF OrderInv, ReadBehind, OtherTypes
<1> QED BY <1>4, <1>9, <1>10, <1>11, <1>12 DEF OrderInv

\* A write begins: its completion is posted behind everything that is ready.
LEMMA StartWriteOrder ==
  ASSUME Inv, OrderInv, NEW w \in Writers, StartWrite(w)
  PROVE  OrderInv'
<1>0. /\ QueueOK /\ OtherTypes /\ PcInv /\ Reader \in Coroutines /\ Free \notin Coroutines
      /\ \A v \in Writers : v \in Coroutines /\ v # Reader
  BY TypesSplit, TunAssumption DEF Inv, Coroutines
<1> DEFINE h == Handler("wrote", w)
<1>1. /\ HeadIs(Resume(w)) /\ pc[w] = "locked" /\ ready' = Append(Tail(ready), h)
      /\ pc' = [pc EXCEPT ![w] = "writing"] /\ UNCHANGED <<strand, lock, readFlag, reading, armed>>
  BY DEF StartWrite, Runs, Goto, device
<1>2. /\ h \in Handlers /\ Wrote(w) = {h} /\ h \notin Timeout
      /\ Timeout \subseteq Others(h) /\ Packet \subseteq Others(h) /\ Ending \subseteq Others(h)
      /\ \A v \in Writers : v # w => Wrote(v) \subseteq Others(h)
      /\ Resume(w) \notin Wrote(w) /\ Wrote(w) \subseteq Turns(w)
      /\ Resume(w) \notin Others(h) /\ StrandTurn # h /\ Resume(w) # StrandTurn
  <2>1. h \in Handlers
    BY <1>0, HandlerFacts DEF Kinds
  <2>2. Resume(w) # h /\ StrandTurn # h
    BY Distinct DEF Resume, StrandTurn
  <2> QED BY <1>0, <2>1, <2>2, CompletionFacts, Distinct, TurnsOf
          DEF Others, Timeout, Packet, Ending, Wrote
<1>3. ready # <<>> /\ Head(ready) = Resume(w) /\ Absent(ready, strand, Wrote(w))
  BY <1>0, <1>1, <1>2, HeadIsOut
<1> HIDE DEF h
<1>4. Undisturbed(Others(h) \union {StrandTurn})
  <2>1. h \notin Others(h) \union {StrandTurn} /\ Resume(w) \notin Others(h) \union {StrandTurn}
    BY <1>2 DEF Others
  <2> QED BY <1>0, <1>1, <1>2, <1>3, <2>1, HeadOrders
<1>5. Undisturbed(Others(h))
  BY <1>4 DEF Undisturbed
<1>6. StrandInv'
  <2>1. NoneIn(ready', Turning) <=> NoneIn(ready, Turning)
    BY <1>4, Frame DEF Turning
  <2>2. Turning' = Turning
    BY DEF Turning, StrandTurn, Handler
  <2> QED BY <1>1, <2>1, <2>2 DEF OrderInv, StrandInv
<1>7. /\ Expired' <=> Expired
      /\ Once(ready', strand', Timeout) <=> Once(ready, strand, Timeout)
      /\ Absent(ready', strand', Packet) <=> Absent(ready, strand, Packet)
      /\ Absent(ready', strand', Ending) <=> Absent(ready, strand, Ending)
      /\ \A v \in Writers :
            v # w => (Absent(ready', strand', Wrote(v)) <=> Absent(ready, strand, Wrote(v)))
  BY <1>2, <1>5, Frame
<1>8. Ending' = Ending /\ Packet' = Packet /\ Timeout' = Timeout /\ \A v : Wrote(v)' = Wrote(v)
  BY DEF Ending, Packet, Timeout, Wrote, Handler
<1>9. KindInv'
  BY <1>0, <1>1, <1>7, <1>8 DEF OrderInv, KindInv, OtherTypes
<1>10. ArmedInv'
  BY <1>0, <1>1, <1>7, <1>8 DEF OrderInv, ArmedInv, OtherTypes
<1>11. lock = w /\ lock' = w
  BY <1>0, <1>1 DEF PcInv
<1>12. Late(w)'
  <2>1. Tail(ready) \in Seq(Handlers) /\ NoneIn(Tail(ready), Wrote(w)) /\ NoneIn(strand, Wrote(w))
    BY <1>0, <1>3, HeadHas DEF Absent, QueueOK
  <2>2. Behind(Tail(ready), Timeout, Wrote(w)) /\ Behind(strand, Timeout, Wrote(w))
    BY <2>1, NoneOrders
  <2>3. Behind(ready', Timeout, Wrote(w)) /\ ~NoneIn(ready', Wrote(w))
    BY <1>1, <1>2, <2>1, <2>2, AppendOrders, AppendHas
  <2> QED BY <1>1, <1>8, <2>1, <2>2, <2>3 DEF Late, Absent
<1>13. WriteBehind' /\ ReadBehind'
  BY <1>0, <1>1, <1>7, <1>11, <1>12 DEF OrderInv, WriteBehind, ReadBehind, OtherTypes
<1> QED BY <1>6, <1>9, <1>10, <1>13 DEF OrderInv

\* While an expired timer is pending, no write completes.
LEMMA NoWriteCompletes ==
  ASSUME Inv, OrderInv, NEW w \in Writers, lock = w, pc[w] = "writing",
         RunsOnStrand(Handler("wrote", w), <<>>, <<Resume(w)>>)
  PROVE  ~Expired
<1> SUFFICES ASSUME Expired PROVE FALSE
  OBVIOUS
<1> DEFINE h == Handler("wrote", w)
<1>1. Late(w) /\ h \in Wrote(w) /\ QueueOK
  BY TypesSplit DEF OrderInv, WriteBehind, Wrote, Inv
<1>2. \/ strand = <<>> /\ ready # <<>> /\ Head(ready) = h
      \/ strand # <<>> /\ Head(strand) = h
  BY Zenon DEF RunsOnStrand, HeadIs
<1> HIDE DEF h
<1>3. CASE strand = <<>> /\ ready # <<>> /\ Head(ready) = h
  <2>1. NoneIn(ready, Timeout)
    BY <1>1, <1>3, TailOrders DEF Late, QueueOK
  <2> QED BY <1>3, <2>1, EmptyHas DEF Expired, Absent
<1>4. CASE strand # <<>> /\ Head(strand) = h
  <2>1. NoneIn(strand, Timeout) /\ ~NoneIn(strand, Wrote(w))
    BY <1>1, <1>4, TailOrders, HeadHas DEF Late, QueueOK
  <2> QED BY <1>1, <2>1 DEF Expired, Absent, Late
<1> QED BY <1>2, <1>3, <1>4

LEMMA WroteOrder ==
  ASSUME Inv, OrderInv, NEW w \in Writers, WroteHandler(w)
  PROVE  OrderInv'
<1>0. /\ QueueOK /\ OtherTypes /\ PcInv /\ Reader \in Coroutines /\ Free \notin Coroutines
      /\ \A v \in Writers : v \in Coroutines /\ v # Reader
  BY TypesSplit, TunAssumption DEF Inv, Coroutines
<1> DEFINE h == Handler("wrote", w)
           p == <<Resume(w)>>
<1>1. RunsOnStrand(h, <<>>, p) /\ UNCHANGED <<pc, lock, readFlag, reading, armed>>
  BY DEF WroteHandler, device
<1>2. pc[w] = "writing" /\ lock = w /\ ~Expired
  <2>1. h \in Handlers /\ h \in Wrote(w) /\ StrandTurn \notin Wrote(w)
    BY <1>0, HandlerFacts, Distinct DEF Kinds, Wrote, StrandTurn
  <2>2. p \in Seq(Handlers) /\ <<>> \in Seq(Handlers)
    BY <1>0, CompletionFacts
  <2> HIDE DEF h, p
  <2>3. ~Absent(ready, strand, Wrote(w))
    BY <1>0, <1>1, <2>1, <2>2, StrandMoves
  <2>4. pc[w] = "writing"
    BY <2>3 DEF OrderInv, KindInv
  <2>5. lock = w
    BY <1>0, <2>4 DEF PcInv
  <2> QED BY <1>1, <2>4, <2>5, NoWriteCompletes DEF h, p
<1>3. /\ h \in Handlers /\ h \notin Others(h) /\ StrandTurn \notin Others(h)
      /\ p \in Seq(Handlers) /\ <<>> \in Seq(Handlers)
      /\ NoneIn(p, Others(h)) /\ NoneIn(<<>>, Others(h))
      /\ Timeout \subseteq Others(h) /\ Packet \subseteq Others(h) /\ Ending \subseteq Others(h)
      /\ \A v \in Writers : v # w => Wrote(v) \subseteq Others(h)
  <2>1. h \in Handlers
    BY <1>0, HandlerFacts DEF Kinds
  <2>2. p \in Seq(Handlers) /\ <<>> \in Seq(Handlers) /\ NoneIn(p, Completions)
    BY <1>0, CompletionFacts, SingleHas
  <2>3. NoneIn(<<>>, Others(h)) /\ NoneIn(p, Others(h))
    BY <2>2, EmptyHas DEF NoneIn, Others
  <2> QED BY <1>0, <2>1, <2>2, <2>3, CompletionFacts, Distinct
          DEF Others, Timeout, Packet, Ending, Wrote
<1> HIDE DEF h, p
<1>4. StrandInv' /\ Undisturbed(Others(h))
  BY <1>0, <1>1, <1>3, StrandOrders
<1>5. /\ ~Expired'
      /\ Absent(ready', strand', Packet) <=> Absent(ready, strand, Packet)
      /\ Absent(ready', strand', Ending) <=> Absent(ready, strand, Ending)
      /\ \A v \in Writers :
            v # w => (Absent(ready', strand', Wrote(v)) <=> Absent(ready, strand, Wrote(v)))
  BY <1>2, <1>3, <1>4, Frame
<1>6. Ending' = Ending /\ Packet' = Packet /\ Timeout' = Timeout /\ \A v : Wrote(v)' = Wrote(v)
  BY DEF Ending, Packet, Timeout, Wrote, Handler
<1>7. KindInv'
  BY <1>0, <1>1, <1>2, <1>5, <1>6 DEF OrderInv, KindInv
<1>8. ArmedInv'
  BY <1>1, <1>5, <1>6 DEF OrderInv, ArmedInv
<1> QED BY <1>4, <1>5, <1>7, <1>8 DEF OrderInv, WriteBehind, ReadBehind

\* A write returns.
LEMMA WriteReturnsOrder ==
  ASSUME Inv, OrderInv, NEW w \in Writers, WriteReturns(w)
  PROVE  OrderInv'
<1>0. /\ QueueOK /\ OtherTypes /\ PcInv /\ Reader \in Coroutines /\ Free \notin Coroutines
      /\ \A v \in Writers : v \in Coroutines /\ v # Reader
  BY TypesSplit, TunAssumption DEF Inv, Coroutines
<1>1. /\ HeadIs(Resume(w)) /\ pc[w] = "writing" /\ ready' = Tail(ready)
      /\ pc' = [pc EXCEPT ![w] = "away"] /\ lock' = Free
      /\ UNCHANGED <<strand, readFlag, reading, armed>>
  BY DEF WriteReturns, Runs, Goto, device
<1>2. Undisturbed(Completions \union {StrandTurn})
  <2>1. Resume(w) \in Handlers /\ Resume(w) \notin Completions \union {StrandTurn}
    BY <1>0, CompletionFacts, Distinct
  <2> QED BY <1>0, <1>1, <2>1, HeadOrders DEF HeadIs
<1>3. Undisturbed(Completions)
  BY <1>2 DEF Undisturbed
<1>4. StrandInv'
  <2>1. NoneIn(ready', Turning) <=> NoneIn(ready, Turning)
    BY <1>2, Frame DEF Turning
  <2>2. Turning' = Turning
    BY DEF Turning, StrandTurn, Handler
  <2> QED BY <1>1, <2>1, <2>2 DEF OrderInv, StrandInv
<1>5. Absent(ready, strand, Wrote(w))
  <2>1. Resume(w) \notin Wrote(w)
    BY <1>0, CompletionFacts
  <2> QED BY <1>0, <1>1, <2>1, HeadIsOut, TurnsOf
<1>6. ~Expired
  BY <1>0, <1>1, <1>5 DEF OrderInv, WriteBehind, Late, PcInv
<1>7. /\ ~Expired'
      /\ \A v \in Writers :
            Absent(ready', strand', Wrote(v)) <=> Absent(ready, strand, Wrote(v))
      /\ Absent(ready', strand', Ending) <=> Absent(ready, strand, Ending)
  BY <1>3, <1>6, Frame, CompletionFacts
<1>8. Ending' = Ending /\ \A v : Wrote(v)' = Wrote(v)
  BY DEF Ending, Wrote, Handler
<1>9. KindInv'
  BY <1>0, <1>1, <1>5, <1>7, <1>8 DEF OrderInv, KindInv, OtherTypes
<1>10. ArmedInv'
  BY <1>0, <1>1, <1>3, ArmedFrame DEF OrderInv, OtherTypes
<1> QED BY <1>4, <1>7, <1>9, <1>10 DEF OrderInv, WriteBehind, ReadBehind

\* The handler of the read, with a packet or as cancelled.
LEMMA ReadHandlerOrder ==
  ASSUME Inv, OrderInv, PacketHandler \/ CancelledHandler
  PROVE  OrderInv'
<1>0. /\ QueueOK /\ OtherTypes /\ PcInv /\ Reader \in Coroutines /\ Free \notin Coroutines
      /\ \A v \in Writers : v \in Coroutines /\ v # Reader
  BY TypesSplit, TunAssumption DEF Inv, Coroutines
<1>1. PICK k \in {"packet", "cancelledRead"} :
         /\ RunsOnStrand(Handler(k, Reader), <<>>, <<Resume(Reader)>>)
         /\ k = "packet" => armed' = FALSE
         /\ armed' => armed
         /\ UNCHANGED <<pc, lock, readFlag, reading>>
  BY DEF PacketHandler, CancelledHandler, device
<1> DEFINE h == Handler(k, Reader)
           p == <<Resume(Reader)>>
<1>2. /\ h \in Handlers /\ h \in Ending /\ h \notin Others(h) /\ StrandTurn \notin Others(h)
      /\ StrandTurn \notin Ending
      /\ p \in Seq(Handlers) /\ <<>> \in Seq(Handlers)
      /\ NoneIn(p, Others(h)) /\ NoneIn(<<>>, Others(h))
      /\ Timeout \subseteq Others(h) /\ (k # "packet" => Packet \subseteq Others(h))
      /\ \A v \in Writers : Wrote(v) \subseteq Others(h)
  <2>1. h \in Handlers /\ h \in Ending
    BY <1>0, HandlerFacts DEF Kinds, Ending
  <2>2. p \in Seq(Handlers) /\ <<>> \in Seq(Handlers) /\ NoneIn(p, Completions)
    BY <1>0, CompletionFacts, SingleHas
  <2>3. NoneIn(<<>>, Others(h)) /\ NoneIn(p, Others(h))
    BY <2>2, EmptyHas DEF NoneIn, Others
  <2> QED BY <1>0, <2>1, <2>2, <2>3, CompletionFacts, Distinct
          DEF Others, Timeout, Packet, Wrote
<1> HIDE DEF h, p
<1>3. StrandInv' /\ Undisturbed(Others(h)) /\ ~Absent(ready, strand, Ending)
  <2>1. RunsOnStrand(h, <<>>, p)
    BY <1>1 DEF h, p
  <2> QED BY <1>0, <1>2, <2>1, StrandOrders, StrandMoves
<1>4. pc[Reader] = "reading" /\ pc' = pc /\ lock = Reader /\ lock' = lock
  BY <1>1, <1>3, <1>0, ReaderReads DEF OrderInv, KindInv
<1>5. /\ Expired' <=> Expired
      /\ Once(ready', strand', Timeout) <=> Once(ready, strand, Timeout)
      /\ k # "packet" => (Absent(ready', strand', Packet) <=> Absent(ready, strand, Packet))
      /\ \A v \in Writers : Absent(ready', strand', Wrote(v)) <=> Absent(ready, strand, Wrote(v))
  BY <1>2, <1>3, Frame
<1>6. Ending' = Ending /\ Packet' = Packet /\ Timeout' = Timeout /\ \A v : Wrote(v)' = Wrote(v)
  BY DEF Ending, Packet, Timeout, Wrote, Handler
<1>7. KindInv'
  BY <1>4, <1>5, <1>6 DEF OrderInv, KindInv
<1>8. ArmedInv'
  BY <1>1, <1>4, <1>5, <1>6 DEF OrderInv, ArmedInv
<1>9. WriteBehind' /\ ReadBehind'
  BY <1>0, <1>4 DEF WriteBehind, ReadBehind
<1> QED BY <1>3, <1>7, <1>8, <1>9 DEF OrderInv

\* The handler of the timer: nothing is expired any more.
LEMMA TimeoutOrder ==
  ASSUME Inv, OrderInv, TimeoutHandler
  PROVE  OrderInv'
<1>0. /\ QueueOK /\ OtherTypes /\ PcInv /\ Reader \in Coroutines /\ Free \notin Coroutines
      /\ \A v \in Writers : v \in Coroutines /\ v # Reader
  BY TypesSplit, TunAssumption DEF Inv, Coroutines
<1> DEFINE h == Handler("timeout", Reader)
           c == Handler("cancelledRead", Reader)
           X == Others(c) \ {h}
<1>1. RunsOnStrand(h, <<>>, Cancelled) /\ reading' = FALSE /\ UNCHANGED <<pc, lock, readFlag, armed>>
  BY DEF TimeoutHandler
<1>2. /\ h \in Handlers /\ Timeout = {h} /\ h \notin X /\ StrandTurn \notin X
      /\ StrandTurn \notin Timeout /\ h \notin Completions \ {h}
      /\ StrandTurn \notin Completions \ {h}
      /\ Timeout \subseteq Others(c)
      /\ \A v \in Writers : Wrote(v) \subseteq X
      /\ Ending \subseteq Completions \ {h}
  <2>1. h \in Handlers /\ h # c
    BY <1>0, HandlerFacts, Distinct DEF Kinds
  <2> QED BY <1>0, <2>1, CompletionFacts, Distinct, TurnFacts
          DEF Others, Timeout, Wrote, Ending
<1>3. /\ Cancelled \in Seq(Handlers) /\ NoneIn(Cancelled, X) /\ NoneIn(Cancelled, Timeout)
      /\ ~reading => NoneIn(Cancelled, Completions \ {h})
  BY <1>0, <1>2, CancelledOrders DEF OtherTypes, NoneIn
<1>4. <<>> \in Seq(Handlers) /\ \A S : NoneIn(<<>>, S)
  BY EmptyHas
<1> HIDE DEF h, X
<1>5. /\ StrandInv' /\ Undisturbed(X)
      /\ ~reading => Undisturbed(Completions \ {h})
      /\ Once(ready, strand, Timeout) => Absent(ready', strand', Timeout)
  BY <1>0, <1>1, <1>2, <1>3, <1>4, StrandOrders
<1>6. Expired
  BY <1>0, <1>1, <1>2, <1>3, <1>4, StrandMoves DEF Expired
<1>7. Ending' = Ending /\ Timeout' = Timeout /\ \A v : Wrote(v)' = Wrote(v)
  BY DEF Ending, Timeout, Wrote, Handler
<1>8. ~armed' /\ ~Expired'
  BY <1>1, <1>5, <1>6, <1>7 DEF OrderInv, ArmedInv, Expired
<1>9. ~Absent(ready', strand', Ending) => pc'[Reader] = "reading"
  <2>1. CASE reading
    BY <1>0, <1>1, <2>1 DEF PcInv
  <2>2. CASE ~reading
    <3>1. Absent(ready', strand', Ending) <=> Absent(ready, strand, Ending)
      BY <1>2, <1>5, <2>2, Frame
    <3> QED BY <1>1, <3>1 DEF OrderInv, KindInv
  <2> QED BY <2>1, <2>2
<1>10. \A v \in Writers : Absent(ready', strand', Wrote(v)) <=> Absent(ready, strand, Wrote(v))
  BY <1>2, <1>5, Frame
<1>11. KindInv'
  BY <1>1, <1>7, <1>9, <1>10 DEF OrderInv, KindInv
<1>12. ArmedInv'
  BY <1>8 DEF ArmedInv
<1> QED BY <1>5, <1>8, <1>11, <1>12 DEF OrderInv, WriteBehind, ReadBehind

\* A completion lines up on the strand.
LEMMA BusyOrder ==
  ASSUME Inv, OrderInv, StrandBusy
  PROVE  OrderInv'
<1>0. /\ QueueOK /\ OtherTypes /\ PcInv /\ Reader \in Coroutines /\ Free \notin Coroutines
      /\ \A v \in Writers : v \in Coroutines /\ v # Reader
  BY TypesSplit, TunAssumption DEF Inv, Coroutines
<1>1. /\ ready # <<>> /\ strand # <<>> /\ strand' = Append(strand, Head(ready))
      /\ ready' = Tail(ready) /\ UNCHANGED <<pc, lock, readFlag, reading, armed>>
      /\ Head(ready).kind \notin {"resume", "strand"}
  BY DEF StrandBusy, device
<1> DEFINE h == Head(ready)
<1>2. /\ h \in Handlers /\ Tail(ready) \in Seq(Handlers)
      /\ h # StrandTurn /\ \A a : h # Resume(a)
  BY <1>0, <1>1, HeadHas DEF QueueOK, StrandTurn, Resume, Handler
<1>3. /\ \A S : Keeps(S)
      /\ \A S : NoneIn(ready, S) <=> h \notin S /\ NoneIn(ready', S)
      /\ \A S : NoneIn(strand', S) <=> NoneIn(strand, S) /\ h \notin S
  BY <1>0, <1>1, <1>2, LinesUp, HeadHas, AppendHas DEF QueueOK
<1> HIDE DEF h
<1>4. /\ Ending' = Ending /\ Packet' = Packet /\ Timeout' = Timeout /\ Turning' = Turning
      /\ \A v : Wrote(v)' = Wrote(v) /\ Resumed(v)' = Resumed(v)
  BY DEF Ending, Packet, Timeout, Turning, Wrote, Resumed, Handler, Resume, StrandTurn
<1>5. Expired' <=> Expired
  BY <1>3, <1>4 DEF Keeps, Expired
<1>6. StrandInv'
  BY <1>1, <1>2, <1>3, <1>4 DEF OrderInv, StrandInv, Turning
<1>7. KindInv'
  BY <1>1, <1>3, <1>4 DEF OrderInv, KindInv, Keeps
<1>8. ArmedInv'
  BY <1>1, <1>3, <1>4, <1>5 DEF OrderInv, ArmedInv, Keeps
<1>9. ASSUME NEW w \in Writers, Late(w) PROVE Late(w)'
  <2>0. Timeout \cap Wrote(w) = {}
    BY Distinct DEF Timeout, Wrote
  <2>1. ~Absent(ready', strand', Wrote(w)) /\ Behind(ready', Timeout, Wrote(w))
    BY <1>0, <1>1, <1>3, <1>9, TailOrders DEF Late, Keeps, QueueOK
  <2>2. h \in Timeout => NoneIn(strand, Wrote(w))
    BY <1>3, <1>9 DEF Late
  <2>3. h \in Wrote(w) => NoneIn(ready, Timeout)
    BY <1>0, <1>1, <1>9, TailOrders DEF Late, QueueOK, h
  <2>4. Behind(strand', Timeout, Wrote(w))
    <3>1. CASE h \in Timeout
      <4>1. NoneIn(strand', Wrote(w))
        BY <1>3, <2>0, <2>2, <3>1
      <4> QED BY <4>1, NoneOrders
    <3>2. CASE h \notin Timeout
      BY <1>0, <1>1, <1>2, <1>9, <3>2, AppendOrders DEF Late, QueueOK, h
    <3> QED BY <3>1, <3>2
  <2>5. NoneIn(strand', Wrote(w)) \/ NoneIn(ready', Timeout)
    BY <1>3, <1>9, <2>0, <2>2, <2>3 DEF Late
  <2> QED BY <1>4, <2>1, <2>4, <2>5 DEF Late
<1>10. WriteBehind'
  BY <1>1, <1>5, <1>9 DEF OrderInv, WriteBehind
<1>11. ReadBehind'
  <2>1. ~WriterNext
    BY <1>2 DEF WriterNext, HeadIs, h
  <2>2. Behind(ready, Timeout, Resumed(Reader)) => Behind(ready', Timeout, Resumed(Reader))
    BY <1>0, <1>1, TailOrders DEF QueueOK
  <2>3. Led(ready, Turning, Resumed(Reader)) => Led(ready', Turning, Resumed(Reader))
    BY <1>0, <1>1, <1>2, TailOrders DEF QueueOK, Turning, h
  <2> QED BY <1>1, <1>4, <1>5, <2>1, <2>2, <2>3 DEF OrderInv, ReadBehind
<1> QED BY <1>6, <1>7, <1>8, <1>10, <1>11 DEF OrderInv

\* The reader calls read: its resumption is posted behind everything that is ready.
LEMMA CallReadOrder ==
  ASSUME Inv, OrderInv, CallRead
  PROVE  OrderInv'
<1>0. /\ QueueOK /\ OtherTypes /\ PcInv /\ Reader \in Coroutines /\ Free \notin Coroutines
      /\ \A v \in Writers : v \in Coroutines /\ v # Reader
  BY TypesSplit, TunAssumption DEF Inv, Coroutines
<1>1. /\ pc[Reader] = "away" /\ pc' = [pc EXCEPT ![Reader] = "lock"]
      /\ ready' = Append(ready, Resume(Reader))
      /\ UNCHANGED <<strand, lock, readFlag, reading, armed>>
  BY DEF CallRead, Goto, device
<1>2. /\ Resume(Reader) \in Handlers /\ Resume(Reader) \notin Completions \union {StrandTurn}
      /\ Resume(Reader) \notin Timeout /\ Resume(Reader) \notin Turning
  BY <1>0, CompletionFacts, Distinct DEF Turning
<1>3. Undisturbed(Completions \union {StrandTurn})
  BY <1>0, <1>1, <1>2, HeadOrders
<1>4. Undisturbed(Completions)
  BY <1>3 DEF Undisturbed
<1>5. StrandInv'
  <2>1. NoneIn(ready', Turning) <=> NoneIn(ready, Turning)
    BY <1>3, Frame DEF Turning
  <2>2. Turning' = Turning
    BY DEF Turning, StrandTurn, Handler
  <2> QED BY <1>1, <2>1, <2>2 DEF OrderInv, StrandInv
<1>6. KindInv'
  BY <1>0, <1>1, <1>4, KindFrame DEF OrderInv, OtherTypes
<1>7. ArmedInv'
  BY <1>0, <1>1, <1>4, ArmedFrame DEF OrderInv, OtherTypes
<1>8. /\ Expired' <=> Expired
      /\ \A w \in Writers : Late(w) => Late(w)'
  BY <1>4, Frame, CompletionFacts
<1>9. WriteBehind'
  BY <1>0, <1>1, <1>8 DEF OrderInv, WriteBehind, OtherTypes
<1>10. ReadBehind'
  <2>1. NoneIn(ready, Resumed(Reader))
    <3>1. NoneIn(ready, Turns(Reader))
      BY <1>0, <1>1 DEF Inv, TurnInv, Absent
    <3> QED BY <1>0, <3>1, TurnsOf DEF NoneIn, Resumed
  <2>2. Behind(ready', Timeout, Resumed(Reader))
    BY <1>0, <1>1, <1>2, <2>1, NoneOrders, AppendOrders DEF QueueOK
  <2>3. strand # <<>> => Led(ready', Turning, Resumed(Reader))
    BY <1>0, <1>1, <1>2, <2>1, NoneOrders, AppendOrders DEF QueueOK, OrderInv, StrandInv
  <2>4. Turning' = Turning /\ Timeout' = Timeout /\ Resumed(Reader)' = Resumed(Reader)
    BY DEF Turning, Timeout, Resumed, Resume, StrandTurn, Handler
  <2> QED BY <1>0, <1>1, <2>2, <2>3, <2>4 DEF ReadBehind, OtherTypes
<1> QED BY <1>5, <1>6, <1>7, <1>9, <1>10 DEF OrderInv

\* A session calls write.
LEMMA CallWriteOrder ==
  ASSUME Inv, OrderInv, NEW w \in Writers, CallWrite(w)
  PROVE  OrderInv'
<1>0. /\ QueueOK /\ OtherTypes /\ PcInv /\ Reader \in Coroutines /\ Free \notin Coroutines
      /\ \A v \in Writers : v \in Coroutines /\ v # Reader
  BY TypesSplit, TunAssumption DEF Inv, Coroutines
<1>1. /\ pc[w] = "away" /\ pc' = [pc EXCEPT ![w] = "call"]
      /\ ready' = Append(ready, Resume(w))
      /\ UNCHANGED <<strand, lock, readFlag, reading, armed>>
  BY DEF CallWrite, Goto, device
<1> DEFINE X == Completions \union {StrandTurn, Resume(Reader)}
<1>2. Resume(w) \in Handlers /\ Resume(w) \notin X
  BY <1>0, CompletionFacts, Distinct
<1>3. Undisturbed(X)
  BY <1>0, <1>1, <1>2, HeadOrders
<1>4. Undisturbed(Completions)
  BY <1>3 DEF Undisturbed
<1>5. StrandInv'
  <2>1. NoneIn(ready', Turning) <=> NoneIn(ready, Turning)
    BY <1>3, Frame DEF Turning
  <2>2. Turning' = Turning
    BY DEF Turning, StrandTurn, Handler
  <2> QED BY <1>1, <2>1, <2>2 DEF OrderInv, StrandInv
<1>6. KindInv'
  BY <1>0, <1>1, <1>4, KindFrame DEF OrderInv, OtherTypes
<1>7. ArmedInv'
  BY <1>0, <1>1, <1>4, ArmedFrame DEF OrderInv, OtherTypes
<1>8. /\ Expired' <=> Expired
      /\ \A v \in Writers : Late(v) => Late(v)'
  BY <1>4, Frame, CompletionFacts
<1>9. WriteBehind'
  BY <1>0, <1>1, <1>8 DEF OrderInv, WriteBehind, OtherTypes
<1>10. ReadBehind'
  <2>1. /\ Behind(ready, Timeout, Resumed(Reader)) => Behind(ready', Timeout, Resumed(Reader))
        /\ Led(ready, Turning, Resumed(Reader)) => Led(ready', Turning, Resumed(Reader))
    <3>1. /\ Timeout \in SUBSET X /\ Resumed(Reader) \in SUBSET X /\ Turning \in SUBSET X
      BY CompletionFacts DEF Resumed, Turning
    <3> QED BY <1>3, <3>1 DEF Undisturbed, Orders
  <2>2. WriterNext => WriterNext'
    <3>1. ready # <<>> => ready' # <<>> /\ Head(ready') = Head(ready)
      BY <1>0, <1>1, <1>2, SMT DEF QueueOK
    <3>2. \A v : Resume(v)' = Resume(v)
      BY DEF Resume, Handler
    <3>3. \A v : HeadIs(Resume(v)) => HeadIs(Resume(v))'
      BY <3>1, <3>2 DEF HeadIs
    <3> QED BY <1>0, <1>1, <3>3 DEF WriterNext, OtherTypes
  <2>3. Turning' = Turning /\ Timeout' = Timeout /\ Resumed(Reader)' = Resumed(Reader)
    BY DEF Turning, Timeout, Resumed, Resume, StrandTurn, Handler
  <2> QED BY <1>0, <1>1, <1>8, <2>1, <2>2, <2>3 DEF OrderInv, ReadBehind, OtherTypes
<1> QED BY <1>5, <1>6, <1>7, <1>9, <1>10 DEF OrderInv

\* The read gets a packet, or its timer expires.
LEMMA DeviceOrder ==
  ASSUME Inv, OrderInv, PacketArrives \/ TimerExpires
  PROVE  OrderInv'
<1>0. /\ QueueOK /\ OtherTypes /\ PcInv /\ Reader \in Coroutines /\ Free \notin Coroutines
      /\ \A v \in Writers : v \in Coroutines /\ v # Reader
  BY TypesSplit, TunAssumption DEF Inv, Coroutines
<1>1. PICK k \in {"packet", "timeout"} :
         /\ ready' = Append(ready, Handler(k, Reader)) /\ UNCHANGED <<strand, pc, lock>>
         /\ k = "packet" => reading /\ armed' = armed
         /\ k = "timeout" => armed /\ armed' = FALSE
  BY DEF PacketArrives, TimerExpires
<1>2. pc[Reader] = "reading"
  BY <1>0, <1>1 DEF PcInv, OrderInv, ArmedInv
<1>3. lock = Reader
  BY <1>0, <1>2 DEF PcInv
<1> DEFINE h == Handler(k, Reader)
           X == Handlers \ {h}
<1>4. h \in Handlers /\ h \notin X /\ h # StrandTurn /\ StrandTurn \in Handlers
  BY <1>0, HandlerFacts, TurnFacts, Distinct DEF Kinds, StrandTurn
<1>5. /\ k = "packet" => h \in Packet /\ Timeout \subseteq X
      /\ k = "timeout" => Timeout = {h} /\ Packet \subseteq X
      /\ \A v \in Writers : Wrote(v) \subseteq X
  BY <1>0, CompletionFacts, Distinct DEF Packet, Timeout, Wrote, Completions
<1>6. ready' = Append(ready, h)
  BY <1>1
<1> HIDE DEF h
<1>7. Undisturbed(X)
  BY <1>0, <1>1, <1>4, <1>6, HeadOrders
<1> HIDE DEF X
<1>8. Ending' = Ending /\ Packet' = Packet /\ Timeout' = Timeout /\ Turning' = Turning
      /\ \A v : Wrote(v)' = Wrote(v)
  BY DEF Ending, Packet, Timeout, Turning, Wrote, Handler, StrandTurn
<1>9. StrandInv'
  <2>1. Turning \in SUBSET X
    BY <1>4 DEF Turning, X
  <2> QED BY <1>1, <1>7, <1>8, <2>1, Frame DEF OrderInv, StrandInv
<1>10. KindInv'
  BY <1>1, <1>2, <1>5, <1>7, <1>8, Frame DEF OrderInv, KindInv
<1>11. ArmedInv'
  <2>1. CASE k = "packet"
    <3>1. /\ Expired' <=> Expired
          /\ Once(ready', strand', Timeout) <=> Once(ready, strand, Timeout)
      BY <1>5, <1>7, <2>1, Frame
    <3>2. ~Absent(ready', strand', Packet)
      BY <1>0, <1>1, <1>4, <1>5, <1>6, <2>1, AppendMoves DEF QueueOK
    <3> QED BY <1>1, <1>2, <1>8, <2>1, <3>1, <3>2 DEF OrderInv, ArmedInv
  <2>2. CASE k = "timeout"
    <3>1. Absent(ready, strand, Timeout)
      BY <1>1, <2>2 DEF OrderInv, ArmedInv, Expired
    <3>2. Once(ready', strand', Timeout)
      BY <1>0, <1>1, <1>4, <1>5, <1>6, <2>2, <3>1, AppendMoves DEF QueueOK
    <3> QED BY <1>1, <1>8, <2>2, <3>2 DEF ArmedInv
  <2> QED BY <2>1, <2>2
<1>12. WriteBehind' /\ ReadBehind'
  BY <1>0, <1>1, <1>2, <1>3 DEF WriteBehind, ReadBehind
<1> QED BY <1>9, <1>10, <1>11, <1>12 DEF OrderInv

LEMMA OrderInit == Init => OrderInv
<1> SUFFICES ASSUME Init PROVE OrderInv
  OBVIOUS
<1>1. \A S : Absent(ready, strand, S)
  BY EmptyHas DEF Init, Absent
<1> QED BY <1>1 DEF Init, OrderInv, StrandInv, KindInv, ArmedInv, WriteBehind, ReadBehind, Expired

LEMMA OrderStep ==
  ASSUME Inv, Inv', OrderInv, [Next]_vars
  PROVE  OrderInv'
<1>1. CASE UNCHANGED vars
  BY <1>1 DEF vars, OrderInv, StrandInv, KindInv, ArmedInv, WriteBehind, Late, ReadBehind,
     WriterNext, HeadIs, Expired, Timeout, Packet, Ending, Wrote, Turning, Resumed, Handler,
     Resume, StrandTurn
<1>2. ASSUME NEW w \in Writers, WriterStep(w) PROVE OrderInv'
  <2>1. w \in Coroutines
    BY DEF Coroutines
  <2> QED BY <1>2, <2>1, LockOrder, CheckFlagOrder, CancelReadOrder, StartWriteOrder,
             WroteOrder, WriteReturnsOrder DEF WriterStep
<1>3. CASE ReaderStep \/ HandlerStep
  <2>1. Reader \in Coroutines
    BY DEF Coroutines
  <2> QED BY <1>3, <2>1, LockOrder, StartReadOrder, ReadReturnsOrder, ReadHandlerOrder,
             TimeoutOrder, BusyOrder DEF ReaderStep, HandlerStep
<1> QED
  BY <1>1, <1>2, <1>3, CallReadOrder, CallWriteOrder, DeviceOrder DEF Next, RunReady

LEMMA OrderInvariance == Spec => []OrderInv
<1>1. Inv /\ OrderInv /\ Inv' /\ [Next]_vars => OrderInv'
  BY OrderStep
<1> QED BY OrderInit, Invariance, <1>1, PTL DEF Spec

\* However many sessions write, the timer that a read arms is the only one: the
\* handler of an earlier read's timer has run.
THEOREM TimersAreOwn == Spec => []TimeoutOfOwnRead
<1>1. Inv /\ OrderInv => TimeoutOfOwnRead
  <2> SUFFICES ASSUME Inv, OrderInv, armed
               PROVE  ~Pending(Handler("timeout", Reader))
    BY DEF TimeoutOfOwnRead
  <2>1. Absent(ready, strand, Timeout)
    BY DEF OrderInv, ArmedInv, Expired
  <2> QED BY <2>1 DEF Absent, NoneIn, Timeout, Pending, Contains
<1> QED BY Invariance, OrderInvariance, <1>1, PTL

-----------------------------------------------------------------------------
(* Who gets lock_ after a cancel.  With one writer the writer that cancelled *)
(* a read has its resumption ahead of that of the reader.                    *)

SendInv ==
    \A w \in cancelled :
        /\ pc[w] = "lock" /\ pc[Reader] # "locked"
        /\ ~NoneIn(ready, Resumed(w))
        /\ pc[Reader] = "lock" => Led(ready, Resumed(w), Resumed(Reader))

\* A step that leaves both where they are.
LEMMA SendFrame ==
  ASSUME SendInv, NEW w, cancelled' \subseteq {w}, UNCHANGED <<pc, cancelled>>,
         Orders(ready, ready', Resumed(w), Resumed(Reader))
  PROVE  SendInv'
<1>1. \A a : Resumed(a)' = Resumed(a)
  BY DEF Resumed, Resume, Handler
<1> QED BY <1>1 DEF SendInv, Orders

LEMMA SendStep ==
  ASSUME Inv, Inv', OrderInv, SendInv, [Next]_vars, NEW w, Writers = {w}
  PROVE  SendInv'
<1>0. /\ QueueOK /\ OtherTypes /\ OtherTypes' /\ PcInv
      /\ Reader \in Coroutines /\ Free \notin Coroutines
      /\ w \in Coroutines /\ w # Reader /\ cancelled \subseteq {w} /\ cancelled' \subseteq {w}
      /\ \A a \in Coroutines : a = w \/ a = Reader
  BY TypesSplit, TunAssumption DEF Inv, Coroutines, TypeOK, OtherTypes
<1>a. \A a : Resumed(a)' = Resumed(a)
  BY DEF Resumed, Resume, Handler
<1>b. /\ Resume(w) \in Handlers /\ Resume(Reader) \in Handlers /\ Resume(w) # Resume(Reader)
      /\ Resume(w) \notin Completions /\ Resume(Reader) \notin Completions
      /\ Resume(w) # StrandTurn /\ Resume(Reader) # StrandTurn
  BY <1>0, CompletionFacts, Distinct
<1> DEFINE X == {Resume(w), Resume(Reader)}
<1>c. Undisturbed(X) => Orders(ready, ready', Resumed(w), Resumed(Reader))
  BY DEF Undisturbed, Resumed
<1>1. CASE UNCHANGED vars
  BY <1>0, <1>1, SameOrders, SendFrame DEF vars
<1>2. CASE LockStep(w)
  <2>1. /\ HeadIs(Resume(w)) /\ pc[w] = "lock"
        /\ \/ lock # Free /\ UNCHANGED <<pc, lock, cancelled>>
              /\ ready' = Append(Tail(ready), Resume(w))
           \/ cancelled' = {}
    BY <1>0, <1>2 DEF LockStep, Runs
  <2>2. CASE lock # Free /\ UNCHANGED <<pc, lock, cancelled>>
             /\ ready' = Append(Tail(ready), Resume(w))
    <3>1. pc[Reader] # "lock"
      BY <1>0, <2>1, <2>2 DEF PcInv, OtherTypes
    <3>2. ~NoneIn(ready', Resumed(w))
      <4>1. Tail(ready) \in Seq(Handlers)
        BY <1>0, <2>1, HeadHas DEF HeadIs, QueueOK
      <4> QED BY <1>b, <2>2, <4>1, AppendHas DEF Resumed
    <3> QED BY <1>0, <1>a, <2>2, <3>1, <3>2 DEF SendInv
  <2> QED BY <2>1, <2>2 DEF SendInv
<1>3. CASE LockStep(Reader)
  <2>1. HeadIs(Resume(Reader)) /\ pc[Reader] = "lock" /\ cancelled' \subseteq cancelled
    BY <1>3 DEF LockStep, Runs
  <2>2. \A v : ~Led(ready, Resumed(v), Resumed(Reader))
    BY <1>0, <2>1, TailOrders DEF HeadIs, QueueOK, Resumed
  <2> QED BY <2>1, <2>2 DEF SendInv
<1>4. CASE StartRead
  BY <1>4 DEF StartRead, Runs, SendInv
<1>5. CASE ReadReturns
  <2>1. /\ HeadIs(Resume(Reader)) /\ ready' = Tail(ready) /\ UNCHANGED cancelled
        /\ pc' = [pc EXCEPT ![Reader] = "away"]
    BY <1>5 DEF ReadReturns, Runs, Goto
  <2>2. NoneIn(ready', Resumed(w)) <=> NoneIn(ready, Resumed(w))
    BY <1>0, <1>b, <2>1, HeadHas DEF HeadIs, QueueOK, Resumed
  <2> QED BY <1>0, <1>a, <2>1, <2>2 DEF SendInv, OtherTypes
<1>6. CASE CheckFlag(w) \/ StartWrite(w) \/ WriteReturns(w) \/ CallWrite(w)
  BY <1>0, <1>6 DEF CheckFlag, StartWrite, WriteReturns, CallWrite, Runs, SendInv
<1>7. CASE CancelRead(w)
  <2>1. /\ pc[w] = "strand" /\ RunsOnStrand(Resume(w), <<Resume(w)>>, Cancelled)
        /\ pc' = [pc EXCEPT ![w] = "lock"] /\ (~reading => cancelled' = cancelled)
    BY <1>7 DEF CancelRead, Goto
  <2>2. cancelled = {}
    BY <1>0, <2>1 DEF SendInv
  <2>3. CASE reading
    <3>1. pc'[w] = "lock" /\ pc'[Reader] = "reading"
      BY <1>0, <2>1, <2>3 DEF PcInv, OtherTypes
    <3>2. Cancelled \in Seq(Handlers) /\ <<Resume(w)>> \in Seq(Handlers)
          /\ <<Resume(w)>> # <<>> /\ Head(<<Resume(w)>>) = Resume(w)
      BY <1>0, <1>b, CancelledOrders DEF OtherTypes
    <3>3. ready' # <<>> /\ Head(ready') = Resume(w)
      BY <1>0, <1>b, <2>1, <3>2, StrandOrders
    <3>4. ready' \in Seq(Handlers)
      BY TypesSplit DEF Inv, TypeOK, Handlers
    <3>5. ~NoneIn(ready', Resumed(w))
      BY <3>3, <3>4, HeadHas DEF Resumed
    <3> QED BY <1>0, <1>a, <3>1, <3>5 DEF SendInv
  <2>4. CASE ~reading
    BY <2>1, <2>2, <2>4 DEF SendInv
  <2> QED BY <2>3, <2>4
<1>8. CASE WroteHandler(w)
  <2>1. RunsOnStrand(Handler("wrote", w), <<>>, <<Resume(w)>>) /\ UNCHANGED <<pc, cancelled>>
    BY <1>8 DEF WroteHandler
  <2>2. Handler("wrote", w) \in Handlers /\ StrandTurn \notin Wrote(w)
        /\ <<Resume(w)>> \in Seq(Handlers) /\ <<>> \in Seq(Handlers)
    BY <1>0, <1>b, HandlerFacts, Distinct DEF Kinds, Wrote, StrandTurn
  <2>3. ~Absent(ready, strand, Wrote(w))
    BY <1>0, <2>1, <2>2, StrandMoves DEF Wrote
  <2>4. pc[w] = "writing"
    BY <2>3 DEF OrderInv, KindInv
  <2> QED BY <1>0, <2>1, <2>4 DEF SendInv
<1>9. CASE PacketHandler \/ CancelledHandler
  <2>1. PICK k \in {"packet", "cancelledRead"} :
           RunsOnStrand(Handler(k, Reader), <<>>, <<Resume(Reader)>>) /\ UNCHANGED <<pc, cancelled>>
    BY <1>9 DEF PacketHandler, CancelledHandler
  <2> DEFINE h == Handler(k, Reader)
             p == <<Resume(Reader)>>
  <2>2. /\ h \in Handlers /\ h \in Ending /\ StrandTurn \notin Ending
        /\ h \notin Resumed(w) /\ StrandTurn \notin Resumed(w)
        /\ p \in Seq(Handlers) /\ <<>> \in Seq(Handlers)
        /\ NoneIn(p, Resumed(w)) /\ NoneIn(<<>>, Resumed(w))
    <3>1. h \in Handlers /\ h \in Ending
      BY <1>0, HandlerFacts DEF Kinds, Ending
    <3>2. p \in Seq(Handlers) /\ NoneIn(p, Resumed(w)) /\ NoneIn(<<>>, Resumed(w))
      BY <1>b, SingleHas, EmptyHas DEF Resumed
    <3>3. h \in Completions /\ StrandTurn \notin Ending
      BY <3>1, CompletionFacts
    <3> QED BY <1>b, <3>1, <3>2, <3>3 DEF Resumed
  <2>3. RunsOnStrand(h, <<>>, p)
    BY <2>1
  <2> HIDE DEF h, p
  <2>4. ~Absent(ready, strand, Ending) /\ Undisturbed(Resumed(w))
    BY <1>0, <2>2, <2>3, StrandMoves, StrandOrders
  <2>5. pc[Reader] = "reading"
    BY <2>4 DEF OrderInv, KindInv
  <2>6. NoneIn(ready', Resumed(w)) <=> NoneIn(ready, Resumed(w))
    BY <2>4, Frame
  <2> QED BY <1>0, <1>a, <2>1, <2>5, <2>6 DEF SendInv
<1>10. CASE TimeoutHandler
  <2> DEFINE h == Handler("timeout", Reader)
  <2>1. RunsOnStrand(h, <<>>, Cancelled) /\ UNCHANGED <<pc, cancelled>>
    BY <1>10 DEF TimeoutHandler
  <2>2. h \in Handlers /\ h \notin X /\ StrandTurn \notin X
    BY <1>0, <1>b, HandlerFacts, Distinct DEF Kinds, Resume
  <2>3. /\ Cancelled \in Seq(Handlers) /\ <<>> \in Seq(Handlers)
        /\ NoneIn(Cancelled, X) /\ NoneIn(<<>>, X)
    <3>1. /\ Cancelled \in Seq(Handlers) /\ <<>> \in Seq(Handlers) /\ NoneIn(<<>>, X)
          /\ Cancelled = <<>> \/ Cancelled = <<Handler("cancelledRead", Reader)>>
      BY <1>0, CancelledOrders, EmptyHas DEF OtherTypes, Cancelled
    <3>2. NoneIn(<<Handler("cancelledRead", Reader)>>, X)
      BY Distinct, SingleHas DEF Resume
    <3> QED BY <3>1, <3>2
  <2> HIDE DEF h, X
  <2>4. Undisturbed(X)
    BY <1>0, <2>1, <2>2, <2>3, StrandOrders
  <2> QED BY <1>0, <1>c, <2>1, <2>4, SendFrame
<1>11. CASE StrandBusy
  <2>1. /\ ready # <<>> /\ ready' = Tail(ready) /\ UNCHANGED <<pc, cancelled>>
        /\ Head(ready).kind \notin {"resume", "strand"}
    BY <1>11 DEF StrandBusy
  <2>2. Head(ready) \notin Resumed(w) /\ Head(ready) \notin Resumed(Reader)
    BY <2>1 DEF Resumed, Resume, Handler
  <2>3. Orders(ready, ready', Resumed(w), Resumed(Reader))
    BY <1>0, <2>1, <2>2, FrontOrders DEF QueueOK
  <2> QED BY <1>0, <2>1, <2>3, SendFrame
<1>12. CASE CallRead
  <2>1. /\ pc[Reader] = "away" /\ pc' = [pc EXCEPT ![Reader] = "lock"]
        /\ ready' = Append(ready, Resume(Reader)) /\ UNCHANGED cancelled
    BY <1>12 DEF CallRead, Goto
  <2>2. NoneIn(ready, Resumed(Reader))
    <3>1. NoneIn(ready, Turns(Reader))
      BY <1>0, <2>1 DEF Inv, TurnInv, Absent
    <3> QED BY <1>0, <3>1, TurnsOf DEF NoneIn, Resumed
  <2>3. ASSUME w \in cancelled
        PROVE  ~NoneIn(ready', Resumed(w)) /\ Led(ready', Resumed(w), Resumed(Reader))
    <3>1. ~NoneIn(ready, Resumed(w)) /\ Led(ready, Resumed(w), Resumed(Reader))
      BY <2>2, <2>3, NoneOrders DEF SendInv
    <3> QED BY <1>0, <1>b, <2>1, <3>1, AppendOrders, AppendHas DEF QueueOK
  <2> QED BY <1>0, <1>a, <2>1, <2>3 DEF SendInv, OtherTypes
<1>13. CASE PacketArrives \/ TimerExpires
  <2>1. PICK k \in {"packet", "timeout"} :
           ready' = Append(ready, Handler(k, Reader)) /\ UNCHANGED <<pc, cancelled>>
    BY <1>13 DEF PacketArrives, TimerExpires
  <2>2. Handler(k, Reader) \in Handlers
    BY <1>0, HandlerFacts DEF Kinds
  <2>3. Handler(k, Reader) \notin Resumed(w) /\ Handler(k, Reader) \notin Resumed(Reader)
    BY Distinct DEF Resumed, Resume
  <2>4. Orders(ready, ready', Resumed(w), Resumed(Reader))
    BY <1>0, <2>1, <2>2, <2>3, LastOrders DEF QueueOK
  <2> QED BY <1>0, <2>1, <2>4, SendFrame
<1> QED
  BY <1>1, <1>2, <1>3, <1>4, <1>5, <1>6, <1>7, <1>8, <1>9, <1>10, <1>11, <1>12, <1>13
     DEF Next, RunReady, ReaderStep, HandlerStep, WriterStep

\* "so i have guarantee that after cancel here, send will acquire lock first":
\* with one writer, as in the client, a writer that cancelled a read has lock_
\* before the next read.
THEOREM WriterLocksFirst ==
  ASSUME NEW w, Writers = {w}
  PROVE  Spec => SendLocksFirst
<1>1. Init => SendInv
  BY DEF Init, SendInv
<1>2. Inv /\ Inv' /\ OrderInv /\ SendInv /\ [Next]_vars => SendInv'
  BY SendStep
<1>3. Inv /\ SendInv /\ [Next]_vars => [lock' = Reader /\ lock # Reader => cancelled = {}]_vars
  <2> SUFFICES ASSUME Inv, SendInv, [Next]_vars, lock' = Reader, lock # Reader
               PROVE  cancelled = {}
    OBVIOUS
  <2>1. Reader \in Coroutines /\ Reader # Free /\ Reader \notin Writers
    BY TunAssumption DEF Coroutines
  <2>2. LockStep(Reader)
    BY <2>1 DEF Next, RunReady, ReaderStep, WriterStep, HandlerStep, LockStep, StartRead,
       ReadReturns, CheckFlag, CancelRead, StartWrite, WroteHandler, WriteReturns,
       PacketHandler, CancelledHandler, TimeoutHandler, StrandBusy, CallRead, CallWrite,
       PacketArrives, TimerExpires, vars
  <2>3. HeadIs(Resume(Reader)) /\ pc[Reader] = "lock" /\ QueueOK
    BY <2>2, TypesSplit DEF LockStep, Runs, Inv
  <2>4. \A v : ~Led(ready, Resumed(v), Resumed(Reader))
    BY <2>3, TailOrders DEF HeadIs, QueueOK, Resumed
  <2> QED BY <2>3, <2>4 DEF SendInv
<1>4. Spec => []SendInv
  BY <1>1, <1>2, Invariance, OrderInvariance, PTL DEF Spec
<1> QED BY <1>3, <1>4, Invariance, PTL DEF Spec, SendLocksFirst
=============================================================================
