--------------------------- MODULE TunRouterProofs ---------------------------
(* Theorems about TunRouter, for any set of connections and any bounds on    *)
(* the depth and the number of stacks.                                       *)
(*                                                                           *)
(* Only the top frame of a stack is anything but blocked (StackInv), and a   *)
(* root has the write lock of a connection exactly while its top frame sends *)
(* to it (LockInv).  Both properties follow from that and from CipherOrder,  *)
(* which is inductive with it.                                               *)
EXTENDS TunRouter, SequenceTheorems, TLAPS

Pcs == {"read", "blocked", "retry", "send", "close"}
Frames == [pc : Pcs, con : Cons \union {NewFrame.con}]

Types ==
    /\ stacks \in [Roots -> Seq(Frames)]
    /\ writeLock \in [Cons -> {Free, Closer} \union Roots]
    /\ unsent \in [Cons -> Seq(Roots)]

\* The frames of a stack, and that a frame with a packet has a connection.
StackOK(s) ==
    /\ \A d \in 1 .. Len(s) : s[d].pc # "read" => s[d].con \in Cons
    /\ \A d \in 1 .. Len(s) : s[d].pc = "blocked" <=> d # Len(s)
StackInv == \A i \in Roots : StackOK(stacks[i])

Sends(s, c) == s # <<>> /\ s[Len(s)].pc = "send" /\ s[Len(s)].con = c
LockInv == \A i \in Roots, c \in Cons : writeLock[c] = i <=> Sends(stacks[i], c)

Inv == Types /\ StackInv /\ LockInv /\ CipherOrder

-----------------------------------------------------------------------------
(* Stacks.                                                                   *)

\* A new frame is a frame, and it reads.
LEMMA NewFrameReads == NewFrame \in Frames /\ NewFrame.pc = "read"
BY DEF NewFrame, Frames, Pcs

\* The constants that are not roots.
LEMMA NotRoots == Free \notin Roots /\ Closer \notin Roots /\ 1 \in Roots
BY TunRouterAssumption DEF Free, Roots, Closer

\* A stack of one new frame.
LEMMA NewStack ==
    /\ <<NewFrame>> \in Seq(Frames)
    /\ StackOK(<<NewFrame>>)
    /\ \A c \in Cons : ~Sends(<<NewFrame>>, c)
<1> DEFINE n == NewFrame
           t == <<n>>
<1>1. n \in Frames /\ n.pc = "read"  BY NewFrameReads
<1> HIDE DEF n
<1>2. t \in Seq(Frames) /\ Len(t) = 1 /\ t[1] = n  BY <1>1
<1> HIDE DEF t
<1>3. StackOK(t)  BY <1>1, <1>2 DEF StackOK
<1>4. \A c \in Cons : ~Sends(t, c)  BY <1>1, <1>2 DEF Sends
<1> QED  BY <1>2, <1>3, <1>4 DEF t, n

\* The empty stack.
LEMMA NoStack ==
    /\ <<>> \in Seq(Frames)
    /\ StackOK(<<>>)
    /\ \A c \in Cons : ~Sends(<<>>, c)
BY DEF StackOK, Sends

\* The frames below the top.
LEMMA BelowTop ==
    ASSUME NEW s \in Seq(Frames), s # <<>>
    PROVE  LET r == SubSeq(s, 1, Len(s) - 1) IN
           /\ r \in Seq(Frames)
           /\ Len(r) = Len(s) - 1
           /\ \A d \in 1 .. Len(s) - 1 : r[d] = s[d]
<1>1. Len(s) \in Nat \ {0} /\ \A d \in 1 .. Len(s) - 1 : s[d] \in Frames
  BY EmptySeq, ElementOfSeq
<1>2. 1 \in Int /\ Len(s) - 1 \in Int  BY <1>1
<1> DEFINE r == SubSeq(s, 1, Len(s) - 1)
<1>3. /\ r \in Seq(Frames)
      /\ Len(r) = IF 1 <= Len(s) - 1 THEN Len(s) - 1 - 1 + 1 ELSE 0
      /\ \A d \in 1 .. Len(s) - 1 - 1 + 1 : r[d] = s[1 + d - 1]
  BY <1>1, <1>2, SubSeqProperties
<1> HIDE DEF r
<1>4. Len(r) = Len(s) - 1
  <2>1. CASE Len(s) = 1  BY <2>1, <1>3
  <2>2. CASE Len(s) # 1
    <3> DEFINE m == Len(s)
    <3>1. m \in Nat \ {0} /\ m # 1  BY <2>2, <1>1
    <3>2. Len(r) = IF 1 <= m - 1 THEN m - 1 - 1 + 1 ELSE 0  BY <1>3
    <3> HIDE DEF m
    <3>3. Len(r) = m - 1  BY <3>1, <3>2
    <3> QED  BY <3>3 DEF m
  <2> QED  BY <2>1, <2>2
<1>5. ASSUME NEW d \in 1 .. Len(s) - 1  PROVE r[d] = s[d]
  <2>1. d \in 1 .. Len(s) - 1 - 1 + 1 /\ 1 + d - 1 = d  BY <1>1
  <2> QED  BY <2>1, <1>3
<1> QED  BY <1>3, <1>4, <1>5 DEF r

\* The top frame goes on: it may do anything but wait for a nested one.
LEMMA TopGoesOn ==
    ASSUME NEW s \in Seq(Frames), s # <<>>, StackOK(s),
           NEW f \in Frames, f.pc # "blocked", f.pc # "read" => f.con \in Cons
    PROVE  LET t == [s EXCEPT ![Len(s)] = f] IN
           /\ t \in Seq(Frames)
           /\ StackOK(t)
           /\ \A c \in Cons : Sends(t, c) <=> (f.pc = "send" /\ f.con = c)
<1> DEFINE t == [s EXCEPT ![Len(s)] = f]
<1>1. Len(s) \in Nat \ {0}  BY EmptySeq
<1>2. t \in Seq(Frames) /\ Len(t) = Len(s) /\ t # <<>>  BY <1>1, ExceptSeq, EmptySeq
<1>3. t[Len(s)] = f  BY <1>1
<1>4. ASSUME NEW d \in 1 .. Len(s), d # Len(s)  PROVE t[d] = s[d]
  BY <1>4, <1>1
<1> HIDE DEF t
<1>5. StackOK(t)
  BY <1>1, <1>2, <1>3, <1>4 DEF StackOK
<1>6. \A c \in Cons : Sends(t, c) <=> (f.pc = "send" /\ f.con = c)
  BY <1>2, <1>3 DEF Sends
<1> QED  BY <1>2, <1>5, <1>6 DEF t

\* The top frame waits for a nested one.
LEMMA TopNests ==
    ASSUME NEW s \in Seq(Frames), s # <<>>, StackOK(s), NEW c \in Cons
    PROVE  LET t == Append(Append(SubSeq(s, 1, Len(s) - 1), [pc |-> "blocked", con |-> c]),
                           NewFrame) IN
           /\ t \in Seq(Frames)
           /\ StackOK(t)
           /\ \A e \in Cons : ~Sends(t, e)
<1> DEFINE n == NewFrame
           b == [pc |-> "blocked", con |-> c]
           r == SubSeq(s, 1, Len(s) - 1)
           u == Append(r, b)
           t == Append(u, n)
<1>1. Len(s) \in Nat \ {0}  BY EmptySeq
<1>2. n \in Frames /\ n.pc = "read"  BY NewFrameReads
<1>3. b \in Frames /\ b.pc = "blocked" /\ b.con = c  BY DEF Frames, Pcs
<1>4. r \in Seq(Frames) /\ Len(r) = Len(s) - 1  BY BelowTop
<1>5. ASSUME NEW d \in 1 .. Len(s) - 1  PROVE r[d] = s[d]  BY BelowTop
<1> HIDE DEF n, b, r
<1>6. /\ u \in Seq(Frames) /\ Len(u) = Len(s) /\ u[Len(s)] = b
      /\ \A d \in 1 .. Len(s) - 1 : u[d] = r[d]
  BY <1>1, <1>3, <1>4
<1> HIDE DEF u
<1>7. /\ t \in Seq(Frames) /\ Len(t) = Len(s) + 1 /\ t[Len(s) + 1] = n
      /\ \A d \in 1 .. Len(s) : t[d] = u[d]
  BY <1>1, <1>2, <1>6
<1> HIDE DEF t
<1>8. ASSUME NEW d \in 1 .. Len(s) - 1  PROVE t[d] = s[d]  BY <1>1, <1>5, <1>6, <1>7
<1>9. t[Len(s)] = b  BY <1>1, <1>6, <1>7
<1>10. ASSUME NEW d \in 1 .. Len(t)
       PROVE  (t[d].pc # "read" => t[d].con \in Cons) /\ (t[d].pc = "blocked" <=> d # Len(t))
  <2>1. CASE d = Len(s) + 1  BY <2>1, <1>2, <1>7
  <2>2. CASE d = Len(s)  BY <2>2, <1>1, <1>3, <1>7, <1>9
  <2>3. CASE d \in 1 .. Len(s) - 1  BY <2>3, <1>1, <1>7, <1>8 DEF StackOK
  <2> QED  BY <1>1, <1>7, <1>10, <2>1, <2>2, <2>3
<1>11. StackOK(t)  BY <1>10 DEF StackOK
<1>12. \A e \in Cons : ~Sends(t, e)  BY <1>2, <1>7 DEF Sends
<1> QED  BY <1>7, <1>11, <1>12 DEF t, u, r, b, n

\* A frame returns: its parent tries the lock again.
LEMMA TopReturns ==
    ASSUME Types, StackInv, NEW i \in Roots, stacks[i] # <<>>
    PROVE  /\ Returned(i) \in Seq(Frames)
           /\ StackOK(Returned(i))
           /\ \A c \in Cons : ~Sends(Returned(i), c)
<1> DEFINE s == stacks[i]
           r == SubSeq(s, 1, Len(s) - 1)
           n == Len(s) - 1
           t == [r EXCEPT ![n].pc = "retry"]
<1>1. s \in Seq(Frames) /\ StackOK(s) /\ Len(s) \in Nat \ {0}  BY EmptySeq DEF Types, StackInv
<1>2. CASE Len(s) = 1
  BY <1>2, NoStack DEF Returned, Depth
<1>3. CASE Len(s) # 1
  <2>1. Returned(i) = t  BY <1>3 DEF Returned, Below, Depth
  <2>2. n \in Nat \ {0} /\ n < Len(s)  BY <1>1, <1>3
  <2>3. r \in Seq(Frames) /\ Len(r) = n /\ \A d \in 1 .. n : r[d] = s[d]
    BY <1>1, BelowTop
  <2> DEFINE f == [r[n] EXCEPT !.pc = "retry"]
  <2>7. t = [r EXCEPT ![n] = f]  OBVIOUS
  <2> HIDE DEF t, r
  <2>4. n \in 1 .. Len(r) /\ n \in 1 .. Len(s) /\ n # Len(s)
    <3> DEFINE m == Len(s)
    <3>3. m \in Nat /\ n \in Nat \ {0} /\ n < m  BY <1>1, <2>2
    <3> HIDE DEF m, n
    <3>4. n \in 1 .. n /\ n \in 1 .. m /\ n # m  BY <3>3
    <3>1. n \in 1 .. n /\ n \in 1 .. Len(s) /\ n # Len(s)  BY <3>4 DEF m
    <3>2. Len(r) = n  BY <2>3
    <3> QED  BY <3>1, <3>2
  <2> HIDE DEF n, s
  <2>5. r[n] \in Frames /\ r[n] = s[n]  BY <2>2, <2>3, <2>4, ElementOfSeq
  <2>12. r[n].pc = "blocked" /\ r[n].con \in Cons  BY <1>1, <2>4, <2>5 DEF StackOK
  <2>6. f \in Frames /\ f.pc = "retry" /\ f.con \in Cons  BY <2>5, <2>12 DEF Frames, Pcs
  <2> HIDE DEF f
  <2>8. t \in Seq(Frames) /\ Len(t) = n /\ t[n] = f /\ \A d \in 1 .. n - 1 : t[d] = r[d]
    BY <2>2, <2>3, <2>4, <2>6, <2>7, ExceptSeq
  <2>9. ASSUME NEW d \in 1 .. n
        PROVE  (t[d].pc # "read" => t[d].con \in Cons) /\ (t[d].pc = "blocked" <=> d # n)
    <3>1. CASE d = n  BY <3>1, <2>6, <2>8
    <3>2. CASE d # n
      <4>1. t[d] = s[d] /\ d \in 1 .. Len(s) /\ d # Len(s)
        BY <3>2, <1>1, <2>2, <2>3, <2>4, <2>8
      <4> QED  BY <3>2, <4>1, <1>1 DEF StackOK
    <3> QED  BY <3>1, <3>2
  <2>10. StackOK(t)  BY <2>8, <2>9 DEF StackOK
  <2>11. \A c \in Cons : ~Sends(t, c)  BY <2>6, <2>8 DEF Sends
  <2> QED  BY <2>1, <2>8, <2>10, <2>11
<1> QED  BY <1>2, <1>3

-----------------------------------------------------------------------------
(* The steps.                                                                *)

\* The initial state.
LEMMA InitInv == ASSUME Init PROVE Inv
<1>1. \A i \in Roots : /\ stacks[i] \in Seq(Frames) /\ StackOK(stacks[i])
                       /\ \A c \in Cons : ~Sends(stacks[i], c)
  BY NewStack, NoStack DEF Init
<1>2. Types  BY <1>1 DEF Init, Types
<1>3. StackInv  BY <1>1 DEF StackInv
<1>4. LockInv  BY <1>1, NotRoots DEF Init, LockInv
<1>5. CipherOrder  BY NotRoots DEF Init, CipherOrder
<1> QED  BY <1>2, <1>3, <1>4, <1>5 DEF Inv

\* The stack of a root changes, but not what it sends.
LEMMA SendsTheSame ==
    ASSUME Inv, NEW i \in Roots, NEW t \in Seq(Frames), StackOK(t),
           stacks' = [stacks EXCEPT ![i] = t],
           \A c \in Cons : Sends(t, c) <=> Sends(stacks[i], c),
           UNCHANGED <<writeLock, unsent>>
    PROVE  Inv'
<1>1. \A k \in Roots : stacks'[k] = IF k = i THEN t ELSE stacks[k]  BY DEF Inv, Types
<1>2. Types'  BY DEF Inv, Types
<1>3. StackInv'  BY <1>1 DEF Inv, StackInv
<1>4. LockInv'  BY <1>1 DEF Inv, LockInv
<1>5. CipherOrder'  BY DEF Inv, CipherOrder
<1> QED  BY <1>2, <1>3, <1>4, <1>5 DEF Inv

\* A root takes the write lock of c and encrypts a packet for it.
LEMMA Takes ==
    ASSUME Inv, NEW i \in Roots, NEW t \in Seq(Frames), StackOK(t),
           stacks' = [stacks EXCEPT ![i] = t],
           NEW c \in Cons,
           \A e \in Cons : ~Sends(stacks[i], e),
           \A e \in Cons : Sends(t, e) <=> e = c,
           writeLock[c] = Free,
           writeLock' = [writeLock EXCEPT ![c] = i],
           unsent' = [unsent EXCEPT ![c] = Append(@, i)]
    PROVE  Inv'
<1>1. \A k \in Roots : stacks'[k] = IF k = i THEN t ELSE stacks[k]  BY DEF Inv, Types
<1>2. unsent[c] = <<>>  BY NotRoots DEF Inv, CipherOrder
<1>3. unsent' = [unsent EXCEPT ![c] = <<i>>]  BY <1>2
<1>4. \A e \in Cons : writeLock'[e] = IF e = c THEN i ELSE writeLock[e]  BY DEF Inv, Types
<1>5. \A e \in Cons : unsent'[e] = IF e = c THEN <<i>> ELSE unsent[e]
  BY <1>3 DEF Inv, Types
<1>6. Types'
  <2>1. stacks' \in [Roots -> Seq(Frames)]  BY DEF Inv, Types
  <2>2. writeLock' \in [Cons -> {Free, Closer} \union Roots]  BY DEF Inv, Types
  <2>3. <<i>> \in Seq(Roots)  OBVIOUS
  <2>4. unsent' \in [Cons -> Seq(Roots)]  BY <1>3, <2>3 DEF Inv, Types
  <2> QED  BY <2>1, <2>2, <2>4 DEF Types
<1>7. StackInv'  BY <1>1 DEF Inv, StackInv
<1>8. LockInv'
  <2> SUFFICES ASSUME NEW k \in Roots, NEW e \in Cons
               PROVE  writeLock'[e] = k <=> Sends(stacks'[k], e)
    BY DEF LockInv, Sends
  <2>1. writeLock[e] = k <=> Sends(stacks[k], e)  BY DEF Inv, LockInv
  <2> QED  BY <1>1, <1>4, <2>1, NotRoots
<1>9. CipherOrder'  BY <1>4, <1>5 DEF Inv, CipherOrder
<1> QED  BY <1>6, <1>7, <1>8, <1>9 DEF Inv

\* A root whose packet for c was sent, or not, drops the write lock of c.
LEMMA Drops ==
    ASSUME Inv, NEW i \in Roots, NEW t \in Seq(Frames), StackOK(t),
           stacks' = [stacks EXCEPT ![i] = t],
           NEW c \in Cons,
           Sends(stacks[i], c),
           \A e \in Cons : ~Sends(t, e),
           writeLock' = [writeLock EXCEPT ![c] = Free],
           unsent' = [unsent EXCEPT ![c] = Tail(@)]
    PROVE  Inv'
<1>1. \A k \in Roots : stacks'[k] = IF k = i THEN t ELSE stacks[k]  BY DEF Inv, Types
<1>2. writeLock[c] = i  BY DEF Inv, LockInv
<1>3. unsent[c] = <<i>>  BY <1>2 DEF Inv, CipherOrder
<1>4. Tail(<<i>>) = <<>>  OBVIOUS
<1>5. unsent' = [unsent EXCEPT ![c] = <<>>]  BY <1>3, <1>4
<1>6. \A e \in Cons : writeLock'[e] = IF e = c THEN Free ELSE writeLock[e]  BY DEF Inv, Types
<1>7. \A e \in Cons : unsent'[e] = IF e = c THEN <<>> ELSE unsent[e]
  BY <1>5 DEF Inv, Types
<1>8. Types'
  <2>1. stacks' \in [Roots -> Seq(Frames)]  BY DEF Inv, Types
  <2>2. writeLock' \in [Cons -> {Free, Closer} \union Roots]  BY DEF Inv, Types
  <2>3. unsent' \in [Cons -> Seq(Roots)]  BY <1>5, EmptySeq DEF Inv, Types
  <2> QED  BY <2>1, <2>2, <2>3 DEF Types
<1>9. StackInv'  BY <1>1 DEF Inv, StackInv
<1>10. LockInv'
  <2> SUFFICES ASSUME NEW k \in Roots, NEW e \in Cons
               PROVE  writeLock'[e] = k <=> Sends(stacks'[k], e)
    BY DEF LockInv, Sends
  <2>1. writeLock[e] = k <=> Sends(stacks[k], e)  BY DEF Inv, LockInv
  <2>2. e # c => ~Sends(stacks[i], e)  BY DEF Sends
  <2>3. CASE k = i  BY <2>3, <1>1, <1>6, <2>1, <2>2, NotRoots
  <2>4. CASE k # i  BY <2>4, <1>1, <1>2, <1>6, <2>1, NotRoots
  <2> QED  BY <2>3, <2>4
<1>11. CipherOrder'  BY <1>6, <1>7, NotRoots DEF Inv, CipherOrder
<1> QED  BY <1>8, <1>9, <1>10, <1>11 DEF Inv

\* What the frame of a root that is not sending shows of its stack.
LEMMA NotSending ==
    ASSUME NEW i \in Roots, NEW pc, At(i, pc), pc # "send"
    PROVE  \A e \in Cons : ~Sends(stacks[i], e)
BY DEF At, Top, Depth, Sends

\* The lock is free and the root takes it, from whichever state it is in.
LEMMA LockAndEncryptInv ==
    ASSUME Inv, NEW i \in Roots, NEW c \in Cons, stacks[i] # <<>>,
           \A e \in Cons : ~Sends(stacks[i], e), LockAndEncrypt(i, c)
    PROVE  Inv'
<1> DEFINE s == stacks[i]
           f == [pc |-> "send", con |-> c]
           t == [s EXCEPT ![Len(s)] = f]
<1>1. s \in Seq(Frames) /\ StackOK(s)  BY DEF Inv, Types, StackInv
<1>2. f \in Frames /\ f.pc = "send" /\ f.con = c  BY DEF Frames, Pcs
<1>3. stacks' = [stacks EXCEPT ![i] = t]  BY DEF LockAndEncrypt, TopBecomes, Depth
<1>4. /\ writeLock[c] = Free
      /\ writeLock' = [writeLock EXCEPT ![c] = i]
      /\ unsent' = [unsent EXCEPT ![c] = Append(@, i)]
  BY DEF LockAndEncrypt
<1> HIDE DEF f
<1>5. t \in Seq(Frames) /\ StackOK(t) /\ \A e \in Cons : Sends(t, e) <=> e = c
  BY <1>1, <1>2, TopGoesOn
<1> HIDE DEF t
<1> QED  BY <1>3, <1>4, <1>5, Takes

\* The lock is taken and the frame nests.
LEMMA NestInv ==
    ASSUME Inv, NEW i \in Roots, NEW c \in Cons, NEW r, stacks[i] # <<>>,
           \A e \in Cons : ~Sends(stacks[i], e), Nest(i, c, r)
    PROVE  Inv'
<1> DEFINE s == stacks[i]
           t == Append(Append(SubSeq(s, 1, Len(s) - 1), [pc |-> "blocked", con |-> c]),
                       NewFrame)
<1>1. s \in Seq(Frames) /\ StackOK(s)  BY DEF Inv, Types, StackInv
<1>2. stacks' = [stacks EXCEPT ![i] = t] /\ UNCHANGED <<writeLock, unsent>>
  BY DEF Nest, Below, Depth
<1>3. t \in Seq(Frames) /\ StackOK(t) /\ \A e \in Cons : ~Sends(t, e)
  BY <1>1, TopNests
<1> HIDE DEF t
<1> QED  BY <1>2, <1>3, SendsTheSame

\* Inv is inductive: no action of the router or of the others disturbs it.
LEMMA NextInv == ASSUME Inv, [Next]_vars PROVE Inv'
<1>1. ASSUME NEW i \in Roots, ReadNothing(i)  PROVE Inv'
  BY <1>1 DEF ReadNothing, Inv, Types, StackInv, LockInv, CipherOrder
<1>2. ASSUME NEW i \in Roots, NEW c \in Cons, ReadPacket(i, c)  PROVE Inv'
  <2>1. stacks[i] # <<>> /\ \A e \in Cons : ~Sends(stacks[i], e)
    BY <1>2, NotSending DEF ReadPacket, At
  <2>2. CASE LockAndEncrypt(i, c)  BY <2>1, <2>2, LockAndEncryptInv
  <2>3. CASE Nest(i, c, wanted)  BY <2>1, <2>3, NestInv
  <2> QED  BY <1>2, <2>2, <2>3 DEF ReadPacket
<1>3. ASSUME NEW i \in Roots, Retry(i)  PROVE Inv'
  <2>1. stacks[i] # <<>> /\ \A e \in Cons : ~Sends(stacks[i], e)
    BY <1>3, NotSending DEF Retry, At
  <2>2. Top(i).con \in Cons
    <3>1. stacks[i] \in Seq(Frames) /\ StackOK(stacks[i])  BY DEF Inv, Types, StackInv
    <3>2. Len(stacks[i]) \in Nat \ {0}  BY <2>1, <3>1, EmptySeq
    <3> QED  BY <1>3, <3>1, <3>2 DEF Retry, At, Top, Depth, StackOK
  <2>3. CASE LockAndEncrypt(i, Top(i).con)  BY <2>1, <2>2, <2>3, LockAndEncryptInv
  <2>4. CASE Nest(i, Top(i).con, routed)  BY <2>1, <2>2, <2>4, NestInv
  <2> QED  BY <1>3, <2>3, <2>4 DEF Retry
<1>4. ASSUME NEW i \in Roots, SendDone(i) \/ SendFails(i) \/ CloseReturns(i)  PROVE Inv'
  <2> DEFINE s == stacks[i]
             c == Top(i).con
  <2>1. s # <<>> /\ s \in Seq(Frames) /\ StackOK(s)
    BY <1>4 DEF SendDone, SendFails, CloseReturns, At, Inv, Types, StackInv
  <2>2. Len(s) \in Nat \ {0}  BY <2>1, EmptySeq
  <2>3. c = s[Len(s)].con /\ c \in Cons
    BY <1>4, <2>1, <2>2 DEF SendDone, SendFails, CloseReturns, At, Top, Depth, StackOK
  <2>4. ASSUME NEW pc \in {"read", "close"}
        PROVE  LET t == [s EXCEPT ![Len(s)] = [pc |-> pc, con |-> c]] IN
               t \in Seq(Frames) /\ StackOK(t) /\ \A e \in Cons : ~Sends(t, e)
    <3> DEFINE f == [pc |-> pc, con |-> c]
    <3> HIDE DEF c
    <3>1. f \in Frames /\ f.pc = pc /\ f.con = c  BY <2>3 DEF Frames, Pcs
    <3> HIDE DEF f
    <3>2. [s EXCEPT ![Len(s)] = f] \in Seq(Frames) /\ StackOK([s EXCEPT ![Len(s)] = f])
      BY <2>1, <2>3, <3>1, TopGoesOn
    <3>3. \A e \in Cons : ~Sends([s EXCEPT ![Len(s)] = f], e)
      BY <2>1, <2>3, <3>1, TopGoesOn
    <3> QED  BY <3>2, <3>3 DEF f
  <2>5. CASE SendDone(i)
    <3> DEFINE t == IF Depth(i) = 1 THEN [s EXCEPT ![Len(s)] = [pc |-> "read", con |-> c]]
                    ELSE Returned(i)
    <3>1. /\ stacks' = [stacks EXCEPT ![i] = t]
          /\ writeLock' = [writeLock EXCEPT ![c] = Free]
          /\ unsent' = [unsent EXCEPT ![c] = Tail(@)]
      BY <2>5 DEF SendDone, TopBecomes, Depth
    <3>2. t \in Seq(Frames) /\ StackOK(t) /\ \A e \in Cons : ~Sends(t, e)
      <4>1. Returned(i) \in Seq(Frames) /\ StackOK(Returned(i))
            /\ \A e \in Cons : ~Sends(Returned(i), e)
        BY <2>1, TopReturns DEF Inv
      <4> QED  BY <4>1, <2>4
    <3>3. Sends(stacks[i], c)  BY <2>5 DEF SendDone, At, Top, Depth, Sends
    <3> HIDE DEF t, c
    <3> QED  BY <2>3, <3>1, <3>2, <3>3, Drops
  <2>6. CASE SendFails(i)
    <3> DEFINE pc == IF c \in closed THEN "read" ELSE "close"
               t == [s EXCEPT ![Len(s)] = [pc |-> pc, con |-> c]]
    <3>1. /\ stacks' = [stacks EXCEPT ![i] = t]
          /\ writeLock' = [writeLock EXCEPT ![c] = Free]
          /\ unsent' = [unsent EXCEPT ![c] = Tail(@)]
      BY <2>6 DEF SendFails, TopBecomes, Depth
    <3>2. pc \in {"read", "close"}  OBVIOUS
    <3>3. Sends(stacks[i], c)  BY <2>6 DEF SendFails, At, Top, Depth, Sends
    <3> HIDE DEF pc
    <3>4. t \in Seq(Frames) /\ StackOK(t) /\ \A e \in Cons : ~Sends(t, e)  BY <2>4, <3>2
    <3> HIDE DEF t, c
    <3> QED  BY <2>3, <3>1, <3>3, <3>4, Drops
  <2>7. CASE CloseReturns(i)
    <3> DEFINE t == [s EXCEPT ![Len(s)] = [pc |-> "read", con |-> c]]
    <3>1. stacks' = [stacks EXCEPT ![i] = t] /\ UNCHANGED <<writeLock, unsent>>
      BY <2>7 DEF CloseReturns, TopBecomes, Depth
    <3>2. \A e \in Cons : ~Sends(stacks[i], e)  BY <2>7, NotSending DEF CloseReturns
    <3>3. t \in Seq(Frames) /\ StackOK(t) /\ \A e \in Cons : ~Sends(t, e)  BY <2>4
    <3> HIDE DEF t
    <3> QED  BY <3>1, <3>2, <3>3, SendsTheSame
  <2> QED  BY <1>4, <2>5, <2>6, <2>7
<1>5. ASSUME NEW i \in Roots, CloseThrows(i) \/ ReadThrows(i)  PROVE Inv'
  <2>1. stacks[i] # <<>> /\ \A e \in Cons : ~Sends(stacks[i], e)
    BY <1>5, NotSending DEF CloseThrows, ReadThrows, At
  <2>2. PICK j \in Roots :
          /\ stacks[j] = <<>> \/ j = i
          /\ stacks' = [[stacks EXCEPT ![i] = Returned(i)] EXCEPT ![j] = <<NewFrame>>]
    BY <1>5 DEF CloseThrows, ReadThrows, Restart
  <2>3. UNCHANGED <<writeLock, unsent>>  BY <1>5 DEF CloseThrows, ReadThrows
  <2> DEFINE r == Returned(i)
             t == <<NewFrame>>
  <2>4. r \in Seq(Frames) /\ StackOK(r) /\ \A e \in Cons : ~Sends(r, e)
    BY <2>1, TopReturns DEF Inv
  <2>5. t \in Seq(Frames) /\ StackOK(t) /\ \A e \in Cons : ~Sends(t, e)  BY NewStack
  <2>6. \A e \in Cons : ~Sends(stacks[j], e)  BY <2>1, <2>2 DEF Sends
  <2> HIDE DEF r, t
  <2>7. stacks' = [[stacks EXCEPT ![i] = r] EXCEPT ![j] = t]  BY <2>2 DEF r, t
  <2>8. \A k \in Roots : stacks'[k] = IF k = j THEN t ELSE IF k = i THEN r ELSE stacks[k]
    BY <2>7 DEF Inv, Types
  <2>9. Types'  BY <2>3, <2>4, <2>5, <2>7 DEF Inv, Types
  <2>10. StackInv'  BY <2>4, <2>5, <2>8 DEF Inv, StackInv
  <2>11. LockInv'
    <3> SUFFICES ASSUME NEW k \in Roots, NEW e \in Cons
                 PROVE  writeLock[e] = k <=> Sends(stacks'[k], e)
      BY <2>3 DEF LockInv, Sends
    <3>1. writeLock[e] = k <=> Sends(stacks[k], e)  BY DEF Inv, LockInv
    <3> QED  BY <2>1, <2>4, <2>5, <2>6, <2>8, <3>1
  <2>12. CipherOrder'  BY <2>3 DEF Inv, CipherOrder
  <2> QED  BY <2>9, <2>10, <2>11, <2>12 DEF Inv
<1>6. ASSUME NEW c \in Cons, Register(c) \/ Unregister(c)  PROVE Inv'
  BY <1>6 DEF Register, Unregister, Inv, Types, StackInv, LockInv, CipherOrder
<1>7. ASSUME NEW c \in Cons, CloserLocks(c) \/ CloserUnlocks(c)  PROVE Inv'
  <2>1. UNCHANGED <<stacks, unsent>>  BY <1>7 DEF CloserLocks, CloserUnlocks
  <2>2. PICK v \in {Free, Closer} : writeLock' = [writeLock EXCEPT ![c] = v]
    BY <1>7 DEF CloserLocks, CloserUnlocks
  <2>3. writeLock[c] \notin Roots  BY <1>7, NotRoots DEF CloserLocks, CloserUnlocks
  <2>4. \A e \in Cons : writeLock'[e] = IF e = c THEN v ELSE writeLock[e]
    BY <2>2 DEF Inv, Types
  <2>5. v \notin Roots  BY NotRoots
  <2>6. Types'  BY <2>1, <2>2 DEF Inv, Types
  <2>7. StackInv'  BY <2>1 DEF Inv, StackInv
  <2>8. LockInv'  BY <2>1, <2>3, <2>4, <2>5 DEF Inv, LockInv
  <2>9. CipherOrder'  BY <2>1, <2>3, <2>4, <2>5 DEF Inv, CipherOrder
  <2> QED  BY <2>6, <2>7, <2>8, <2>9 DEF Inv
<1>8. CASE UNCHANGED vars
  BY <1>8 DEF vars, Inv, Types, StackInv, LockInv, CipherOrder
<1>9. CASE Next
  BY <1>9, <1>1, <1>2, <1>3, <1>4, <1>5, <1>6, <1>7 DEF Next, Step
<1> QED  BY <1>8, <1>9

\* Inv implies that only the top frame of a stack can hold a lock.
LEMMA InvNoLock == ASSUME Inv PROVE NoLockWhileWaiting
<1> SUFFICES ASSUME NEW i \in Roots, NEW c \in Cons, writeLock[c] = i
             PROVE  /\ At(i, "send") /\ Top(i).con = c
                    /\ \A d \in 1 .. Depth(i) - 1 : stacks[i][d].pc = "blocked"
  BY DEF NoLockWhileWaiting
<1>1. Sends(stacks[i], c)  BY DEF Inv, LockInv
<1>2. At(i, "send") /\ Top(i).con = c  BY <1>1 DEF Sends, At, Top, Depth
<1>3. StackOK(stacks[i]) /\ Len(stacks[i]) \in Nat  BY DEF Inv, Types, StackInv
<1>4. \A d \in 1 .. Depth(i) - 1 : stacks[i][d].pc = "blocked"
  BY <1>3 DEF StackOK, Depth
<1> QED  BY <1>2, <1>4

\* A frame that waits for a nested one holds no write lock: routeTunToClients
\* takes the lock only when it does not nest, and drops it before it returns.
THEOREM FramesWaitWithoutLock == Spec => []NoLockWhileWaiting
BY InitInv, NextInv, InvNoLock, PTL DEF Spec

\* Between the encryption of a packet for a connection and the end of its send
\* no other packet is encrypted for it, in any root and at any depth.
THEOREM SentInCipherOrder == Spec => []CipherOrder
<1>1. Inv => CipherOrder  BY DEF Inv
<1> QED  BY <1>1, InitInv, NextInv, PTL DEF Spec
=============================================================================
