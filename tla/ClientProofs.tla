----------------------------- MODULE ClientProofs -----------------------------
(* Theorems about Client, for any clients whose length field covers no more  *)
(* than their login, any list of logins and any sizes.                       *)
(*                                                                           *)
(* That only an allowed login is served rests on where the login is in what  *)
(* is under way to the server (StreamInv), and on a client that sends no     *)
(* packet before the server has answered, or closed (RunInv).                *)
(*                                                                           *)
(* That the two AES streams stay in step, and the packets whole, rests on    *)
(* where each frame starts in its stream (Bounds): what is under way is what *)
(* the packets sent have from the position of the reader on (Carried), and   *)
(* the reader is at the start of a frame, or behind its size (ReaderAt).     *)
(* UpInv says it of the stream to the server, DownInv of that to the client. *)
EXTENDS Client, SequenceTheorems, TLAPS

Units == {u \in [v : Int, pos : Int] : u.pos \in Nat => u.v \in Nat}
Positions == [cEnc : Nat, cDec : Nat, sEnc : Nat, sDec : Nat]
Histories == [toServer : Seq(Seq(Nat)), served : Seq(Seq(Int)),
              toClient : Seq(Seq(Nat)), received : Seq(Seq(Int))]

Types ==
    /\ client \in Clients
    /\ need \in Nat /\ sneed \in Nat
    /\ out \in Seq(Nat)
    /\ up \in Seq(Units) /\ down \in Seq(Units)
    /\ at \in Positions
    /\ packets \in Histories

\* Behind k units of u there is nothing, or the first login of client c.
LoginBehind(c, u, k) ==
    /\ Len(u) >= k
    /\ Len(u) # k =>
         /\ Len(u) >= k + 1 + Len(c.login)
         /\ u[k + 1] = [v |-> c.field, pos |-> 0]
         /\ \A j \in 1 .. Len(c.login) : u[k + 1 + j] = [v |-> c.login[j], pos |-> j]

\* u begins with the login of c.
LoginFirst(c, u) ==
    /\ Len(u) >= Len(c.login)
    /\ \A j \in 1 .. Len(c.login) : u[j] = [v |-> c.login[j], pos |-> j]

\* What is under way to a server that has not read the whole login.
StreamInv ==
    /\ cpc = "key" => spc \in {"key", "end"}
    /\ ~closed =>
         /\ spc = "key" /\ cpc = "key" => up = <<>>
         /\ spc = "key" /\ cpc # "key" =>
              LoginBehind(client, up, 1 + KeyLen) /\ up[1] = Clear(client.key)
         /\ spc = "rsa" => LoginBehind(client, up, KeyLen)
         /\ spc = "login" => LoginBehind(client, up, 0)
         /\ spc \in {"key", "rsa", "login"} => at.sDec = 0
         /\ spc = "name" =>
              LoginFirst(client, up) /\ sneed = client.field /\ at.sDec = 1

\* A client that has got as far as its packets has an answer of the server.
RunInv ==
    /\ tunReader # "off" \/ sockReader # "off" => cpc = "run"
    /\ down # <<>> \/ cpc \in {"ip", "run"} => closed \/ spc \in {"frame", "body", "end"}
    /\ routed => spc \in {"frame", "body", "end"}

LoginAllowed == First(client.login, client.field) \in Allowed
AllowedInv ==
    (spc = "sendip" \/ Serving \/ routed \/ packets.served # <<>> \/ packets.toClient # <<>>)
        => LoginAllowed

Inv == Types /\ StreamInv /\ RunInv /\ AllowedInv

-----------------------------------------------------------------------------
(* Sequences of units.                                                       *)

\* What First and After return.
LEMMA FirstAfter ==
    ASSUME NEW S, NEW s \in Seq(S), NEW n \in Nat, n <= Len(s)
    PROVE  /\ First(s, n) \in Seq(S)
           /\ Len(First(s, n)) = n
           /\ \A i \in 1 .. n : First(s, n)[i] = s[i]
           /\ After(s, n) \in Seq(S)
           /\ Len(After(s, n)) = Len(s) - n
           /\ \A i \in 1 .. Len(s) - n : After(s, n)[i] = s[n + i]
<1> DEFINE m == Len(s)
           f == SubSeq(s, 1, n)
           a == SubSeq(s, n + 1, m)
<1>1. m \in Nat /\ n <= m /\ \A i \in 1 .. m : s[i] \in S  BY LenProperties, ElementOfSeq
<1>2. First(s, n) = f /\ After(s, n) = a  BY DEF First, After
<1> HIDE DEF m
<1>3. 1 \in Int /\ n \in Int /\ n + 1 \in Int /\ m \in Int  BY <1>1
<1>4. \A i \in 1 .. n : s[i] \in S  BY <1>1
<1>5. \A i \in n + 1 .. m : s[i] \in S  BY <1>1
<1>6. /\ f \in Seq(S) /\ Len(f) = IF 1 <= n THEN n - 1 + 1 ELSE 0
      /\ \A i \in 1 .. n - 1 + 1 : f[i] = s[1 + i - 1]
  BY <1>3, <1>4, SubSeqProperties
<1>7. /\ a \in Seq(S) /\ Len(a) = IF n + 1 <= m THEN m - (n + 1) + 1 ELSE 0
      /\ \A i \in 1 .. m - (n + 1) + 1 : a[i] = s[n + 1 + i - 1]
  BY <1>3, <1>5, SubSeqProperties
<1> HIDE DEF f, a
<1>8. Len(f) = n  BY <1>6
<1>9. Len(a) = m - n  BY <1>1, <1>7
<1>10. ASSUME NEW i \in 1 .. n  PROVE f[i] = s[i]
  <2>1. i \in 1 .. n - 1 + 1 /\ 1 + i - 1 = i  OBVIOUS
  <2> QED  BY <1>6, <2>1
<1>11. ASSUME NEW i \in 1 .. m - n  PROVE a[i] = s[n + i]
  <2>1. i \in 1 .. m - (n + 1) + 1 /\ n + 1 + i - 1 = n + i  BY <1>1
  <2> QED  BY <1>7, <2>1
<1> QED  BY <1>2, <1>6, <1>7, <1>8, <1>9, <1>10, <1>11 DEF m

\* Encrypted makes units of values, at successive positions.
LEMMA EncryptedUnits ==
    ASSUME NEW vs \in Seq(Nat), NEW p \in Int
    PROVE  /\ Encrypted(vs, p) \in Seq(Units)
           /\ Len(Encrypted(vs, p)) = Len(vs)
           /\ \A i \in 1 .. Len(vs) :
                Encrypted(vs, p)[i] = [v |-> vs[i], pos |-> p + i - 1]
<1> DEFINE m == Len(vs)
<1>1. m \in Nat /\ \A i \in 1 .. m : vs[i] \in Nat  BY LenProperties, ElementOfSeq
<1>2. Encrypted(vs, p) = [i \in 1 .. m |-> [v |-> vs[i], pos |-> p + i - 1]]
  BY DEF Encrypted
<1> HIDE DEF m
<1>3. ASSUME NEW i \in 1 .. m  PROVE [v |-> vs[i], pos |-> p + i - 1] \in Units
  BY <1>1, <1>3 DEF Units
<1> QED  BY <1>1, <1>2, <1>3 DEF m

\* What units decrypt to is a sequence of as many values.
LEMMA ContentValues ==
    ASSUME NEW us \in Seq(Units), NEW p \in Int
    PROVE  /\ Content(us, p) \in Seq(Int)
           /\ Len(Content(us, p)) = Len(us)
           /\ \A i \in 1 .. Len(us) :
                Content(us, p)[i] = IF us[i].pos = p + i - 1 THEN us[i].v ELSE Garbage
<1> DEFINE m == Len(us)
           e(i) == IF us[i].pos = p + i - 1 THEN us[i].v ELSE Garbage
<1>1. m \in Nat /\ \A i \in 1 .. m : us[i] \in Units  BY LenProperties, ElementOfSeq
<1>2. Content(us, p) = [i \in 1 .. m |-> e(i)]  BY DEF Content
<1>3. ASSUME NEW i \in 1 .. m  PROVE e(i) \in Int
  BY <1>1, <1>3 DEF Units, Garbage
<1> HIDE DEF m, e
<1>4. /\ [i \in 1 .. m |-> e(i)] \in Seq(Int)
      /\ Len([i \in 1 .. m |-> e(i)]) = m
      /\ \A i \in 1 .. m : [j \in 1 .. m |-> e(j)][i] = e(i)
  BY <1>1, <1>3
<1> QED  BY <1>2, <1>4 DEF m, e

\* A packet with its size in front.
LEMMA FrameValues ==
    ASSUME NEW n \in Nat, NEW vs \in Seq(Nat)
    PROVE  /\ <<n>> \o vs \in Seq(Nat)
           /\ Len(<<n>> \o vs) = 1 + Len(vs)
           /\ (<<n>> \o vs)[1] = n
           /\ \A j \in 1 .. Len(vs) : (<<n>> \o vs)[1 + j] = vs[j]
<1> DEFINE h == <<n>>
           t == h \o vs
           m == Len(vs)
<1>1. h \in Seq(Nat) /\ Len(h) = 1 /\ h[1] = n /\ m \in Nat  BY LenProperties
<1> HIDE DEF h
<1>2. /\ t \in Seq(Nat) /\ Len(t) = Len(h) + m
      /\ \A i \in 1 .. Len(h) + m : t[i] = IF i <= Len(h) THEN h[i] ELSE vs[i - Len(h)]
  BY <1>1, ConcatProperties
<1> HIDE DEF t, m
<1>3. t[1] = n  BY <1>1, <1>2
<1>4. ASSUME NEW j \in 1 .. m  PROVE t[1 + j] = vs[j]
  <2>1. 1 + j \in 1 .. 1 + m /\ ~(1 + j <= 1) /\ 1 + j - 1 = j  BY <1>1
  <2> QED  BY <1>1, <1>2, <2>1
<1> QED  BY <1>1, <1>2, <1>3, <1>4 DEF h, t, m

\* The units that are not encrypted.
LEMMA PlainUnits ==
    /\ \A n \in Int :
         Clear(n) \in Units /\ Clear(n).pos \notin Nat /\ <<Clear(n)>> \in Seq(Units)
    /\ ErrorFrame \in Seq(Units)
    /\ RsaBlock \in Seq(Units) /\ Len(RsaBlock) = KeyLen
<1>1. ASSUME NEW n \in Int  PROVE Clear(n) \in Units /\ Clear(n).pos \notin Nat
  BY DEF Clear, Plain, Units
<1>2. Mark \in Int /\ 0 \in Int  BY DEF Mark
<1>3. ErrorFrame \in Seq(Units)  BY <1>1, <1>2 DEF ErrorFrame
<1>4. \A i \in 1 .. KeyLen : [v |-> i, pos |-> Rsa] \in Units
  BY ClientAssumption DEF Rsa, Units
<1>5. RsaBlock \in Seq(Units) /\ Len(RsaBlock) = KeyLen
  BY <1>4, ClientAssumption DEF RsaBlock
<1> QED  BY <1>1, <1>3, <1>5

\* The constants of a client.
LEMMA ClientFields ==
    ASSUME NEW c \in Clients
    PROVE  /\ c.key \in Nat /\ c.login \in Seq(Nat) /\ Len(c.login) \in Nat
           /\ c.field \in Nat /\ c.field <= Len(c.login)
<1>1. c.login \in Seq(Nat) /\ c.key \in Nat /\ c.field \in 0 .. Len(c.login)
  BY ClientAssumption
<1>2. Len(c.login) \in Nat  BY <1>1, LenProperties
<1> QED  BY <1>1, <1>2

-----------------------------------------------------------------------------
(* The login on its way to the server.                                       *)

\* Something is sent behind what is under way.
LEMMA Sent ==
    ASSUME NEW u \in Seq(Units), NEW t \in Seq(Units)
    PROVE  /\ u \o t \in Seq(Units)
           /\ Len(u \o t) = Len(u) + Len(t)
           /\ \A i \in 1 .. Len(u) : (u \o t)[i] = u[i]
           /\ \A i \in 1 .. Len(t) : (u \o t)[Len(u) + i] = t[i]
<1> DEFINE m == Len(u)
           n == Len(t)
           w == u \o t
<1>1. m \in Nat /\ n \in Nat  BY LenProperties
<1>2. /\ w \in Seq(Units) /\ Len(w) = m + n
      /\ \A i \in 1 .. m + n : w[i] = IF i <= m THEN u[i] ELSE t[i - m]
  BY ConcatProperties
<1> HIDE DEF m, n, w
<1>3. ASSUME NEW i \in 1 .. m  PROVE w[i] = u[i]
  <2>1. i \in 1 .. m + n /\ i <= m  BY <1>1
  <2> QED  BY <1>2, <2>1
<1>4. ASSUME NEW i \in 1 .. n  PROVE w[m + i] = t[i]
  <2> DEFINE h == m + i
  <2>1. h \in 1 .. m + n /\ ~(h <= m) /\ h - m = i  BY <1>1
  <2> HIDE DEF h
  <2>2. w[h] = t[h - m]  BY <1>2, <2>1
  <2> QED  BY <2>1, <2>2 DEF h
<1> QED  BY <1>2, <1>3, <1>4 DEF m, n, w

\* The login is sent, once more or for the first time.
LEMMA LoginSent ==
    ASSUME NEW c \in Clients, NEW u \in Seq(Units), NEW k \in Nat, LoginBehind(c, u, k)
    PROVE  LET b == Encrypted(<<c.field>> \o c.login, 0) IN
           u \o b \in Seq(Units) /\ LoginBehind(c, u \o b, k)
<1> DEFINE vs == <<c.field>> \o c.login
           b == Encrypted(vs, 0)
           w == u \o b
           n == Len(c.login)
           m == Len(u)
<1>1. n \in Nat /\ m \in Nat  BY ClientFields, LenProperties
<1>2. /\ vs \in Seq(Nat) /\ Len(vs) = 1 + n /\ vs[1] = c.field
      /\ \A j \in 1 .. n : vs[1 + j] = c.login[j]
  BY ClientFields, FrameValues
<1> HIDE DEF vs
<1>3. /\ b \in Seq(Units) /\ Len(b) = 1 + n
      /\ \A i \in 1 .. 1 + n : b[i] = [v |-> vs[i], pos |-> 0 + i - 1]
  BY <1>2, EncryptedUnits
<1> HIDE DEF b
<1>4. /\ w \in Seq(Units) /\ Len(w) = m + (1 + n)
      /\ \A i \in 1 .. m : w[i] = u[i]
      /\ \A i \in 1 .. 1 + n : w[m + i] = b[i]
  <2>1. /\ w \in Seq(Units) /\ Len(w) = m + Len(b)
        /\ \A i \in 1 .. m : w[i] = u[i]
        /\ \A i \in 1 .. Len(b) : w[m + i] = b[i]
    BY <1>3, Sent
  <2> HIDE DEF w, m, n
  <2> QED  BY <2>1, <1>3
<1> HIDE DEF w, n, m
<1>5. b[1] = [v |-> c.field, pos |-> 0]
  <2>1. 1 \in 1 .. 1 + n /\ 0 + 1 - 1 = 0  BY <1>1
  <2> QED  BY <1>2, <1>3, <2>1
<1>6. ASSUME NEW j \in 1 .. n  PROVE b[1 + j] = [v |-> c.login[j], pos |-> j]
  <2>1. 1 + j \in 1 .. 1 + n /\ 0 + (1 + j) - 1 = j  BY <1>1
  <2>2. b[1 + j] = [v |-> vs[1 + j], pos |-> 0 + (1 + j) - 1]  BY <1>3, <2>1
  <2> QED  BY <1>2, <2>1, <2>2
<1>7. CASE m = k
  <2>1. w[k + 1] = [v |-> c.field, pos |-> 0]
    <3>1. 1 \in 1 .. 1 + n  BY <1>1
    <3> QED  BY <3>1, <1>4, <1>5, <1>7
  <2>2. ASSUME NEW j \in 1 .. n  PROVE w[k + 1 + j] = [v |-> c.login[j], pos |-> j]
    <3>1. 1 + j \in 1 .. 1 + n /\ k + 1 + j = k + (1 + j)  BY <1>1
    <3> QED  BY <3>1, <1>4, <1>6, <1>7
  <2>3. Len(w) >= k /\ Len(w) >= k + 1 + n  BY <1>1, <1>4, <1>7
  <2> QED  BY <1>4, <2>1, <2>2, <2>3 DEF LoginBehind, w, b, vs, n
<1>8. CASE m # k
  <2>1. /\ m >= k + 1 + n
        /\ u[k + 1] = [v |-> c.field, pos |-> 0]
        /\ \A j \in 1 .. n : u[k + 1 + j] = [v |-> c.login[j], pos |-> j]
    BY <1>8 DEF LoginBehind, m, n
  <2>2. k + 1 \in 1 .. m /\ \A j \in 1 .. n : k + 1 + j \in 1 .. m  BY <1>1, <2>1
  <2>3. /\ w[k + 1] = [v |-> c.field, pos |-> 0]
        /\ \A j \in 1 .. n : w[k + 1 + j] = [v |-> c.login[j], pos |-> j]
    BY <1>4, <2>1, <2>2
  <2>4. Len(w) >= k /\ Len(w) >= k + 1 + n  BY <1>1, <1>4, <2>1
  <2> QED  BY <1>4, <2>3, <2>4 DEF LoginBehind, w, b, vs, n
<1> QED  BY <1>7, <1>8

\* The first n units are read.
LEMMA ReadBefore ==
    ASSUME NEW c \in Clients, NEW u \in Seq(Units), NEW k \in Nat, NEW n \in Nat,
           LoginBehind(c, u, n + k)
    PROVE  After(u, n) \in Seq(Units) /\ LoginBehind(c, After(u, n), k)
<1> DEFINE w == After(u, n)
           m == Len(u)
           l == Len(c.login)
<1>1. l \in Nat /\ m \in Nat  BY ClientFields, LenProperties
<1>2. m >= n + k  BY DEF LoginBehind
<1>3. n <= m  BY <1>1, <1>2
<1>4. /\ w \in Seq(Units) /\ Len(w) = m - n
      /\ \A i \in 1 .. m - n : w[i] = u[n + i]
  BY <1>3, FirstAfter
<1>5. m # n + k =>
        /\ m >= n + k + 1 + l
        /\ u[n + k + 1] = [v |-> c.field, pos |-> 0]
        /\ \A j \in 1 .. l : u[n + k + 1 + j] = [v |-> c.login[j], pos |-> j]
  BY DEF LoginBehind
<1> HIDE DEF w, m, l
<1>6. Len(w) >= k  BY <1>1, <1>2, <1>4
<1>7. ASSUME Len(w) # k
      PROVE  /\ Len(w) >= k + 1 + l
             /\ w[k + 1] = [v |-> c.field, pos |-> 0]
             /\ \A j \in 1 .. l : w[k + 1 + j] = [v |-> c.login[j], pos |-> j]
  <2>1. m # n + k /\ m >= n + k + 1 + l  BY <1>1, <1>4, <1>5, <1>7
  <2>2. Len(w) >= k + 1 + l  BY <1>1, <1>4, <2>1
  <2>3. k + 1 \in 1 .. m - n /\ n + (k + 1) = n + k + 1  BY <1>1, <2>1
  <2>4. \A j \in 1 .. l : k + 1 + j \in 1 .. m - n /\ n + (k + 1 + j) = n + k + 1 + j
    BY <1>1, <2>1
  <2>5. w[k + 1] = [v |-> c.field, pos |-> 0]  BY <1>4, <1>5, <2>1, <2>3
  <2>6. \A j \in 1 .. l : w[k + 1 + j] = [v |-> c.login[j], pos |-> j]
    BY <1>4, <1>5, <2>1, <2>4
  <2> QED  BY <2>2, <2>5, <2>6
<1> QED  BY <1>4, <1>6, <1>7 DEF LoginBehind, w, l

\* The first unit is read: Tail is After(.., 1).
LEMMA TailAfter ==
    ASSUME NEW S, NEW u \in Seq(S), u # <<>>
    PROVE  Tail(u) = After(u, 1) /\ Head(u) = u[1] /\ Len(u) \in Nat \ {0} /\ Head(u) \in S
<1>1. Len(u) \in Nat \ {0}  BY EmptySeq
<1>2. Tail(u) = SubSeq(u, 2, Len(u))  BY TailIsSubSeq
<1>3. 1 + 1 = 2  OBVIOUS
<1> QED  BY <1>1, <1>2, <1>3, HeadTailProperties DEF After

\* The size of the login is read.
LEMMA SizeRead ==
    ASSUME NEW c \in Clients, NEW u \in Seq(Units), u # <<>>, LoginBehind(c, u, 0)
    PROVE  /\ Sizes(Head(u), 0) = {c.field}
           /\ LoginFirst(c, Tail(u))
<1> DEFINE w == After(u, 1)
           m == Len(u)
           l == Len(c.login)
<1>1. l \in Nat /\ m \in Nat \ {0}  BY ClientFields, TailAfter
<1>2. /\ m >= 0 + 1 + l
      /\ u[0 + 1] = [v |-> c.field, pos |-> 0]
      /\ \A j \in 1 .. l : u[0 + 1 + j] = [v |-> c.login[j], pos |-> j]
  BY <1>1 DEF LoginBehind
<1>3. u[1] = [v |-> c.field, pos |-> 0]  BY <1>2
<1>4. Sizes(Head(u), 0) = {c.field}  BY <1>3, TailAfter DEF Sizes
<1>5. 1 <= m  BY <1>1
<1>6. /\ w \in Seq(Units) /\ Len(w) = m - 1
      /\ \A i \in 1 .. m - 1 : w[i] = u[1 + i]
  BY <1>5, FirstAfter
<1> HIDE DEF w, m, l
<1>7. Len(w) >= l /\ \A j \in 1 .. l : j \in 1 .. m - 1 /\ 0 + 1 + j = 1 + j
  BY <1>1, <1>2, <1>6
<1>8. \A j \in 1 .. l : w[j] = [v |-> c.login[j], pos |-> j]  BY <1>2, <1>6, <1>7
<1>9. LoginFirst(c, w)  BY <1>7, <1>8 DEF LoginFirst, l
<1> QED  BY <1>4, <1>9, TailAfter DEF w

\* Something is sent behind the login.
LEMMA LoginStays ==
    ASSUME NEW c \in Clients, NEW u \in Seq(Units), NEW t \in Seq(Units), LoginFirst(c, u)
    PROVE  LoginFirst(c, u \o t)
<1> DEFINE w == u \o t
           m == Len(u)
           l == Len(c.login)
<1>1. l \in Nat /\ m \in Nat /\ Len(t) \in Nat  BY ClientFields, LenProperties
<1>2. Len(w) = m + Len(t) /\ \A i \in 1 .. m : w[i] = u[i]  BY Sent
<1>3. m >= l /\ \A j \in 1 .. l : u[j] = [v |-> c.login[j], pos |-> j]  BY DEF LoginFirst
<1> HIDE DEF w, m, l
<1>4. Len(w) >= l /\ \A j \in 1 .. l : j \in 1 .. m  BY <1>1, <1>2, <1>3
<1>5. \A j \in 1 .. l : w[j] = [v |-> c.login[j], pos |-> j]  BY <1>2, <1>3, <1>4
<1> QED  BY <1>4, <1>5 DEF LoginFirst, w, l

\* The login that is read is what its size covers of the login that was sent.
LEMMA LoginRead ==
    ASSUME NEW c \in Clients, NEW u \in Seq(Units), LoginFirst(c, u)
    PROVE  Content(First(u, c.field), 1) = First(c.login, c.field)
<1> DEFINE n == c.field
           l == Len(c.login)
           m == Len(u)
           f == First(u, n)
           x == Content(f, 1)
           y == First(c.login, n)
<1>1. c.login \in Seq(Nat) /\ n \in Nat /\ l \in Nat /\ m \in Nat /\ n <= l
  BY ClientFields, LenProperties
<1>2. m >= l /\ \A j \in 1 .. l : u[j] = [v |-> c.login[j], pos |-> j]  BY DEF LoginFirst
<1> HIDE DEF n, l, m
<1>3. n <= m /\ \A j \in 1 .. n : j \in 1 .. l  BY <1>1, <1>2
<1>4. f \in Seq(Units) /\ Len(f) = n /\ \A i \in 1 .. n : f[i] = u[i]
  BY <1>1, <1>3, FirstAfter DEF m
<1>5. y \in Seq(Nat) /\ Len(y) = n /\ \A i \in 1 .. n : y[i] = c.login[i]
  BY <1>1, FirstAfter DEF l
<1> HIDE DEF f, y
<1>6. /\ x \in Seq(Int) /\ Len(x) = n
      /\ \A i \in 1 .. n : x[i] = IF f[i].pos = 1 + i - 1 THEN f[i].v ELSE Garbage
  BY <1>4, ContentValues
<1> HIDE DEF x
<1>7. ASSUME NEW i \in 1 .. n  PROVE x[i] = y[i]
  <2>1. f[i] = [v |-> c.login[i], pos |-> i]  BY <1>2, <1>3, <1>4
  <2>2. 1 + i - 1 = i  OBVIOUS
  <2> QED  BY <1>5, <1>6, <2>1, <2>2
<1>8. y \in Seq(Int)
  <2>1. \A i \in 1 .. Len(y) : y[i] \in Int  BY <1>5, ElementOfSeq
  <2> QED  BY <1>5, <2>1, LenProperties
<1>9. x = y  BY <1>5, <1>6, <1>7, <1>8, SeqEqual
<1> QED  BY <1>9 DEF n, f, x, y

-----------------------------------------------------------------------------
(* Types.                                                                    *)

\* What a read of a size gives.
LEMMA SizesNat ==
    ASSUME NEW u \in Units, NEW p \in Nat
    PROVE  Sizes(u, p) \subseteq Nat
BY ClientAssumption DEF Sizes, Values, Units

\* A packet of a tun device.
LEMMA PacketUnits ==
    ASSUME NEW k \in Nat, NEW p \in PacketsNo(k)
    PROVE  p \in Seq(Nat)
BY DEF PacketsNo

\* A packet with its size, encrypted.
LEMMA FrameUnits ==
    ASSUME NEW p \in Seq(Nat), NEW n \in Int
    PROVE  /\ Encrypted(Frame(p), n) \in Seq(Units)
           /\ Len(p) \in Nat
           /\ \A i \in 1 .. Len(Encrypted(Frame(p), n)) :
                Encrypted(Frame(p), n)[i].pos = n + i - 1
<1> DEFINE f == Frame(p)
           e == Encrypted(f, n)
<1>1. Len(p) \in Nat  BY LenProperties
<1>2. f \in Seq(Nat)  BY <1>1, FrameValues DEF Frame
<1> HIDE DEF f
<1>3. /\ e \in Seq(Units) /\ Len(e) = Len(f)
      /\ \A i \in 1 .. Len(f) : e[i] = [v |-> f[i], pos |-> n + i - 1]
  BY <1>2, EncryptedUnits
<1> HIDE DEF e
<1>4. ASSUME NEW i \in 1 .. Len(e)  PROVE e[i].pos = n + i - 1
  <2>1. e[i] = [v |-> f[i], pos |-> n + i - 1]  BY <1>3
  <2> QED  BY <2>1
<1> QED  BY <1>1, <1>3, <1>4 DEF e, f

\* The address with its size, encrypted.
LEMMA AddressUnits ==
    ASSUME NEW n \in Nat
    PROVE  /\ Encrypted(<<IpLen, 1>>, n) \in Seq(Units)
           /\ \A i \in 1 .. Len(Encrypted(<<IpLen, 1>>, n)) :
                Encrypted(<<IpLen, 1>>, n)[i].pos \in Nat
<1> DEFINE a == <<IpLen, 1>>
           e == Encrypted(a, n)
<1>1. a \in Seq(Nat)  BY DEF IpLen
<1> HIDE DEF a
<1>2. /\ e \in Seq(Units) /\ Len(e) = Len(a)
      /\ \A i \in 1 .. Len(a) : e[i] = [v |-> a[i], pos |-> n + i - 1]
  BY <1>1, EncryptedUnits
<1> HIDE DEF e
<1>3. ASSUME NEW i \in 1 .. Len(e)  PROVE e[i].pos \in Nat
  <2>3. e[i] = [v |-> a[i], pos |-> n + i - 1]  BY <1>2
  <2>1. e[i].pos = n + i - 1  BY <2>3
  <2>2. n + i - 1 \in Nat  BY <1>2, LenProperties
  <2> QED  BY <2>1, <2>2
<1> QED  BY <1>2, <1>3 DEF e, a

\* The units that are left are units.
LEMMA AfterUnits ==
    ASSUME NEW u \in Seq(Units), NEW n \in Nat, n <= Len(u)
    PROVE  After(u, n) \in Seq(Units)
BY FirstAfter

\* What was read of a packet, decrypted.
LEMMA ContentRead ==
    ASSUME NEW u \in Seq(Units), NEW n \in Nat, NEW p \in Nat, Len(u) >= Amount(n)
    PROVE  /\ Amount(n) \in Nat
           /\ Content(First(u, n), p) \in Seq(Int)
<1>1. Len(u) \in Nat  BY LenProperties
<1>2. Amount(n) \in Nat /\ n <= Amount(n)  BY ClientAssumption DEF Amount
<1>3. n <= Len(u)  BY <1>1, <1>2
<1> DEFINE f == First(u, n)
<1>4. f \in Seq(Units)  BY <1>3, FirstAfter
<1> HIDE DEF f
<1>5. p \in Int  OBVIOUS
<1>6. Content(f, p) \in Seq(Int)  BY <1>4, <1>5, ContentValues
<1> QED  BY <1>2, <1>6 DEF f

\* A position moves on, a history grows.
LEMMA PositionMoves ==
    ASSUME NEW a \in Positions, NEW n \in Nat
    PROVE  /\ [a EXCEPT !.cEnc = n] \in Positions
           /\ [a EXCEPT !.cDec = n] \in Positions
           /\ [a EXCEPT !.sEnc = n] \in Positions
           /\ [a EXCEPT !.sDec = n] \in Positions
BY DEF Positions

LEMMA HistoryGrows ==
    ASSUME NEW h \in Histories, NEW p \in Seq(Nat), NEW x \in Seq(Int)
    PROVE  /\ [h EXCEPT !.toServer = Append(@, p)] \in Histories
           /\ [h EXCEPT !.served = Append(@, x)] \in Histories
           /\ [h EXCEPT !.toClient = Append(@, p)] \in Histories
           /\ [h EXCEPT !.received = Append(@, x)] \in Histories
<1>1. /\ Append(h.toServer, p) \in Seq(Seq(Nat))
      /\ Append(h.served, x) \in Seq(Seq(Int))
      /\ Append(h.toClient, p) \in Seq(Seq(Nat))
      /\ Append(h.received, x) \in Seq(Seq(Int))
  BY DEF Histories
<1> QED  BY <1>1 DEF Histories

\* What the types say of the parts of a record.
LEMMA Parts ==
    ASSUME Types
    PROVE  /\ at.cEnc \in Nat /\ at.cDec \in Nat /\ at.sEnc \in Nat /\ at.sDec \in Nat
           /\ packets.toServer \in Seq(Seq(Nat)) /\ Len(packets.toServer) \in Nat
           /\ packets.toClient \in Seq(Seq(Nat)) /\ Len(packets.toClient) \in Nat
BY LenProperties DEF Types, Positions, Histories

\* An action that changes none of the typed variables.
LEMMA TypesSame ==
    ASSUME Types, UNCHANGED <<client, need, sneed, out, up, down, at, packets>>
    PROVE  Types'
BY DEF Types

\* close() leaves the stream one of units.
LEMMA CloseUnits ==
    ASSUME Types, Close
    PROVE  down' \in Seq(Units)
BY PlainUnits, Sent DEF Types, Close

\* The steps of the client keep the types.
LEMMA ClientTypes == ASSUME Types, ClientStep PROVE Types'
<1>1. ASSUME \/ CheckEarlyAnswer \/ ReadEarlyAnswer \/ PeekCallback \/ ReadsUndefined
             \/ SockWrite \/ SignalsDestroyed \/ Dies
      PROVE  Types'
  BY <1>1, TypesSame DEF CheckEarlyAnswer, ReadEarlyAnswer, PeekCallback, ReadsUndefined,
     SockWrite, SignalsDestroyed, Dies, ClientOnly, clientVars, runVars,
     serverVars
<1>2. ASSUME NEW v, ReadBlockSize(v)
      PROVE  v \in Nat /\ down' \in Seq(Units)
             /\ at' \in Positions
  <2>1. down \in Seq(Units) /\ down # <<>> /\ at.cDec \in Nat
    BY <1>2, Parts DEF ReadBlockSize, Types
  <2>2. Head(down) \in Units /\ Tail(down) \in Seq(Units)  BY <2>1, HeadTailProperties
  <2>3. v \in Nat  BY <1>2, <2>1, <2>2, SizesNat DEF ReadBlockSize
  <2>4. at' = [at EXCEPT !.cDec = at.cDec + 1]  BY <1>2 DEF ReadBlockSize
  <2>5. at.cDec + 1 \in Nat  BY <2>1
  <2>6. at' \in Positions  BY <2>4, <2>5, PositionMoves DEF Types
  <2> QED  BY <1>2, <2>2, <2>3, <2>6 DEF ReadBlockSize
<1>3. ASSUME SendKey  PROVE Types'
  <2>1. CASE Dies  BY <2>1, <1>1
  <2>2. CASE ~Dies
    <3> DEFINE k == <<Clear(client.key)>>
    <3>1. k \in Seq(Units) /\ RsaBlock \in Seq(Units) /\ up \in Seq(Units)
      BY PlainUnits, ClientFields DEF Types
    <3>2. up' = up \o k \o RsaBlock
      BY <1>3, <2>2 DEF SendKey
    <3> HIDE DEF k
    <3>3. up' \in Seq(Units)  BY <3>1, <3>2, Sent
    <3> QED  BY <1>3, <2>2, <3>3 DEF SendKey, Types, ClientOnly, runVars, serverVars
  <2> QED  BY <2>1, <2>2
<1>4. ASSUME SendLogin  PROVE Types'
  <2>1. CASE Dies  BY <2>1, <1>1
  <2>2. CASE ~Dies
    <3> DEFINE vs == <<client.field>> \o client.login
    <3>1. vs \in Seq(Nat) /\ Len(client.login) \in Nat  BY FrameValues, ClientFields DEF Types
    <3> HIDE DEF vs
    <3>2. Encrypted(vs, 0) \in Seq(Units)  BY <3>1, EncryptedUnits
    <3>3. up' = up \o Encrypted(vs, 0)  BY <1>4, <2>2 DEF SendLogin, vs
    <3>4. up' \in Seq(Units)  BY <3>2, <3>3, Sent DEF Types
    <3>5. at' = [at EXCEPT !.cEnc = 1 + Len(client.login)]  BY <1>4, <2>2 DEF SendLogin
    <3>7. 1 + Len(client.login) \in Nat  BY <3>1
    <3>6. at' \in Positions  BY <3>5, <3>7, PositionMoves DEF Types
    <3> QED
      BY <1>4, <2>2, <3>4, <3>6 DEF SendLogin, Types, ClientOnly, runVars, serverVars
  <2> QED  BY <2>1, <2>2
<1>5. ASSUME ReadIpSize  PROVE Types'
  <2>1. CASE Dies  BY <2>1, <1>1
  <2>2. CASE ~Dies
    BY <1>2, <1>5, <2>2 DEF ReadIpSize, Types, ClientOnly, runVars, serverVars
  <2> QED  BY <2>1, <2>2
<1>6. ASSUME ReadIp  PROVE Types'
  <2>1. CASE Dies  BY <2>1, <1>1
  <2>2. CASE ~Dies
    <3>1. IpLen \in Nat /\ Len(down) \in Nat /\ IpLen <= Len(down)
      BY <1>6, <2>2, LenProperties DEF ReadIp, Types, IpLen
    <3>2. After(down, IpLen) \in Seq(Units)  BY <3>1, AfterUnits DEF Types
    <3>3. at' = [at EXCEPT !.cDec = at.cDec + IpLen] /\ at.cDec + IpLen \in Nat
      BY <1>6, <2>2, <3>1, Parts DEF ReadIp
    <3>4. at' \in Positions  BY <3>3, PositionMoves DEF Types
    <3> QED  BY <1>6, <2>2, <3>2, <3>4 DEF ReadIp, Types, ClientOnly, serverVars
  <2> QED  BY <2>1, <2>2
<1>7. ASSUME TunRead  PROVE Types'
  <2>1. Len(packets.toServer) + 1 \in Nat  BY Parts
  <2>2. CASE UNCHANGED <<out, at>>
    BY <1>7, <2>2 DEF TunRead, Types, clientVars, serverVars
  <2>3. ASSUME NEW p \in PacketsNo(Len(packets.toServer) + 1),
               out' = p, at' = [at EXCEPT !.cEnc = @ + 1 + Len(p)]
        PROVE  Types'
    <3>1. p \in Seq(Nat) /\ Len(p) \in Nat  BY <2>1, PacketUnits, LenProperties
    <3>4. at' = [at EXCEPT !.cEnc = at.cEnc + 1 + Len(p)] /\ at.cEnc + 1 + Len(p) \in Nat
      BY <2>3, <3>1, Parts
    <3>2. at' \in Positions  BY <3>4, PositionMoves DEF Types
    <3>3. out' \in Seq(Nat)  BY <2>3, <3>1
    <3> QED  BY <1>7, <3>2, <3>3 DEF TunRead, Types, clientVars, serverVars
  <2> QED  BY <1>7, <2>2, <2>3 DEF TunRead
<1>8. ASSUME TunSend  PROVE Types'
  <2>1. CASE Dies  BY <2>1, <1>1
  <2>2. CASE ~Dies
    <3>1. at.cEnc - 1 - Len(out) \in Int  BY Parts, LenProperties DEF Types
    <3>2. Encrypted(Frame(out), at.cEnc - 1 - Len(out)) \in Seq(Units)
      BY <3>1, FrameUnits DEF Types
    <3>6. \/ UNCHANGED <<up, packets>>
          \/ /\ up' = up \o Encrypted(Frame(out), at.cEnc - 1 - Len(out))
             /\ packets' = [packets EXCEPT !.toServer = Append(@, out)]
      BY <1>8, <2>2 DEF TunSend
    <3>3. up' \in Seq(Units)  BY <3>2, <3>6, Sent DEF Types
    <3>7. 0 \in Int /\ <<>> \in Seq(Int)  BY EmptySeq
    <3>4. packets' \in Histories  BY <3>6, <3>7, HistoryGrows DEF Types
    <3>5. <<>> \in Seq(Nat)  BY EmptySeq
    <3> QED
      BY <1>8, <2>2, <3>3, <3>4, <3>5 DEF TunSend, Types, clientVars, serverVars
  <2> QED  BY <2>1, <2>2
<1>9. ASSUME SockReadSize  PROVE Types'
  <2>1. CASE Dies  BY <2>1, <1>1
  <2>2. CASE ~Dies
    BY <1>2, <1>9, <2>2 DEF SockReadSize, Types, clientVars, serverVars
  <2> QED  BY <2>1, <2>2
<1>10. ASSUME SockReadBody  PROVE Types'
  <2>1. need' = 0 /\ UNCHANGED <<client, out, sneed, up>>
    BY <1>10 DEF SockReadBody, clientVars, serverVars
  <2>2. CASE UNCHANGED <<down, at, packets>>  BY <2>1, <2>2 DEF Types
  <2>3. CASE ~UNCHANGED <<down, at, packets>>
    <3> DEFINE x == Content(First(down, need), at.cDec)
    <3>1. /\ Len(down) >= Amount(need)
          /\ down' = After(down, Amount(need))
          /\ at' = [at EXCEPT !.cDec = @ + need]
          /\ packets' = [packets EXCEPT !.received = Append(@, x)]
      BY <1>10, <2>3 DEF SockReadBody
    <3>2. need \in Nat /\ down \in Seq(Units) /\ at.cDec \in Nat /\ Len(down) \in Nat
      BY Parts, LenProperties DEF Types
    <3>3. Amount(need) \in Nat /\ x \in Seq(Int)  BY <3>1, <3>2, ContentRead
    <3>4. Amount(need) <= Len(down)  BY <3>1, <3>2, <3>3
    <3>5. down' \in Seq(Units)  BY <3>1, <3>2, <3>3, <3>4, AfterUnits
    <3> HIDE DEF x
    <3>7. <<>> \in Seq(Nat)  BY EmptySeq
    <3>6. packets' \in Histories  BY <3>1, <3>3, <3>7, HistoryGrows DEF Types
    <3>8. at' = [at EXCEPT !.cDec = at.cDec + need] /\ at.cDec + need \in Nat
      BY <3>1, <3>2
    <3>9. at' \in Positions  BY <3>8, PositionMoves DEF Types
    <3> QED  BY <2>1, <3>5, <3>6, <3>9 DEF Types
  <2> QED  BY <2>2, <2>3
<1> QED
  BY <1>1, <1>3, <1>4, <1>5, <1>6, <1>7, <1>8, <1>9, <1>10 DEF ClientStep, StartAsync

\* A size of the server is read.
LEMMA SizeTypes ==
    ASSUME Types, up # <<>>, up' = Tail(up),
           at' = [at EXCEPT !.sDec = @ + 1], sneed' \in Sizes(Head(up), at.sDec),
           UNCHANGED <<client, need, out, down, packets>>
    PROVE  Types'
<1>1. up \in Seq(Units) /\ at.sDec \in Nat  BY Parts DEF Types
<1>2. Head(up) \in Units /\ Tail(up) \in Seq(Units)  BY <1>1, HeadTailProperties
<1>3. sneed' \in Nat  BY <1>1, <1>2, SizesNat
<1>4. at' = [at EXCEPT !.sDec = at.sDec + 1] /\ at.sDec + 1 \in Nat  BY <1>1
<1>5. at' \in Positions  BY <1>4, PositionMoves DEF Types
<1> QED  BY <1>2, <1>3, <1>5 DEF Types

\* The steps of the server keep the types.
LEMMA ServerTypes ==
    ASSUME Types, ServerStep \/ RouterSends \/ RouteErased \/ SweepCloses
    PROVE  Types'
<1>1. ASSUME Close, UNCHANGED <<client, need, sneed, out, up, at, packets>>  PROVE Types'
  <2>1. down' \in Seq(Units)  BY <1>1, CloseUnits
  <2> QED  BY <1>1, <2>1 DEF Types
<1>2. ASSUME ReadFails \/ SweepCloses  PROVE Types'
  <2>1. CASE ReadFails
    BY <2>1, TypesSame DEF ReadFails, ServerEnds, ServerOnly, clientVars, runVars
  <2>2. CASE SweepCloses
    BY <2>2, <1>1 DEF SweepCloses, ServerOnly, clientVars, runVars
  <2> QED  BY <1>2, <2>1, <2>2
<1>3. ASSUME NEW n \in Nat, n <= Len(up), up' = After(up, n),
             UNCHANGED <<client, need, sneed, out, at, packets>>,
             UNCHANGED down \/ Close
      PROVE  Types'
  <2>1. up' \in Seq(Units)  BY <1>3, AfterUnits DEF Types
  <2>2. down' \in Seq(Units)  BY <1>3, CloseUnits DEF Types
  <2> QED  BY <1>3, <2>1, <2>2 DEF Types
<1>4. ASSUME ReadKeySize  PROVE Types'
  <2>1. up # <<>> /\ up' = Tail(up)  BY <1>4 DEF ReadKeySize
  <2>2. up' = After(up, 1) /\ 1 <= Len(up)  BY <2>1, TailAfter DEF Types
  <2>3. UNCHANGED <<client, need, sneed, out, at, packets>> /\ (UNCHANGED down \/ Close)
    BY <1>4 DEF ReadKeySize, Refuse, ServerOnly, clientVars, runVars
  <2> QED  BY <1>3, <2>2, <2>3
<1>5. ASSUME ReadKey  PROVE Types'
  <2>1. UNCHANGED <<client, need, sneed, out, at, packets, down>> /\ up' = After(up, KeyLen)
    BY <1>5 DEF ReadKey, ServerEnds, ServerOnly, clientVars, runVars
  <2>2. KeyLen \in Nat /\ Len(up) \in Nat  BY ClientAssumption, LenProperties DEF Types
  <2>3. KeyLen <= Len(up)  BY <1>5, <2>2 DEF ReadKey
  <2> QED  BY <1>3, <2>1, <2>2, <2>3
<1>6. ASSUME ReadLoginSize \/ ReadFrameSize  PROVE Types'
  BY <1>6, SizeTypes DEF ReadLoginSize, ReadFrameSize, ServerOnly, clientVars, runVars
<1>7. ASSUME ReadLogin  PROVE Types'
  <2>1. /\ UNCHANGED <<client, need, sneed, out, packets>> /\ (UNCHANGED down \/ Close)
        /\ up' = After(up, sneed)
        /\ at' = [at EXCEPT !.sDec = at.sDec + sneed]
    BY <1>7 DEF ReadLogin, Refuse, ServerOnly, clientVars, runVars
  <2>2. sneed \in Nat /\ Len(up) \in Nat /\ at.sDec \in Nat  BY Parts, LenProperties DEF Types
  <2>3. sneed <= Len(up) /\ at.sDec + sneed \in Nat  BY <1>7, <2>2 DEF ReadLogin
  <2>4. at' \in Positions  BY <2>1, <2>3, PositionMoves DEF Types
  <2>5. up' \in Seq(Units)  BY <2>1, <2>2, <2>3, AfterUnits DEF Types
  <2>6. down' \in Seq(Units)  BY <2>1, CloseUnits DEF Types
  <2> QED  BY <2>1, <2>4, <2>5, <2>6 DEF Types
<1>8. ASSUME SendIp \/ RegisterFails  PROVE Types'
  <2> DEFINE e == Encrypted(<<IpLen, 1>>, at.sEnc)
  <2>1. e \in Seq(Units) /\ down \in Seq(Units)  BY Parts, AddressUnits DEF Types
  <2>2. CASE SendIp /\ Refuse /\ UNCHANGED at
    BY <1>8, <2>2, <1>1 DEF SendIp, RegisterFails, Refuse, ServerOnly, clientVars, runVars
  <2>3. CASE ~(SendIp /\ Refuse /\ UNCHANGED at)
    <3>1. at' = [at EXCEPT !.sEnc = at.sEnc + 2] /\ at.sEnc + 2 \in Nat
      BY <1>8, <2>3, Parts DEF SendIp, RegisterFails
    <3>2. at' \in Positions  BY <3>1, PositionMoves DEF Types
    <3>3. down' = down \o e \/ down' = down \o e \o ErrorFrame
      BY <1>8, <2>3 DEF SendIp, RegisterFails
    <3> HIDE DEF e
    <3>4. down \o e \in Seq(Units) /\ down \o e \o ErrorFrame \in Seq(Units)
      BY <2>1, Sent, PlainUnits
    <3>5. UNCHANGED <<client, need, sneed, out, up, packets>>
      BY <1>8, <2>3 DEF SendIp, RegisterFails, ServerOnly, clientVars, runVars
    <3> QED  BY <3>2, <3>3, <3>4, <3>5 DEF Types
  <2> QED  BY <2>2, <2>3
<1>9. ASSUME ReadFrame  PROVE Types'
  <2> DEFINE x == Content(First(up, sneed), at.sDec)
  <2>1. /\ Len(up) >= Amount(sneed)
        /\ up' = After(up, Amount(sneed))
        /\ at' = [at EXCEPT !.sDec = at.sDec + sneed]
        /\ packets' = [packets EXCEPT !.served = Append(@, x)]
        /\ sneed' = 0
        /\ UNCHANGED <<client, need, out, down>>
    BY <1>9 DEF ReadFrame, ServerOnly, clientVars, runVars
  <2>2. sneed \in Nat /\ up \in Seq(Units) /\ at.sDec \in Nat /\ Len(up) \in Nat
    BY Parts, LenProperties DEF Types
  <2>3. Amount(sneed) \in Nat /\ x \in Seq(Int)  BY <2>1, <2>2, ContentRead
  <2>4. Amount(sneed) <= Len(up) /\ at.sDec + sneed \in Nat  BY <2>1, <2>2, <2>3
  <2>5. up' \in Seq(Units)  BY <2>1, <2>2, <2>3, <2>4, AfterUnits
  <2> HIDE DEF x
  <2>6. <<>> \in Seq(Nat)  BY EmptySeq
  <2>7. packets' \in Histories  BY <2>1, <2>3, <2>6, HistoryGrows DEF Types
  <2>8. at' \in Positions  BY <2>1, <2>4, PositionMoves DEF Types
  <2> QED  BY <2>1, <2>5, <2>7, <2>8 DEF Types
<1>10. ASSUME RouterSends  PROVE Types'
  <2>1. PICK p \in PacketsNo(Len(packets.toClient) + 1) :
          /\ down' = down \o Encrypted(Frame(p), at.sEnc)
          /\ at' = [at EXCEPT !.sEnc = at.sEnc + 1 + Len(p)]
          /\ packets' = [packets EXCEPT !.toClient = Append(@, p)]
    BY <1>10 DEF RouterSends
  <2>2. Len(packets.toClient) + 1 \in Nat /\ at.sEnc \in Nat  BY Parts
  <2>3. p \in Seq(Nat) /\ Len(p) \in Nat  BY <2>2, PacketUnits, LenProperties
  <2>11. at.sEnc \in Int  BY <2>2
  <2>4. Encrypted(Frame(p), at.sEnc) \in Seq(Units)  BY <2>3, <2>11, FrameUnits
  <2>5. down' \in Seq(Units)  BY <2>1, <2>4, Sent DEF Types
  <2>6. at.sEnc + 1 + Len(p) \in Nat  BY <2>2, <2>3
  <2>7. at' \in Positions  BY <2>1, <2>6, PositionMoves DEF Types
  <2>8. <<>> \in Seq(Int)  BY EmptySeq
  <2>9. packets' \in Histories  BY <2>1, <2>3, <2>8, HistoryGrows DEF Types
  <2>10. UNCHANGED <<client, need, sneed, out, up>>
    BY <1>10 DEF RouterSends, ServerOnly, clientVars, runVars, serverVars
  <2> QED  BY <2>5, <2>7, <2>9, <2>10 DEF Types
<1>11. ASSUME RouteErased  PROVE Types'
  BY <1>11, TypesSame DEF RouteErased, ServerOnly, clientVars, runVars
<1> QED
  BY <1>2, <1>4, <1>5, <1>6, <1>7, <1>8, <1>9, <1>10, <1>11 DEF ServerStep

-----------------------------------------------------------------------------
(* The login, the answer and the list of logins.                             *)

\* Nothing of what StreamInv is about changes.
LEMMA StreamSame ==
    ASSUME StreamInv, UNCHANGED <<client, spc, sneed, closed, up>>,
           UNCHANGED at.sDec, cpc' = "key" <=> cpc = "key"
    PROVE  StreamInv'
BY DEF StreamInv

\* The server has got beyond the login.
LEMMA StreamOver ==
    ASSUME StreamInv, UNCHANGED cpc, spc' \notin {"key", "rsa", "login", "name"},
           cpc = "key" => spc' = "end"
    PROVE  StreamInv'
BY DEF StreamInv

\* Reads and packets of the client leave the position of the server.
LEMMA SDecSame ==
    ASSUME Types, NEW n, at' \in {at, [at EXCEPT !.cEnc = n], [at EXCEPT !.cDec = n],
                                  [at EXCEPT !.sEnc = n]}
    PROVE  UNCHANGED at.sDec
BY DEF Types, Positions

\* The steps of the client keep StreamInv.
LEMMA ClientStream == ASSUME Types, StreamInv, RunInv, ClientStep PROVE StreamInv'
<1>1. ASSUME \/ ReadEarlyAnswer \/ PeekCallback \/ ReadsUndefined
             \/ SockWrite \/ SignalsDestroyed \/ Dies
      PROVE  StreamInv'
  BY <1>1, StreamSame DEF ReadEarlyAnswer, PeekCallback, ReadsUndefined,
     SockWrite, SignalsDestroyed, Dies, clientVars, serverVars
<1>2. ASSUME CheckEarlyAnswer  PROVE StreamInv'
  BY <1>1, <1>2, StreamSame DEF CheckEarlyAnswer, ClientOnly, serverVars
<1>3. ASSUME SendKey, ~Dies  PROVE StreamInv'
  <2> DEFINE k == <<Clear(client.key)>>
             w == up \o k \o RsaBlock
  <2>1. /\ cpc = "key" /\ cpc' = "check" /\ up' = w
        /\ UNCHANGED <<client, at, spc, sneed, closed>>
    BY <1>3 DEF SendKey, ClientOnly, serverVars
  <2>2. /\ k \in Seq(Units) /\ Len(k) = 1 /\ k[1] = Clear(client.key)
        /\ RsaBlock \in Seq(Units) /\ Len(RsaBlock) = KeyLen
    BY PlainUnits, ClientFields DEF Types
  <2>3. spc \in {"key", "end"}  BY <2>1 DEF StreamInv
  <2>4. ASSUME ~closed, spc = "key"
        PROVE  LoginBehind(client, w, 1 + KeyLen) /\ w[1] = Clear(client.key)
    <3>1. up = <<>>  BY <2>1, <2>4 DEF StreamInv
    <3>2. up \o k = k  BY <2>2, <3>1, ConcatEmptySeq
    <3> HIDE DEF k
    <3>3. w = k \o RsaBlock  BY <3>2
    <3>4. /\ Len(k \o RsaBlock) = Len(k) + Len(RsaBlock)
          /\ \A i \in 1 .. Len(k) : (k \o RsaBlock)[i] = k[i]
      BY <2>2, Sent
    <3> HIDE DEF w
    <3>5. Len(w) = 1 + KeyLen /\ w[1] = Clear(client.key)  BY <2>2, <3>3, <3>4
    <3> QED  BY <3>5, ClientAssumption DEF LoginBehind
  <2> HIDE DEF w
  <2> QED  BY <2>1, <2>3, <2>4 DEF StreamInv
<1>4. ASSUME SendLogin, ~Dies  PROVE StreamInv'
  <2> DEFINE b == Encrypted(<<client.field>> \o client.login, 0)
  <2>1. /\ cpc = "login" /\ cpc' # "key" /\ up' = up \o b
        /\ at' = [at EXCEPT !.cEnc = 1 + Len(client.login)]
        /\ UNCHANGED <<client, spc, sneed, closed>>
    BY <1>4 DEF SendLogin, ClientOnly, serverVars
  <2>2. UNCHANGED at.sDec  BY <2>1, SDecSame
  <2>3. client \in Clients /\ up \in Seq(Units)  BY DEF Types
  <2>4. ASSUME NEW n \in Nat, LoginBehind(client, up, n)
        PROVE  LoginBehind(client, up \o b, n)
    BY <2>3, <2>4, LoginSent
  <2>12. b \in Seq(Units)
    <3>1. client.field \in Nat /\ client.login \in Seq(Nat)  BY <2>3, ClientFields
    <3>2. <<client.field>> \o client.login \in Seq(Nat)  BY <3>1, FrameValues
    <3>3. 0 \in Int  OBVIOUS
    <3> QED  BY <3>2, <3>3, EncryptedUnits
  <2>5. ASSUME LoginFirst(client, up)  PROVE LoginFirst(client, up \o b)
    BY <2>3, <2>5, <2>12, LoginStays
  <2>6. up[1] = (up \o b)[1] \/ up = <<>>
    <3> HIDE DEF b
    <3>1. CASE up # <<>>
      <4>1. 1 \in 1 .. Len(up)  BY <2>3, <3>1, EmptySeq
      <4> QED  BY <2>3, <2>12, <4>1, Sent
    <3> QED  BY <3>1
  <2>7. LoginBehind(client, up, 1 + KeyLen) => up # <<>>
    BY ClientAssumption, EmptySeq DEF LoginBehind
  <2> HIDE DEF b
  <2>8. 1 + KeyLen \in Nat /\ KeyLen \in Nat /\ 0 \in Nat  BY ClientAssumption
  <2>9. ~closed /\ spc = "key" =>
          LoginBehind(client, up \o b, 1 + KeyLen) /\ (up \o b)[1] = Clear(client.key)
    BY <2>1, <2>4, <2>6, <2>7, <2>8 DEF StreamInv
  <2>10. ~closed /\ spc = "rsa" => LoginBehind(client, up \o b, KeyLen)
    BY <2>4, <2>8 DEF StreamInv
  <2>11. ~closed /\ spc = "login" => LoginBehind(client, up \o b, 0)
    BY <2>4, <2>8 DEF StreamInv
  <2> QED  BY <2>1, <2>2, <2>5, <2>9, <2>10, <2>11 DEF StreamInv
<1>5. ASSUME ReadIpSize \/ ReadIp \/ SockReadSize \/ SockReadBody \/ TunRead, ~Dies
      PROVE  StreamInv'
  <2>1. UNCHANGED <<client, spc, sneed, closed, up>> /\ (cpc' = "key" <=> cpc = "key")
    BY <1>5 DEF ReadIpSize, ReadIp, SockReadSize, SockReadBody, TunRead, ClientOnly,
       clientVars, serverVars, SetupTun
  <2>2. \E n : at' \in {at, [at EXCEPT !.cEnc = n], [at EXCEPT !.cDec = n]}
    BY <1>5 DEF ReadIpSize, ReadIp, SockReadSize, SockReadBody, TunRead, ReadBlockSize
  <2>3. UNCHANGED at.sDec  BY <2>2, SDecSame
  <2> QED  BY <2>1, <2>3, StreamSame
<1>6. ASSUME TunSend, ~Dies  PROVE StreamInv'
  <2>1. cpc = "run" /\ (closed \/ spc \in {"frame", "body", "end"})
    BY <1>6 DEF TunSend, RunInv
  <2>2. UNCHANGED <<client, cpc, spc, sneed, closed>>
    BY <1>6 DEF TunSend, clientVars, serverVars
  <2> QED  BY <2>1, <2>2 DEF StreamInv
<1> QED
  BY <1>1, <1>2, <1>3, <1>4, <1>5, <1>6 DEF ClientStep, StartAsync

\* The steps of the server keep StreamInv.
LEMMA ServerStream ==
    ASSUME Types, StreamInv, ServerStep \/ RouterSends \/ RouteErased \/ SweepCloses
    PROVE  StreamInv'
<1>1. UNCHANGED <<client, cpc>>
  BY DEF ServerStep, ReadFails, ReadKeySize, ReadKey, ReadLoginSize, ReadLogin, SendIp,
     RegisterFails, ReadFrameSize, ReadFrame, RouterSends, RouteErased, SweepCloses, ServerOnly,
     clientVars
<1>2. ASSUME SweepCloses  PROVE StreamInv'
  BY <1>1, <1>2 DEF SweepCloses, Close, StreamInv
<1>3. ASSUME RouterSends \/ RouteErased  PROVE StreamInv'
  <2>1. UNCHANGED <<spc, sneed, closed, up>>  BY <1>3 DEF RouterSends, RouteErased, serverVars
  <2>2. \E n : at' \in {at, [at EXCEPT !.sEnc = n]}  BY <1>3 DEF RouterSends, RouteErased
  <2>3. UNCHANGED at.sDec  BY <2>2, SDecSame
  <2> QED  BY <1>1, <2>1, <2>3, StreamSame
<1>4. ASSUME \/ ReadFails \/ SendIp \/ RegisterFails \/ ReadFrameSize \/ ReadFrame
      PROVE  StreamInv'
  <2>1. spc' \in {"frame", "body", "end"} /\ (spc' = "end" \/ spc \notin {"key", "end"})
    BY <1>4 DEF ReadFails, ServerEnds, SendIp, Refuse, RegisterFails, ReadFrameSize, ReadFrame
  <2>2. cpc = "key" => spc' = "end"  BY <2>1 DEF StreamInv
  <2> QED  BY <1>1, <2>1, <2>2, StreamOver
<1>5. ASSUME ReadKeySize  PROVE StreamInv'
  <2>1. ~closed /\ spc = "key" /\ up # <<>> /\ up \in Seq(Units) /\ up' = Tail(up)
        /\ UNCHANGED at
    BY <1>5 DEF ReadKeySize, Types
  <2>2. cpc # "key" /\ LoginBehind(client, up, 1 + KeyLen)  BY <2>1 DEF StreamInv
  <2>3. CASE spc' = "end"  BY <1>1, <2>3, StreamOver
  <2>4. CASE spc' # "end"
    <3>1. spc' = "rsa" /\ UNCHANGED closed  BY <1>5, <2>4 DEF ReadKeySize, Refuse
    <3>2. 1 \in Nat /\ KeyLen \in Nat /\ client \in Clients  BY ClientAssumption DEF Types
    <3>3. LoginBehind(client, After(up, 1), KeyLen)  BY <2>1, <2>2, <3>2, ReadBefore
    <3>4. LoginBehind(client, up', KeyLen)  BY <2>1, <3>3, TailAfter
    <3> QED  BY <1>1, <2>1, <2>2, <3>1, <3>4 DEF StreamInv
  <2> QED  BY <2>3, <2>4
<1>6. ASSUME ReadKey  PROVE StreamInv'
  <2>1. ~closed /\ spc = "rsa" /\ up \in Seq(Units) /\ up' = After(up, KeyLen)
        /\ UNCHANGED at
    BY <1>6 DEF ReadKey, Types
  <2>2. cpc # "key" /\ LoginBehind(client, up, KeyLen)  BY <2>1 DEF StreamInv
  <2>3. CASE spc' = "end"  BY <1>1, <2>2, <2>3, StreamOver
  <2>4. CASE spc' # "end"
    <3>1. spc' = "login" /\ UNCHANGED closed  BY <1>6, <2>4 DEF ReadKey, ServerEnds
    <3>2. 0 \in Nat /\ KeyLen \in Nat /\ KeyLen + 0 = KeyLen /\ client \in Clients
      BY ClientAssumption DEF Types
    <3>3. LoginBehind(client, up, KeyLen + 0)  BY <2>2, <3>2
    <3>4. LoginBehind(client, up', 0)  BY <2>1, <3>2, <3>3, ReadBefore
    <3> QED  BY <1>1, <2>1, <2>2, <3>1, <3>4 DEF StreamInv
  <2> QED  BY <2>3, <2>4
<1>7. ASSUME ReadLoginSize  PROVE StreamInv'
  <2>1. /\ ~closed /\ spc = "login" /\ up # <<>> /\ up \in Seq(Units) /\ up' = Tail(up)
        /\ at' = [at EXCEPT !.sDec = @ + 1] /\ sneed' \in Sizes(Head(up), at.sDec)
        /\ spc' \in {"end", "name"}
    BY <1>7 DEF ReadLoginSize, Types
  <2>2. cpc # "key" /\ LoginBehind(client, up, 0) /\ at.sDec = 0  BY <2>1 DEF StreamInv
  <2>3. client \in Clients  BY DEF Types
  <2>4. Sizes(Head(up), 0) = {client.field} /\ LoginFirst(client, Tail(up))
    BY <2>1, <2>2, <2>3, SizeRead
  <2>5. sneed' = client.field /\ LoginFirst(client, up')  BY <2>1, <2>2, <2>4
  <2>6. at'.sDec = 1  BY <2>1, <2>2 DEF Types, Positions
  <2> QED  BY <1>1, <2>1, <2>2, <2>5, <2>6 DEF StreamInv
<1>8. ASSUME ReadLogin  PROVE StreamInv'
  <2>1. spc' \in {"sendip", "end"} /\ spc = "name"  BY <1>8 DEF ReadLogin, Refuse
  <2>2. cpc # "key"  BY <2>1 DEF StreamInv
  <2> QED  BY <1>1, <2>1, <2>2, StreamOver
<1> QED
  BY <1>2, <1>3, <1>4, <1>5, <1>6, <1>7, <1>8 DEF ServerStep

\* The steps of the client keep RunInv: they go on only with an answer.
LEMMA ClientRun == ASSUME RunInv, ClientStep PROVE RunInv'
<1>1. ASSUME \/ CheckEarlyAnswer \/ ReadEarlyAnswer \/ PeekCallback \/ ReadsUndefined
             \/ SockWrite \/ SignalsDestroyed \/ Dies
             \/ SendKey \/ SendLogin \/ TunRead \/ TunSend
      PROVE  RunInv'
  BY <1>1 DEF RunInv, CheckEarlyAnswer, ReadEarlyAnswer, PeekCallback, ReadsUndefined,
     SockWrite, SignalsDestroyed, Dies, SendKey, SendLogin, TunRead,
     TunSend, ClientOnly, clientVars, runVars, serverVars
<1>2. ASSUME ReadIpSize, ~Dies  PROVE RunInv'
  BY <1>2 DEF RunInv, ReadIpSize, ReadBlockSize, ClientOnly, runVars, serverVars
<1>3. ASSUME ReadIp, ~Dies  PROVE RunInv'
  BY <1>3 DEF RunInv, ReadIp, ClientOnly, serverVars, SetupTun
<1>4. ASSUME SockReadSize, ~Dies  PROVE RunInv'
  BY <1>4 DEF RunInv, SockReadSize, ReadBlockSize, clientVars, serverVars
<1>5. ASSUME SockReadBody, ~Dies  PROVE RunInv'
  <2>1. sockReader = "body" /\ UNCHANGED <<cpc, tunReader, spc, routed, closed>>
    BY <1>5 DEF SockReadBody, clientVars, serverVars
  <2> QED  BY <2>1 DEF RunInv
<1> QED
  BY <1>1, <1>2, <1>3, <1>4, <1>5 DEF ClientStep, StartAsync

\* The steps of the server keep RunInv.
LEMMA ServerRun ==
    ASSUME RunInv, ServerStep \/ RouterSends \/ RouteErased \/ SweepCloses
    PROVE  RunInv'
<1>1. UNCHANGED <<cpc, tunReader, sockReader>>
  BY DEF ServerStep, ReadFails, ReadKeySize, ReadKey, ReadLoginSize, ReadLogin, SendIp,
     RegisterFails, ReadFrameSize, ReadFrame, RouterSends, RouteErased, SweepCloses, ServerOnly,
     clientVars, runVars
<1>2. ASSUME SweepCloses \/ ReadFails \/ SendIp \/ RegisterFails \/ ReadFrameSize
             \/ ReadFrame \/ RouterSends \/ RouteErased
      PROVE  /\ closed' \/ spc' \in {"frame", "body", "end"}
             /\ routed' => spc' \in {"frame", "body", "end"}
  BY <1>2 DEF SweepCloses, Close, ReadFails, ServerEnds, SendIp, Refuse, RegisterFails,
     ReadFrameSize, ReadFrame, RouterSends, RouteErased, serverVars, RunInv
<1>3. ASSUME ReadKeySize \/ ReadKey \/ ReadLoginSize \/ ReadLogin
      PROVE  (closed' \/ UNCHANGED down) /\ UNCHANGED routed
  BY <1>3 DEF ReadKeySize, ReadKey, ReadLoginSize, ReadLogin, Refuse, Close, ServerEnds
<1>4. ASSUME ReadKeySize \/ ReadKey \/ ReadLoginSize \/ ReadLogin
      PROVE  ~closed /\ spc \notin {"frame", "body", "end"}
  BY <1>4 DEF ReadKeySize, ReadKey, ReadLoginSize, ReadLogin
<1>5. ASSUME ReadKeySize \/ ReadKey \/ ReadLoginSize \/ ReadLogin  PROVE RunInv'
  BY <1>1, <1>3, <1>4, <1>5 DEF RunInv
<1>6. CASE ~(ReadKeySize \/ ReadKey \/ ReadLoginSize \/ ReadLogin)
  BY <1>1, <1>2, <1>6 DEF RunInv, ServerStep
<1> QED  BY <1>5, <1>6

\* Serving starts with a login that is allowed, and keeps its client.
LEMMA NextAllowed == ASSUME Types, StreamInv, AllowedInv, Next PROVE AllowedInv'
<1> USE DEF AllowedInv, LoginAllowed, Serving
<1>1. ASSUME ClientStep
      PROVE  UNCHANGED <<client, spc, routed, packets.served, packets.toClient>>
  <2>1. UNCHANGED <<client, spc, routed>>
    BY <1>1 DEF ClientStep, StartAsync, SendKey, CheckEarlyAnswer, ReadEarlyAnswer, SendLogin,
       ReadIpSize, ReadIp, PeekCallback, ReadsUndefined, TunRead, TunSend, SockReadSize,
       SockReadBody, SockWrite, SignalsDestroyed, Dies, ClientOnly,
       clientVars, serverVars
  <2>2. \/ UNCHANGED packets
        \/ \E x : packets' = [packets EXCEPT !.toServer = x]
        \/ \E x : packets' = [packets EXCEPT !.received = x]
    BY <1>1 DEF ClientStep, StartAsync, SendKey, CheckEarlyAnswer, ReadEarlyAnswer, SendLogin,
       ReadIpSize, ReadIp, PeekCallback, ReadsUndefined, TunRead, TunSend, SockReadSize,
       SockReadBody, SockWrite, SignalsDestroyed, Dies
  <2>3. UNCHANGED <<packets.served, packets.toClient>>  BY <2>2 DEF Types, Histories
  <2> QED  BY <2>1, <2>3
<1>2. ASSUME ServerStep \/ RouterSends \/ RouteErased \/ SweepCloses  PROVE UNCHANGED client
  BY <1>2 DEF ServerStep, ReadFails, ReadKeySize, ReadKey, ReadLoginSize, ReadLogin, SendIp,
     RegisterFails, ReadFrameSize, ReadFrame, RouterSends, RouteErased, SweepCloses, ServerOnly,
     clientVars
<1>3. ASSUME ReadLogin  PROVE AllowedInv'
  <2>1. /\ ~closed /\ spc = "name" /\ UNCHANGED <<packets, routed>>
        /\ spc' = "end" \/ (spc' = "sendip" /\ Content(First(up, sneed), at.sDec) \in Allowed)
    BY <1>3 DEF ReadLogin, Refuse
  <2>2. LoginFirst(client, up) /\ sneed = client.field /\ at.sDec = 1
    BY <2>1 DEF StreamInv
  <2>3. Content(First(up, sneed), at.sDec) = First(client.login, client.field)
    BY <2>2, LoginRead DEF Types
  <2> QED  BY <1>2, <1>3, <2>1, <2>3 DEF ServerStep
<1>4. ASSUME \/ ReadFails \/ ReadKeySize \/ ReadKey \/ ReadLoginSize \/ RouteErased
             \/ SweepCloses
      PROVE  /\ UNCHANGED packets /\ (routed' => routed)
             /\ spc' = spc \/ spc' \notin {"sendip", "frame", "body"}
  BY <1>4 DEF ReadFails, ServerEnds, ReadKeySize, Refuse, ReadKey, ReadLoginSize, RouteErased,
     SweepCloses
<1>5. ASSUME SendIp \/ RegisterFails \/ ReadFrameSize \/ ReadFrame \/ RouterSends
      PROVE  LoginAllowed'
  <2>1. spc \in {"sendip", "frame", "body"} \/ routed
    BY <1>5 DEF SendIp, RegisterFails, ReadFrameSize, ReadFrame, RouterSends
  <2> QED  BY <1>2, <1>5, <2>1 DEF ServerStep
<1> QED
  BY <1>1, <1>2, <1>3, <1>4, <1>5 DEF Next, ServerStep

-----------------------------------------------------------------------------
(* The theorems.                                                             *)

\* Init implies Inv.
LEMMA InitInv == ASSUME Init PROVE Inv
<1>1. <<>> \in Seq(Nat) /\ <<>> \in Seq(Units) /\ <<>> \in Seq(Seq(Nat))
      /\ <<>> \in Seq(Seq(Int)) /\ Len(<<>>) = 0
  BY EmptySeq
<1>2. Types
  BY <1>1 DEF Init, Types, Positions, Histories, ClientSession, ServerSession, Create,
     Iv1, Iv2
<1>3. StreamInv /\ RunInv
  BY DEF Init, StreamInv, RunInv, ServerSession, Create, Iv1
<1>4. AllowedInv  BY DEF Init, AllowedInv, Serving
<1> QED  BY <1>2, <1>3, <1>4 DEF Inv

\* Every step keeps Inv.
LEMMA NextInv == ASSUME Inv, [Next]_vars PROVE Inv'
<1>1. CASE UNCHANGED vars
  BY <1>1 DEF vars, clientVars, runVars, serverVars, Inv, Types, StreamInv, RunInv,
     AllowedInv, LoginAllowed, Serving
<1>2. CASE Next
  <2>1. Types'  BY <1>2, ClientTypes, ServerTypes DEF Inv, Next
  <2>2. StreamInv'  BY <1>2, ClientStream, ServerStream DEF Inv, Next
  <2>3. RunInv'  BY <1>2, ClientRun, ServerRun DEF Inv, Next
  <2>4. AllowedInv'  BY <1>2, NextAllowed DEF Inv
  <2> QED  BY <2>1, <2>2, <2>3, <2>4 DEF Inv
<1> QED  BY <1>1, <1>2

\* Whatever a client puts in its fields, authenticateUser lets none be served
\* whose login, as far as its length field covers it, is not in the list.
THEOREM OnlyAllowed == Spec => []OnlyAllowedServed
<1>1. Inv => OnlyAllowedServed  BY DEF Inv, AllowedInv, LoginAllowed, OnlyAllowedServed
<1> QED  BY <1>1, InitInv, NextInv, PTL DEF Spec

-----------------------------------------------------------------------------
(* The two streams: where the packets of each direction are in them.         *)

\* B[k] is where the frame of packet k + 1 starts in a stream that carries the
\* packets ps from position start on, B[Len(ps)] where the stream is now.
Bounds(B, ps, start) ==
    /\ B \in [0 .. Len(ps) -> Nat]
    /\ B[0] = start
    /\ \A k \in 1 .. Len(ps) : B[k] = B[k - 1] + 1 + Len(ps[k])
    /\ \A k \in 0 .. Len(ps) : start <= B[k] /\ B[k] <= B[Len(ps)]

\* Unit u was encrypted at position q, and is what the packets have there.
Carries(u, q, B, ps) ==
    /\ u.pos = q
    /\ \A k \in 1 .. Len(ps) :
         /\ q = B[k - 1] => u.v = Len(ps[k])
         /\ \A j \in 1 .. Len(ps[k]) : q = B[k - 1] + j => u.v = ps[k][j]

\* Behind d units, us holds the positions from q up to e.
Carried(us, d, q, e, B, ps) ==
    /\ q <= e
    /\ Len(us) >= d + (e - q)
    /\ \A i \in 1 .. e - q : Carries(us[d + i], q + i - 1, B, ps)

Lengths(ps) == \A k \in 1 .. Len(ps) : Len(ps[k]) \in 1 .. MaxPacket

\* hs are the first of the packets ps.
Begins(hs, ps) ==
    /\ Len(hs) <= Len(ps)
    /\ \A k \in 1 .. Len(hs) : hs[k] = ps[k]

\* A reader of the stream is before a frame, or has read the size sz of one.
ReaderAt(q, inBody, sz, hs, B, ps) ==
    IF inBody
    THEN Len(hs) < Len(ps) /\ sz = Len(ps[Len(hs) + 1]) /\ q = B[Len(hs)] + 1
    ELSE q = B[Len(hs)]

\* The units of the key block that the server has still to read, and the end of
\* what the client has sent.
KeyUnits == IF spc = "key" THEN 1 + KeyLen ELSE IF spc = "rsa" THEN KeyLen ELSE 0
UpEnd(B) == IF logins = 0 THEN B[Len(packets.toServer)] ELSE 0

LoggingIn == spc \in {"login", "name", "sendip"}
Tracked ==
    \/ LoggingIn \/ Serving
    \/ ~closed /\ (spc = "rsa" \/ (spc = "key" /\ cpc # "key"))

\* What a client that keeps to the protocol has sent, and how far the server is.
UpWriter(B) ==
    /\ logins = IF cpc \in {"key", "check", "early", "login"} THEN 1 ELSE 0
    /\ logins = 1 => packets.toServer = <<>> /\ tunReader = "off"
    /\ logins = 0 =>
         at.cEnc = B[Len(packets.toServer)] + (IF tunReader = "send" THEN 1 + Len(out) ELSE 0)
    /\ tunReader = "send" => Len(out) \in 1 .. MaxPacket
    /\ Lengths(packets.toServer)

UpReader(B) ==
    /\ Begins(packets.served, packets.toServer)
    /\ spc \in {"key", "rsa", "login", "name", "sendip"} => packets.served = <<>>
    /\ spc = "sendip" => at.sDec = 1 + Len(client.login)
    /\ Serving =>
         ReaderAt(at.sDec, spc = "body", sneed, packets.served, B, packets.toServer)

UpStream(B) ==
    Tracked => /\ Carried(up, KeyUnits, at.sDec, UpEnd(B), B, packets.toServer)
               /\ Len(up) = KeyUnits + (UpEnd(B) - at.sDec)

UpAt(B) ==
    /\ Bounds(B, packets.toServer, 1 + Len(client.login))
    /\ UpWriter(B) /\ UpReader(B) /\ UpStream(B)

UpInv == Conforming => \E B : UpAt(B)

\* What the server has sent, and how far the client is.
DownWriter(C) ==
    /\ \/ at.sEnc = Iv2 /\ packets.toClient = <<>>
       \/ at.sEnc = C[Len(packets.toClient)]
    /\ Serving \/ routed => at.sEnc = C[Len(packets.toClient)]
    /\ spc \in {"key", "rsa"} \/ LoggingIn => at.sEnc = Iv2
    /\ Lengths(packets.toClient)

\* us holds the stream from q to e and, when the server has closed, the error
\* frame.
Underway(us, q, e, cl, C, ps) ==
    /\ Carried(us, 0, q, e, C, ps)
    /\ q = Iv2 /\ e > Iv2 => us[1].v = IpLen
    /\ Len(us) = (e - q) + (IF cl THEN 2 ELSE 0)
    /\ cl => us[(e - q) + 1] = Clear(Mark) /\ us[(e - q) + 2].pos = Plain

DownStream(C) == Underway(down, at.cDec, at.sEnc, closed, C, packets.toClient)

DownReader(C) ==
    /\ Begins(packets.received, packets.toClient)
    /\ cpc \notin {"ip", "run"} => at.cDec = Iv2
    /\ cpc = "ip" => at.cDec = Iv2 + 1 /\ at.sEnc > at.cDec
    /\ cpc # "run" => packets.received = <<>> /\ sockReader = "off"
    /\ Alive /\ sockReader \in {"size", "body", "write"} =>
         ReaderAt(at.cDec, sockReader = "body", need, packets.received, C, packets.toClient)

DownAt(C) ==
    /\ Bounds(C, packets.toClient, Iv2 + 2)
    /\ DownWriter(C) /\ DownStream(C) /\ DownReader(C)

DownInv == ~stale => \E C : DownAt(C)

-----------------------------------------------------------------------------
(* Lemmas about streams of frames.                                           *)

\* A packet is added to a stream.
Grown(B, ps, p) ==
    [k \in 0 .. Len(ps) + 1 |-> IF k = Len(ps) + 1 THEN B[Len(ps)] + 1 + Len(p) ELSE B[k]]

LEMMA BoundsTypes ==
    ASSUME NEW ps \in Seq(Seq(Nat)), NEW start \in Nat, NEW B, Bounds(B, ps, start)
    PROVE  /\ Len(ps) \in Nat
           /\ \A k \in 0 .. Len(ps) : B[k] \in Nat /\ start <= B[k] /\ B[k] <= B[Len(ps)]
           /\ B[Len(ps)] \in Nat
           /\ \A k \in 1 .. Len(ps) : /\ ps[k] \in Seq(Nat) /\ Len(ps[k]) \in Nat
                                      /\ B[k - 1] \in Nat
                                      /\ B[k] = B[k - 1] + 1 + Len(ps[k])
<1>1. Len(ps) \in Nat  BY LenProperties
<1>2. \A k \in 0 .. Len(ps) : B[k] \in Nat  BY <1>1 DEF Bounds
<1>3. \A k \in 1 .. Len(ps) : ps[k] \in Seq(Nat) /\ Len(ps[k]) \in Nat
  BY <1>1, ElementOfSeq, LenProperties
<1>4. \A k \in 1 .. Len(ps) : k - 1 \in 0 .. Len(ps)  BY <1>1
<1>5. Len(ps) \in 0 .. Len(ps)  BY <1>1
<1> QED  BY <1>1, <1>2, <1>3, <1>4, <1>5 DEF Bounds

LEMMA Appended ==
    ASSUME NEW S, NEW s \in Seq(S), NEW e \in S
    PROVE  /\ Append(s, e) \in Seq(S)
           /\ Len(Append(s, e)) = Len(s) + 1
           /\ \A i \in 1 .. Len(s) : Append(s, e)[i] = s[i]
           /\ Append(s, e)[Len(s) + 1] = e
BY AppendProperties

LEMMA BoundsGrow ==
    ASSUME NEW ps \in Seq(Seq(Nat)), NEW p \in Seq(Nat), NEW start \in Nat, NEW B,
           Bounds(B, ps, start)
    PROVE  /\ Bounds(Grown(B, ps, p), Append(ps, p), start)
           /\ \A k \in 0 .. Len(ps) : Grown(B, ps, p)[k] = B[k]
           /\ Grown(B, ps, p)[Len(ps) + 1] = B[Len(ps)] + 1 + Len(p)
<1> DEFINE n == Len(ps)
           E == Grown(B, ps, p)
           qs == Append(ps, p)
           l == Len(p)
<1>1. n \in Nat /\ l \in Nat  BY LenProperties
<1>2. Len(qs) = n + 1 /\ (\A k \in 1 .. n : qs[k] = ps[k]) /\ qs[n + 1] = p
  BY Appended
<1>3. \A k \in 0 .. n : B[k] \in Nat /\ start <= B[k] /\ B[k] <= B[n]  BY BoundsTypes
<1>4. \A k \in 1 .. n : B[k] = B[k - 1] + 1 + Len(ps[k])  BY BoundsTypes
<1>5. B[0] = start /\ B[n] \in Nat  BY BoundsTypes DEF Bounds
<1>6. E = [k \in 0 .. n + 1 |-> IF k = n + 1 THEN B[n] + 1 + l ELSE B[k]]  BY DEF Grown
<1> HIDE DEF n, E, qs, l
<1>7. \A k \in 0 .. n : k \in 0 .. n + 1 /\ k # n + 1  BY <1>1
<1>8. \A k \in 0 .. n : E[k] = B[k]  BY <1>6, <1>7
<1>9. E[n + 1] = B[n] + 1 + l
  <2>1. n + 1 \in 0 .. n + 1  BY <1>1
  <2> QED  BY <1>6, <2>1
<1>10. E \in [0 .. n + 1 -> Nat]
  <2>1. \A k \in 0 .. n + 1 : (IF k = n + 1 THEN B[n] + 1 + l ELSE B[k]) \in Nat
    <3>1. B[n] + 1 + l \in Nat  BY <1>1, <1>5
    <3>2. \A k \in 0 .. n + 1 : k # n + 1 => k \in 0 .. n  BY <1>1
    <3> QED  BY <1>3, <3>1, <3>2
  <2> QED  BY <1>6, <2>1
<1>11. E[0] = start
  <2>1. 0 \in 0 .. n  BY <1>1
  <2> QED  BY <1>5, <1>8, <2>1
<1>12. ASSUME NEW k \in 1 .. n + 1  PROVE E[k] = E[k - 1] + 1 + Len(qs[k])
  <2>1. CASE k = n + 1
    <3>1. k - 1 = n /\ n \in 0 .. n  BY <1>1, <2>1
    <3> QED  BY <1>2, <1>8, <1>9, <2>1, <3>1 DEF l
  <2>2. CASE k # n + 1
    <3>1. k \in 1 .. n /\ k \in 0 .. n /\ k - 1 \in 0 .. n  BY <1>1, <2>2
    <3> QED  BY <1>2, <1>4, <1>8, <3>1
  <2> QED  BY <2>1, <2>2
<1>13. ASSUME NEW k \in 0 .. n + 1  PROVE start <= E[k] /\ E[k] <= E[n + 1]
  <2>1. B[n] <= E[n + 1] /\ start <= B[n]
    <3>1. n \in 0 .. n  BY <1>1
    <3> QED  BY <1>1, <1>3, <1>5, <1>9, <3>1
  <2>2. CASE k = n + 1
    <3>1. E[n + 1] \in Nat  BY <1>1, <1>5, <1>9
    <3> QED  BY <1>5, <2>1, <2>2, <3>1
  <2>3. CASE k # n + 1
    <3>1. k \in 0 .. n  BY <1>1, <2>3
    <3>2. E[k] = B[k] /\ B[k] \in Nat /\ start <= B[k] /\ B[k] <= B[n]  BY <1>3, <1>8, <3>1
    <3>3. E[n + 1] \in Nat  BY <1>1, <1>5, <1>9
    <3> QED  BY <1>5, <2>1, <3>2, <3>3
  <2> QED  BY <2>2, <2>3
<1>14. Bounds(E, qs, start)
  BY <1>2, <1>10, <1>11, <1>12, <1>13 DEF Bounds
<1> QED  BY <1>8, <1>9, <1>14 DEF n, E, qs, l

\* What was in the stream is still what the packets have there.
LEMMA CarriesGrow ==
    ASSUME NEW ps \in Seq(Seq(Nat)), NEW p \in Seq(Nat), NEW start \in Nat, NEW B,
           Bounds(B, ps, start), NEW u, NEW q \in Nat, q < B[Len(ps)], Carries(u, q, B, ps)
    PROVE  Carries(u, q, Grown(B, ps, p), Append(ps, p))
<1> DEFINE n == Len(ps)
           E == Grown(B, ps, p)
           qs == Append(ps, p)
<1>1. n \in Nat /\ B[n] \in Nat /\ q < B[n]  BY BoundsTypes
<1>2. Len(qs) = n + 1 /\ (\A k \in 1 .. n : qs[k] = ps[k]) /\ qs[n + 1] = p
  BY Appended
<1>3. \A k \in 0 .. n : E[k] = B[k]  BY BoundsGrow
<1>4. /\ u.pos = q
      /\ \A k \in 1 .. n :
           /\ q = B[k - 1] => u.v = Len(ps[k])
           /\ \A j \in 1 .. Len(ps[k]) : q = B[k - 1] + j => u.v = ps[k][j]
  BY DEF Carries
<1>5. Len(p) \in Nat  BY LenProperties
<1> HIDE DEF n, E, qs
<1>6. ASSUME NEW k \in 1 .. n + 1
      PROVE  /\ q = E[k - 1] => u.v = Len(qs[k])
             /\ \A j \in 1 .. Len(qs[k]) : q = E[k - 1] + j => u.v = qs[k][j]
  <2>1. CASE k = n + 1
    <3>1. k - 1 = n /\ n \in 0 .. n  BY <1>1, <2>1
    <3>2. E[k - 1] = B[n] /\ qs[k] = p  BY <1>2, <1>3, <2>1, <3>1
    <3>3. q # B[n]  BY <1>1
    <3>4. \A j \in 1 .. Len(p) : q # B[n] + j  BY <1>1, <1>5
    <3> QED  BY <3>2, <3>3, <3>4
  <2>2. CASE k # n + 1
    <3>1. k \in 1 .. n /\ k - 1 \in 0 .. n  BY <1>1, <2>2
    <3>2. qs[k] = ps[k] /\ E[k - 1] = B[k - 1]  BY <1>2, <1>3, <3>1
    <3> QED  BY <1>4, <3>1, <3>2
  <2> QED  BY <2>1, <2>2
<1> QED  BY <1>2, <1>4, <1>6 DEF Carries, n, E, qs

\* The frame of the packet is what the packets have at its place.
LEMMA FrameCarries ==
    ASSUME NEW ps \in Seq(Seq(Nat)), NEW p \in Seq(Nat), NEW start \in Nat, NEW B,
           Bounds(B, ps, start), NEW i \in 1 .. 1 + Len(p)
    PROVE  Carries(Encrypted(Frame(p), B[Len(ps)])[i], B[Len(ps)] + i - 1,
                   Grown(B, ps, p), Append(ps, p))
<1> DEFINE n == Len(ps)
           b == B[n]
           E == Grown(B, ps, p)
           qs == Append(ps, p)
           f == Frame(p)
           l == Len(p)
           u == Encrypted(f, b)[i]
           q == b + i - 1
<1>1. n \in Nat /\ b \in Nat /\ l \in Nat  BY BoundsTypes, LenProperties
<1>2. Len(qs) = n + 1 /\ (\A k \in 1 .. n : qs[k] = ps[k]) /\ qs[n + 1] = p
  BY Appended
<1>3. \A k \in 0 .. n : E[k] = B[k]  BY BoundsGrow
<1>4. f \in Seq(Nat) /\ Len(f) = 1 + l /\ f[1] = l /\ \A j \in 1 .. l : f[1 + j] = p[j]
  BY <1>1, FrameValues DEF Frame
<1> HIDE DEF f
<1>5. u = [v |-> f[i], pos |-> q]
  <2>1. b \in Int  BY <1>1
  <2> QED  BY <1>4, <2>1, EncryptedUnits
<1>6. \A k \in 1 .. n : /\ B[k] = B[k - 1] + 1 + Len(ps[k]) /\ B[k] \in Nat /\ B[k - 1] \in Nat
                        /\ Len(ps[k]) \in Nat /\ B[k] <= b
  <2>1. \A k \in 1 .. n : k \in 0 .. n  BY <1>1
  <2> QED  BY <2>1, BoundsTypes
<1>12. i \in 1 .. 1 + l  OBVIOUS
<1> HIDE DEF n, b, E, qs, l, u, q
<1>7. q \in Nat /\ b <= q  BY <1>1, <1>12 DEF q
<1>8. ASSUME NEW k \in 1 .. n + 1
      PROVE  /\ q = E[k - 1] => u.v = Len(qs[k])
             /\ \A j \in 1 .. Len(qs[k]) : q = E[k - 1] + j => u.v = qs[k][j]
  <2>1. CASE k = n + 1
    <3>1. k - 1 = n /\ n \in 0 .. n  BY <1>1, <2>1
    <3>2. E[k - 1] = b /\ qs[k] = p  BY <1>2, <1>3, <2>1, <3>1 DEF b
    <3>3. q = b => i = 1  BY <1>1, <1>12 DEF q
    <3>4. ASSUME NEW j \in 1 .. l, q = b + j  PROVE i = 1 + j
      BY <1>1, <1>12, <3>4 DEF q
    <3> QED  BY <1>4, <1>5, <3>2, <3>3, <3>4 DEF l
  <2>2. CASE k # n + 1
    <3>1. k \in 1 .. n /\ k - 1 \in 0 .. n  BY <1>1, <2>2
    <3>2. qs[k] = ps[k] /\ E[k - 1] = B[k - 1]  BY <1>2, <1>3, <3>1
    <3> DEFINE c == B[k - 1]
               m == Len(ps[k])
    <3>3. /\ B[k] = c + 1 + m /\ c \in Nat /\ m \in Nat /\ B[k] <= b
          /\ B[k] \in Nat
      BY <1>6, <3>1
    <3> HIDE DEF c, m
    <3>4. q # c /\ \A j \in 1 .. m : q # c + j  BY <1>1, <1>7, <3>3
    <3> QED  BY <3>2, <3>4 DEF c, m
  <2> QED  BY <2>1, <2>2
<1>9. u.pos = q  BY <1>5
<1>10. Carries(u, q, E, qs)  BY <1>2, <1>8, <1>9 DEF Carries
<1> QED  BY <1>10 DEF n, b, E, qs, f, u, q

\* A frame is sent behind what is under way.
LEMMA FrameSent ==
    ASSUME NEW ps \in Seq(Seq(Nat)), NEW p \in Seq(Nat), NEW start \in Nat, NEW B,
           Bounds(B, ps, start), NEW us \in Seq(Units), NEW d \in Nat, NEW q \in Nat,
           Carried(us, d, q, B[Len(ps)], B, ps), Len(us) = d + (B[Len(ps)] - q)
    PROVE  LET w == us \o Encrypted(Frame(p), B[Len(ps)])
               e == Grown(B, ps, p)[Len(ps) + 1]
           IN  /\ Carried(w, d, q, e, Grown(B, ps, p), Append(ps, p))
               /\ Len(w) = d + (e - q)
<1> DEFINE b == B[Len(ps)]
           t == Encrypted(Frame(p), b)
           w == us \o t
           E == Grown(B, ps, p)
           e == E[Len(ps) + 1]
           qs == Append(ps, p)
           l == Len(p)
           m == Len(us)
<1>1. b \in Nat /\ l \in Nat /\ m \in Nat  BY BoundsTypes, LenProperties
<1>2. q <= b /\ m = d + (b - q) /\ \A i \in 1 .. b - q : Carries(us[d + i], q + i - 1, B, ps)
  BY DEF Carried
<1>3. e = b + 1 + l  BY BoundsGrow
<1>4. t \in Seq(Units) /\ Len(t) = 1 + l
  <2>1. Frame(p) \in Seq(Nat) /\ Len(Frame(p)) = 1 + l /\ b \in Int
    BY <1>1, FrameValues DEF Frame
  <2> QED  BY <2>1, EncryptedUnits
<1>5. \A i \in 1 .. 1 + l : Carries(t[i], b + i - 1, E, qs)  BY FrameCarries
<1>6. ASSUME NEW u, NEW r \in Nat, r < b, Carries(u, r, B, ps)  PROVE Carries(u, r, E, qs)
  BY <1>6, CarriesGrow
<1> HIDE DEF b, t, E, e, qs, l
<1>7. /\ Len(w) = m + (1 + l)
      /\ \A i \in 1 .. m : w[i] = us[i]
      /\ \A i \in 1 .. 1 + l : w[m + i] = t[i]
  <2>1. /\ Len(w) = m + Len(t)
        /\ \A i \in 1 .. m : w[i] = us[i]
        /\ \A i \in 1 .. Len(t) : w[m + i] = t[i]
    BY <1>4, Sent
  <2> HIDE DEF w, m
  <2> QED  BY <1>4, <2>1
<1> HIDE DEF w, m
<1>8. e \in Nat /\ q <= e /\ Len(w) = d + (e - q)  BY <1>1, <1>2, <1>3, <1>7
<1>9. ASSUME NEW i \in 1 .. e - q  PROVE Carries(w[d + i], q + i - 1, E, qs)
  <2>1. CASE i <= b - q
    <3>1. /\ i \in 1 .. b - q /\ d + i \in 1 .. m
          /\ q + i - 1 \in Nat /\ q + i - 1 < b
      BY <1>1, <1>2, <2>1
    <3> DEFINE r == q + i - 1
    <3>2. Carries(us[d + i], r, B, ps) /\ w[d + i] = us[d + i]  BY <1>2, <1>7, <3>1
    <3>3. r \in Nat /\ r < b  BY <3>1
    <3> HIDE DEF r
    <3>4. Carries(us[d + i], r, E, qs)  BY <1>6, <3>2, <3>3
    <3> QED  BY <3>2, <3>4 DEF r
  <2>2. CASE ~(i <= b - q)
    <3> DEFINE j == i - (b - q)
    <3>1. /\ j \in 1 .. 1 + l /\ d + i = m + j /\ q + i - 1 = b + j - 1
      BY <1>1, <1>2, <1>3, <1>8, <2>2
    <3> HIDE DEF j
    <3>2. w[m + j] = t[j] /\ Carries(t[j], b + j - 1, E, qs)  BY <1>5, <1>7, <3>1
    <3> QED  BY <3>1, <3>2
  <2> QED  BY <2>1, <2>2
<1>10. Carried(w, d, q, e, E, qs)
  <2>1. Len(w) >= d + (e - q)  BY <1>1, <1>8
  <2> QED  BY <1>8, <1>9, <2>1 DEF Carried
<1> QED  BY <1>8, <1>10 DEF b, t, w, e, E, qs

\* What is sent before there are packets.
LEMMA FirstSent ==
    ASSUME NEW vs \in Seq(Nat), NEW us \in Seq(Units), NEW d \in Nat, NEW q \in Nat,
           Len(us) = d, NEW B
    PROVE  LET w == us \o Encrypted(vs, q) IN
           /\ Carried(w, d, q, q + Len(vs), B, <<>>)
           /\ Len(w) = d + Len(vs)
<1> DEFINE l == Len(vs)
           t == Encrypted(vs, q)
           w == us \o t
<1>1. l \in Nat /\ q \in Int  BY LenProperties
<1>2. /\ t \in Seq(Units) /\ Len(t) = l
      /\ \A i \in 1 .. l : t[i] = [v |-> vs[i], pos |-> q + i - 1]
  BY <1>1, EncryptedUnits
<1> HIDE DEF l, t
<1>3. Len(w) = d + l /\ \A i \in 1 .. l : w[d + i] = t[i]
  BY <1>2, Sent
<1> HIDE DEF w
<1> DEFINE e == q + l
<1>4. q <= e /\ Len(w) >= d + (e - q) /\ e - q = l  BY <1>1, <1>3
<1> HIDE DEF e
<1>5. ASSUME NEW i \in 1 .. e - q  PROVE Carries(w[d + i], q + i - 1, B, <<>>)
  <2>1. i \in 1 .. l  BY <1>4
  <2>2. w[d + i].pos = q + i - 1  BY <1>2, <1>3, <2>1
  <2> QED  BY <2>2, EmptySeq DEF Carries
<1>6. Carried(w, d, q, e, B, <<>>)
  BY <1>4, <1>5 DEF Carried
<1> QED  BY <1>3, <1>6 DEF w, l, t, e

\* More is sent, which is no part of the stream.
LEMMA CarriedStays ==
    ASSUME NEW us \in Seq(Units), NEW t \in Seq(Units), NEW d \in Nat, NEW q \in Nat,
           NEW e \in Nat, NEW B, NEW ps, Carried(us, d, q, e, B, ps)
    PROVE  Carried(us \o t, d, q, e, B, ps)
<1> DEFINE w == us \o t
           m == Len(us)
<1>1. m \in Nat /\ Len(t) \in Nat  BY LenProperties
<1>2. Len(w) = m + Len(t) /\ \A i \in 1 .. m : w[i] = us[i]  BY Sent
<1> HIDE DEF w, m
<1>3. q <= e /\ m >= d + (e - q) /\ \A i \in 1 .. e - q : Carries(us[d + i], q + i - 1, B, ps)
  BY DEF Carried, m
<1>4. Len(w) >= d + (e - q) /\ \A i \in 1 .. e - q : d + i \in 1 .. m  BY <1>1, <1>2, <1>3
<1>5. \A i \in 1 .. e - q : Carries(w[d + i], q + i - 1, B, ps)  BY <1>2, <1>3, <1>4
<1> QED  BY <1>3, <1>4, <1>5 DEF Carried, w

\* k units are read, from what is in front of the stream or from the stream.
LEMMA CarriedRead ==
    ASSUME NEW us \in Seq(Units), NEW d \in Nat, NEW q \in Nat, NEW e \in Nat, NEW B, NEW ps,
           Carried(us, d, q, e, B, ps), NEW k \in Nat
    PROVE  /\ k <= d => Carried(After(us, k), d - k, q, e, B, ps)
           /\ d = 0 /\ k <= e - q => Carried(After(us, k), 0, q + k, e, B, ps)
<1> DEFINE w == After(us, k)
           m == Len(us)
<1>1. m \in Nat  BY LenProperties
<1>2. k <= m => Len(w) = m - k /\ \A i \in 1 .. m - k : w[i] = us[k + i]  BY FirstAfter
<1> HIDE DEF w, m
<1>3. q <= e /\ m >= d + (e - q) /\ \A i \in 1 .. e - q : Carries(us[d + i], q + i - 1, B, ps)
  BY DEF Carried, m
<1>4. ASSUME k <= d  PROVE Carried(w, d - k, q, e, B, ps)
  <2>1. k <= m  BY <1>1, <1>3, <1>4
  <2>2. Len(w) >= (d - k) + (e - q)  BY <1>1, <1>2, <1>3, <1>4, <2>1
  <2>3. ASSUME NEW i \in 1 .. e - q  PROVE Carries(w[(d - k) + i], q + i - 1, B, ps)
    <3>1. (d - k) + i \in 1 .. m - k /\ k + ((d - k) + i) = d + i  BY <1>1, <1>3, <1>4
    <3>2. w[(d - k) + i] = us[d + i]  BY <1>2, <2>1, <3>1
    <3> QED  BY <1>3, <3>2
  <2> QED  BY <1>3, <2>2, <2>3 DEF Carried
<1>5. ASSUME d = 0, k <= e - q  PROVE Carried(w, 0, q + k, e, B, ps)
  <2>1. k <= m /\ q + k <= e  BY <1>1, <1>3, <1>5
  <2>2. Len(w) >= 0 + (e - (q + k))  BY <1>1, <1>2, <1>3, <1>5, <2>1
  <2>3. ASSUME NEW i \in 1 .. e - (q + k)  PROVE Carries(w[0 + i], (q + k) + i - 1, B, ps)
    <3>1. /\ i \in 1 .. m - k /\ 0 + i = i /\ k + i \in 1 .. e - q
          /\ q + (k + i) - 1 = (q + k) + i - 1 /\ d + (k + i) = k + i
      BY <1>1, <1>3, <1>5
    <3>2. w[0 + i] = us[d + (k + i)]  BY <1>2, <2>1, <3>1
    <3>3. Carries(us[d + (k + i)], q + (k + i) - 1, B, ps)  BY <1>3, <3>1
    <3> QED  BY <3>1, <3>2, <3>3
  <2> QED  BY <2>1, <2>2, <2>3 DEF Carried
<1> QED  BY <1>4, <1>5 DEF w

\* The size of a packet is read.
LEMMA SizeCarried ==
    ASSUME NEW ps \in Seq(Seq(Nat)), NEW start \in Nat, NEW B, Bounds(B, ps, start),
           NEW us \in Seq(Units), NEW m \in Nat, m <= Len(ps),
           Carried(us, 0, B[m], B[Len(ps)], B, ps), B[m] < B[Len(ps)]
    PROVE  /\ m < Len(ps) /\ us # <<>>
           /\ Sizes(Head(us), B[m]) = {Len(ps[m + 1])}
           /\ B[m] + 1 + Len(ps[m + 1]) = B[m + 1] /\ B[m + 1] <= B[Len(ps)]
<1> DEFINE n == Len(ps)
<1>1. n \in Nat  BY BoundsTypes
<1>2. m \in 0 .. n /\ B[m] \in Nat /\ B[n] \in Nat  BY <1>1, BoundsTypes
<1>3. m < n  BY <1>1, <1>2
<1>4. m + 1 \in 1 .. n /\ m + 1 \in 0 .. n /\ m + 1 - 1 = m  BY <1>1, <1>3
<1>5. B[m + 1] = B[m] + 1 + Len(ps[m + 1]) /\ B[m + 1] <= B[n]
  <2> DEFINE k == m + 1
  <2>1. k \in 1 .. n /\ k \in 0 .. n /\ k - 1 = m  BY <1>4
  <2> HIDE DEF k
  <2>2. B[k] = B[k - 1] + 1 + Len(ps[k]) /\ B[k] <= B[n]  BY <2>1, BoundsTypes
  <2> QED  BY <2>1, <2>2 DEF k
<1>6. Len(us) >= 1 /\ Carries(us[1], B[m], B, ps)
  <2>1. 1 \in 1 .. B[n] - B[m] /\ 0 + 1 = 1 /\ B[m] + 1 - 1 = B[m]  BY <1>2
  <2>2. Carries(us[0 + 1], B[m] + 1 - 1, B, ps)  BY <2>1 DEF Carried
  <2>3. Len(us) >= 0 + (B[n] - B[m]) /\ Len(us) \in Nat  BY LenProperties DEF Carried
  <2> QED  BY <1>2, <2>1, <2>2, <2>3
<1>7. us # <<>> /\ Head(us) = us[1]
  <2>1. us # <<>>  BY <1>6, EmptySeq
  <2> QED  BY <2>1, TailAfter
<1>8. us[1].pos = B[m] /\ us[1].v = Len(ps[m + 1])
  <2>1. B[m] = B[m + 1 - 1]  BY <1>4
  <2> QED  BY <1>4, <1>6, <2>1 DEF Carries
<1>9. Sizes(Head(us), B[m]) = {Len(ps[m + 1])}  BY <1>7, <1>8 DEF Sizes
<1> QED  BY <1>3, <1>5, <1>7, <1>9

\* The packet itself is read.
LEMMA BodyCarried ==
    ASSUME NEW ps \in Seq(Seq(Nat)), NEW start \in Nat, NEW B, Bounds(B, ps, start),
           NEW us \in Seq(Units), NEW m \in Nat, m < Len(ps),
           Carried(us, 0, B[m] + 1, B[Len(ps)], B, ps)
    PROVE  LET l == Len(ps[m + 1]) IN
           /\ Content(First(us, l), B[m] + 1) = ps[m + 1]
           /\ B[m] + 1 + l = B[m + 1] /\ l <= B[Len(ps)] - (B[m] + 1)
           /\ l \in Nat /\ l <= Len(us)
<1> DEFINE n == Len(ps)
           p == ps[m + 1]
           l == Len(p)
           q == B[m] + 1
           f == First(us, l)
           x == Content(f, q)
<1>1. n \in Nat /\ B[n] \in Nat  BY BoundsTypes
<1>2. m + 1 \in 1 .. n /\ m + 1 \in 0 .. n /\ m + 1 - 1 = m /\ m \in 0 .. n  BY <1>1
<1>3. /\ p \in Seq(Nat) /\ l \in Nat /\ B[m] \in Nat
      /\ B[m + 1] = B[m] + 1 + l /\ B[m + 1] <= B[n]
  <2> DEFINE k == m + 1
  <2>1. k \in 1 .. n /\ k \in 0 .. n /\ k - 1 = m  BY <1>2
  <2> HIDE DEF k
  <2>2. /\ B[k] = B[k - 1] + 1 + Len(ps[k]) /\ B[k] <= B[n]
        /\ ps[k] \in Seq(Nat) /\ Len(ps[k]) \in Nat
    BY <2>1, BoundsTypes
  <2>3. B[m] \in Nat  BY <1>2, BoundsTypes
  <2> QED  BY <2>1, <2>2, <2>3 DEF k
<1> HIDE DEF p, l
<1>4. q \in Nat /\ B[m + 1] = q + l /\ l <= B[n] - q
  <2> DEFINE b == B[n]
             c == B[m]
             d == B[m + 1]
  <2>1. b \in Nat /\ c \in Nat /\ l \in Nat /\ d = c + 1 + l /\ d <= b  BY <1>1, <1>3
  <2> HIDE DEF b, c, d
  <2>2. c + 1 \in Nat /\ d = c + 1 + l /\ l <= b - (c + 1)  BY <2>1
  <2> QED  BY <2>2 DEF b, c, d
<1> HIDE DEF q
<1>5. Len(us) >= B[n] - q /\ \A i \in 1 .. B[n] - q : Carries(us[i], q + i - 1, B, ps)
  <2>1. /\ Len(us) >= 0 + (B[n] - q)
        /\ \A i \in 1 .. B[n] - q : Carries(us[0 + i], q + i - 1, B, ps)
    BY DEF Carried, q
  <2>2. \A i \in 1 .. B[n] - q : 0 + i = i  BY <1>1, <1>4
  <2>3. 0 + (B[n] - q) = B[n] - q  BY <1>1, <1>4
  <2> QED  BY <2>1, <2>2, <2>3
<1>6. l <= Len(us)
  <2>1. Len(us) \in Nat /\ B[n] - q \in Int  BY <1>1, <1>4, LenProperties
  <2> QED  BY <1>3, <1>4, <1>5, <2>1
<1>7. f \in Seq(Units) /\ Len(f) = l /\ \A i \in 1 .. l : f[i] = us[i]
  BY <1>3, <1>6, FirstAfter
<1> HIDE DEF f
<1>8. /\ x \in Seq(Int) /\ Len(x) = l
      /\ \A i \in 1 .. l : x[i] = IF f[i].pos = q + i - 1 THEN f[i].v ELSE Garbage
  <2>1. q \in Int  BY <1>4
  <2>2. /\ Content(f, q) \in Seq(Int) /\ Len(Content(f, q)) = Len(f)
        /\ \A i \in 1 .. Len(f) :
             Content(f, q)[i] = IF f[i].pos = q + i - 1 THEN f[i].v ELSE Garbage
    BY <1>7, <2>1, ContentValues
  <2> QED  BY <1>7, <2>2
<1>9. ASSUME NEW i \in 1 .. l  PROVE x[i] = p[i]
  <2> DEFINE c == B[m]
             b == B[n]
  <2>4. i \in 1 .. b - q /\ q + i - 1 = c + i
    <3>1. c \in Nat /\ b \in Nat /\ l <= b - q /\ l \in Nat /\ q = c + 1
      BY <1>1, <1>3, <1>4 DEF q
    <3> HIDE DEF b, c
    <3> QED  BY <3>1
  <2>1. i \in 1 .. B[n] - q /\ q + i - 1 = B[m] + i  BY <2>4
  <2>2. Carries(us[i], q + i - 1, B, ps)  BY <1>5, <2>1
  <2>3. us[i].pos = q + i - 1 /\ us[i].v = p[i]
    <3>1. q + i - 1 = B[m + 1 - 1] + i  BY <1>2, <2>1
    <3> QED  BY <1>2, <2>2, <3>1 DEF Carries, p, l
  <2> QED  BY <1>7, <1>8, <2>3
<1> HIDE DEF x
<1>10. p \in Seq(Int)
  <2>1. \A i \in 1 .. l : p[i] \in Nat  BY <1>3, ElementOfSeq DEF l
  <2>2. \A i \in 1 .. l : p[i] \in Int  BY <2>1
  <2> QED  BY <1>3, <2>2 DEF l
<1>11. x = p  BY <1>3, <1>8, <1>9, <1>10, SeqEqual DEF l
<1> QED  BY <1>3, <1>4, <1>6, <1>11 DEF f, x, q, p, l

\* Packets are sent or served in order.
LEMMA LengthsGrow ==
    ASSUME NEW ps \in Seq(Seq(Nat)), NEW p \in Seq(Nat), Lengths(ps), Len(p) \in 1 .. MaxPacket
    PROVE  Lengths(Append(ps, p))
<1> DEFINE n == Len(ps)
           qs == Append(ps, p)
<1>1. n \in Nat  BY LenProperties
<1>2. Len(qs) = n + 1 /\ (\A k \in 1 .. n : qs[k] = ps[k]) /\ qs[n + 1] = p
  BY Appended
<1>3. \A k \in 1 .. n : Len(ps[k]) \in 1 .. MaxPacket  BY DEF Lengths
<1> HIDE DEF n, qs
<1>4. ASSUME NEW k \in 1 .. n + 1  PROVE Len(qs[k]) \in 1 .. MaxPacket
  <2>1. k = n + 1 \/ k \in 1 .. n  BY <1>1
  <2> QED  BY <1>2, <1>3, <2>1
<1> QED  BY <1>2, <1>4 DEF Lengths, qs

LEMMA BeginsGrow ==
    ASSUME NEW ps \in Seq(Seq(Nat)), NEW hs \in Seq(Seq(Int)), Begins(hs, ps)
    PROVE  /\ \A p \in Seq(Nat) : Begins(hs, Append(ps, p))
           /\ Len(hs) < Len(ps) =>
                \A x \in Seq(Int) : x = ps[Len(hs) + 1] => Begins(Append(hs, x), ps)
<1> DEFINE n == Len(ps)
           m == Len(hs)
<1>1. n \in Nat /\ m \in Nat  BY LenProperties
<1>2. m <= n /\ \A k \in 1 .. m : hs[k] = ps[k]  BY DEF Begins
<1>3. ASSUME NEW p \in Seq(Nat)  PROVE Begins(hs, Append(ps, p))
  <2> DEFINE qs == Append(ps, p)
  <2>1. Len(qs) = n + 1 /\ \A k \in 1 .. n : qs[k] = ps[k]  BY Appended
  <2> HIDE DEF qs, n, m
  <2>2. m <= n + 1 /\ \A k \in 1 .. m : k \in 1 .. n  BY <1>1, <1>2
  <2>3. m <= Len(qs) /\ \A k \in 1 .. m : hs[k] = qs[k]  BY <1>2, <2>1, <2>2
  <2> QED  BY <2>3 DEF Begins, m, qs
<1>4. ASSUME m < n, NEW x \in Seq(Int), x = ps[m + 1]  PROVE Begins(Append(hs, x), ps)
  <2> DEFINE gs == Append(hs, x)
  <2>1. Len(gs) = m + 1 /\ (\A k \in 1 .. m : gs[k] = hs[k]) /\ gs[m + 1] = x
    BY Appended
  <2> HIDE DEF gs, n, m
  <2>2. m + 1 <= n /\ \A k \in 1 .. m + 1 : k \in 1 .. m \/ k = m + 1  BY <1>1, <1>4
  <2>3. Len(gs) <= n /\ \A k \in 1 .. Len(gs) : gs[k] = ps[k]  BY <1>2, <1>4, <2>1, <2>2
  <2> QED  BY <2>3 DEF Begins, n, gs
<1> QED  BY <1>3, <1>4

\* Where the reader is does not change when a packet is sent.
LEMMA ReaderGrow ==
    ASSUME NEW ps \in Seq(Seq(Nat)), NEW p \in Seq(Nat), NEW start \in Nat, NEW B,
           Bounds(B, ps, start), NEW hs \in Seq(Seq(Int)), Len(hs) <= Len(ps),
           NEW q, NEW inBody \in BOOLEAN, NEW sz, ReaderAt(q, inBody, sz, hs, B, ps)
    PROVE  ReaderAt(q, inBody, sz, hs, Grown(B, ps, p), Append(ps, p))
<1> DEFINE n == Len(ps)
           m == Len(hs)
           E == Grown(B, ps, p)
           qs == Append(ps, p)
<1>1. n \in Nat /\ m \in Nat /\ m <= n  BY LenProperties
<1>2. Len(qs) = n + 1 /\ \A k \in 1 .. n : qs[k] = ps[k]  BY Appended
<1>3. \A k \in 0 .. n : E[k] = B[k]  BY BoundsGrow
<1> HIDE DEF n, m, E, qs
<1>4. E[m] = B[m]
  <2>1. m \in 0 .. n  BY <1>1
  <2> QED  BY <1>3, <2>1
<1>5. CASE inBody
  <2>1. m < n /\ sz = Len(ps[m + 1]) /\ q = B[m] + 1  BY <1>5 DEF ReaderAt, n, m
  <2>2. m + 1 \in 1 .. n /\ m < n + 1  BY <1>1, <2>1
  <2>3. m < Len(qs) /\ sz = Len(qs[m + 1]) /\ q = E[m] + 1  BY <1>2, <1>4, <2>1, <2>2
  <2> QED  BY <1>5, <2>3 DEF ReaderAt, m, E, qs
<1>6. CASE ~inBody
  BY <1>4, <1>6 DEF ReaderAt, m, E, qs
<1> QED  BY <1>5, <1>6

-----------------------------------------------------------------------------
(* The stream to the server.                                                 *)

\* The parts of UpAt do not change with what they do not mention.
LEMMA UpWriterSame ==
    ASSUME NEW B, UpWriter(B), UNCHANGED <<logins, packets.toServer, at.cEnc, out>>,
           (cpc \in {"key", "check", "early", "login"})
              <=> (cpc' \in {"key", "check", "early", "login"}),
           \/ tunReader' = tunReader
           \/ logins = 0 /\ tunReader = "off" /\ tunReader' = "read"
    PROVE  UpWriter(B)'
<1>1. Lengths(packets.toServer)'  BY DEF UpWriter, Lengths
<1> QED  BY <1>1 DEF UpWriter

LEMMA UpReaderSame ==
    ASSUME NEW B, UpReader(B),
           UNCHANGED <<client, packets.toServer, packets.served, at.sDec, sneed>>,
           spc' \in {spc, "end"}
    PROVE  UpReader(B)'
BY DEF UpReader, Begins, Serving, ReaderAt

\* The session does not serve.
LEMMA UpReaderEarly ==
    ASSUME NEW B, UpReader(B), UNCHANGED <<packets.toServer, packets.served>>,
           spc' \in {"rsa", "login", "name", "end"},
           spc \in {"key", "rsa", "login"} \/ spc' = "end"
    PROVE  UpReader(B)'
BY DEF UpReader, Begins, Serving

LEMMA UpStreamSame ==
    ASSUME NEW B, UpStream(B), UNCHANGED <<logins, packets.toServer, at.sDec, up>>,
           spc' \in {spc, "end"}, closed => closed', cpc = "key" <=> cpc' = "key"
    PROVE  UpStream(B)'
<1>1. CASE spc' = "end"
  BY <1>1 DEF UpStream, Tracked, LoggingIn, Serving
<1>2. CASE spc' # "end"
  <2>1. KeyUnits' = KeyUnits /\ UpEnd(B)' = UpEnd(B) /\ (Tracked' => Tracked)
    BY <1>2 DEF KeyUnits, UpEnd, Tracked, LoggingIn, Serving
  <2> QED  BY <2>1 DEF UpStream
<1> QED  BY <1>1, <1>2

LEMMA UpBoundsSame ==
    ASSUME NEW B, Bounds(B, packets.toServer, 1 + Len(client.login)),
           UNCHANGED <<client, packets.toServer>>
    PROVE  Bounds(B, packets.toServer, 1 + Len(client.login))'
BY DEF Bounds

\* What the parts of UpAt are made of.
LEMMA UpTypes ==
    ASSUME Types, NEW B, UpAt(B)
    PROVE  /\ 1 + Len(client.login) \in Nat
           /\ packets.toServer \in Seq(Seq(Nat)) /\ packets.served \in Seq(Seq(Int))
           /\ Len(packets.served) \in Nat
           /\ Bounds(B, packets.toServer, 1 + Len(client.login))
           /\ B[Len(packets.toServer)] \in Nat /\ UpEnd(B) \in Nat
           /\ KeyUnits \in Nat /\ at.sDec \in Nat /\ at.cEnc \in Nat /\ sneed \in Nat
           /\ up \in Seq(Units) /\ Len(up) \in Nat
<1>1. 1 + Len(client.login) \in Nat  BY ClientFields DEF Types
<1>2. packets.toServer \in Seq(Seq(Nat)) /\ packets.served \in Seq(Seq(Int))
  BY DEF Types, Histories
<1>3. Bounds(B, packets.toServer, 1 + Len(client.login))  BY DEF UpAt
<1>4. B[Len(packets.toServer)] \in Nat  BY <1>1, <1>2, <1>3, BoundsTypes
<1>5. UpEnd(B) \in Nat  BY <1>4 DEF UpEnd
<1>6. KeyUnits \in Nat  BY ClientAssumption DEF KeyUnits
<1>7. Len(up) \in Nat /\ Len(packets.served) \in Nat  BY <1>2, LenProperties DEF Types
<1> QED  BY <1>1, <1>2, <1>3, <1>4, <1>5, <1>6, <1>7, Parts DEF Types

\* k units of the key block are read.
LEMMA UpReadsKey ==
    ASSUME Types, NEW B, UpAt(B), Tracked, NEW k \in Nat, k <= KeyUnits, up' = After(up, k),
           KeyUnits' = KeyUnits - k, UNCHANGED <<logins, packets.toServer, at.sDec>>
    PROVE  UpStream(B)'
<1> DEFINE ps == packets.toServer
           d == KeyUnits
           e == UpEnd(B)
<1>1. Carried(up, d, at.sDec, e, B, ps) /\ Len(up) = d + (e - at.sDec)
  BY DEF UpAt, UpStream
<1>2. d \in Nat /\ e \in Nat /\ at.sDec \in Nat /\ up \in Seq(Units) /\ Len(up) \in Nat
  BY UpTypes
<1>3. at.sDec <= e  BY <1>1 DEF Carried
<1>4. k <= Len(up)  BY <1>1, <1>2, <1>3
<1>5. Len(up') = Len(up) - k  BY <1>2, <1>4, FirstAfter
<1>6. Carried(up', d - k, at.sDec, e, B, ps)  BY <1>1, <1>2, CarriedRead
<1>7. Len(up') = (d - k) + (e - at.sDec)  BY <1>1, <1>2, <1>5
<1>8. UpEnd(B)' = e /\ packets'.toServer = ps /\ at'.sDec = at.sDec  BY DEF UpEnd
<1> QED  BY <1>6, <1>7, <1>8 DEF UpStream

\* k units of the stream are read.
LEMMA UpReadsStream ==
    ASSUME Types, NEW B, UpAt(B), Tracked, KeyUnits = 0, KeyUnits' = 0, NEW k \in Nat,
           k <= Len(up), up' = After(up, k), at'.sDec = at.sDec + k,
           UNCHANGED <<logins, packets.toServer>>
    PROVE  UpStream(B)'
<1> DEFINE ps == packets.toServer
           e == UpEnd(B)
           q == at.sDec
<1>1. Carried(up, 0, q, e, B, ps) /\ Len(up) = 0 + (e - q)
  BY DEF UpAt, UpStream
<1>2. e \in Nat /\ q \in Nat /\ up \in Seq(Units) /\ Len(up) \in Nat
  BY UpTypes
<1>3. k <= e - q  BY <1>1, <1>2
<1>4. Len(up') = Len(up) - k  BY <1>2, FirstAfter
<1>5. Carried(up', 0, q + k, e, B, ps)  BY <1>1, <1>2, <1>3, CarriedRead
<1>6. Len(up') = 0 + (e - (q + k))  BY <1>1, <1>2, <1>4
<1>7. UpEnd(B)' = e /\ packets'.toServer = ps  BY DEF UpEnd
<1> QED  BY <1>5, <1>6, <1>7 DEF UpStream

\* The steps of the server keep UpAt, with the same places of the frames.
LEMMA UpServer ==
    ASSUME Types, StreamInv, Conforming, NEW B, UpAt(B),
           ServerStep \/ RouterSends \/ RouteErased \/ SweepCloses
    PROVE  UpAt(B)'
<1> DEFINE ps == packets.toServer
           m == Len(packets.served)
<1>1. UpWriter(B) /\ UpReader(B) /\ UpStream(B)
      /\ Bounds(B, ps, 1 + Len(client.login))
  BY DEF UpAt
<1>2. /\ UNCHANGED <<client, cpc, logins, tunReader, out>>
      /\ packets'.toServer = ps /\ at'.cEnc = at.cEnc
      /\ UpWriter(B)'
      /\ Bounds(B, packets.toServer, 1 + Len(client.login))'
  <2>1. UNCHANGED <<client, cpc, logins, tunReader, out>>
    BY DEF ServerStep, ReadFails, ReadKeySize, ReadKey, ReadLoginSize, ReadLogin, SendIp,
       RegisterFails, ReadFrameSize, ReadFrame, RouterSends, RouteErased, SweepCloses, ServerOnly,
       clientVars, runVars
  <2>2. packets'.toServer = ps
    BY DEF ServerStep, ReadFails, ReadKeySize, ReadKey, ReadLoginSize, ReadLogin, SendIp,
       RegisterFails, ReadFrameSize, ReadFrame, RouterSends, RouteErased, SweepCloses,
       Types, Histories
  <2>3. at'.cEnc = at.cEnc
    BY DEF ServerStep, ReadFails, ReadKeySize, ReadKey, ReadLoginSize, ReadLogin, SendIp,
       RegisterFails, ReadFrameSize, ReadFrame, RouterSends, RouteErased, SweepCloses,
       Types, Positions
  <2>5. UpWriter(B)'  BY <1>1, <2>1, <2>2, <2>3, UpWriterSame
  <2>6. Bounds(B, packets.toServer, 1 + Len(client.login))'  BY <1>1, <2>1, <2>2, UpBoundsSame
  <2> QED  BY <2>1, <2>2, <2>3, <2>5, <2>6
<1>3. ASSUME UpReader(B)', UpStream(B)'  PROVE UpAt(B)'
  BY <1>2, <1>3 DEF UpAt
<1>4. ASSUME UNCHANGED <<packets.served, at.sDec, sneed, up>>, spc' \in {spc, "end"},
             closed => closed'
      PROVE  UpAt(B)'
  <2>1. UpReader(B)'  BY <1>1, <1>2, <1>4, UpReaderSame
  <2>2. UpStream(B)'  BY <1>1, <1>2, <1>4, UpStreamSame
  <2> QED  BY <1>3, <2>1, <2>2
<1>5. ASSUME spc' = "end", UNCHANGED packets.served  PROVE UpAt(B)'
  <2>1. UpReader(B)'  BY <1>1, <1>2, <1>5, UpReaderEarly
  <2>2. UpStream(B)'  BY <1>5 DEF UpStream, Tracked, LoggingIn, Serving
  <2> QED  BY <1>3, <2>1, <2>2
<1>6. ASSUME ReadFails \/ RegisterFails  PROVE UpAt(B)'
  <2>1. spc' = "end" /\ UNCHANGED packets  BY <1>6 DEF ReadFails, ServerEnds, RegisterFails
  <2> QED  BY <1>5, <2>1
<1>7. ASSUME RouterSends \/ RouteErased \/ SweepCloses  PROVE UpAt(B)'
  <2>1. /\ UNCHANGED <<sneed, up, spc>> /\ (closed => closed')
        /\ packets'.served = packets.served /\ at'.sDec = at.sDec
    <3>1. CASE RouteErased  BY <3>1 DEF RouteErased
    <3>2. CASE RouterSends \/ SweepCloses
      BY <3>2 DEF RouterSends, SweepCloses, Close, serverVars, Types, Histories, Positions
    <3> QED  BY <1>7, <3>1, <3>2
  <2> QED  BY <1>4, <2>1
<1>8. ASSUME ReadKeySize  PROVE UpAt(B)'
  <2>1. CASE spc' = "end"
    BY <1>5, <1>8, <2>1 DEF ReadKeySize
  <2>2. CASE spc' # "end"
    <3>1. /\ ~closed /\ spc = "key" /\ spc' = "rsa" /\ up # <<>> /\ up' = Tail(up)
          /\ UNCHANGED <<packets, at>>
      BY <1>8, <2>2 DEF ReadKeySize, Refuse
    <3>2. Tracked  BY <3>1 DEF StreamInv, Tracked
    <3>3. /\ up' = After(up, 1) /\ 1 <= KeyUnits /\ KeyUnits' = KeyUnits - 1 /\ 1 \in Nat
      BY <3>1, TailAfter, ClientAssumption DEF KeyUnits, Types
    <3>4. UpStream(B)'  BY <1>2, <3>1, <3>2, <3>3, UpReadsKey
    <3>5. UpReader(B)'  BY <1>1, <1>2, <3>1, UpReaderEarly
    <3> QED  BY <1>3, <3>4, <3>5
  <2> QED  BY <2>1, <2>2
<1>9. ASSUME ReadKey  PROVE UpAt(B)'
  <2>1. CASE spc' = "end"
    BY <1>5, <1>9, <2>1 DEF ReadKey
  <2>2. CASE spc' # "end"
    <3>1. /\ ~closed /\ spc = "rsa" /\ spc' = "login" /\ up' = After(up, KeyLen)
          /\ UNCHANGED <<packets, at>>
      BY <1>9, <2>2 DEF ReadKey, ServerEnds
    <3>2. Tracked  BY <3>1 DEF Tracked
    <3>3. /\ KeyLen <= KeyUnits /\ KeyUnits' = KeyUnits - KeyLen /\ KeyLen \in Nat
      BY <3>1, ClientAssumption DEF KeyUnits
    <3>4. UpStream(B)'  BY <1>2, <3>1, <3>2, <3>3, UpReadsKey
    <3>5. UpReader(B)'  BY <1>1, <1>2, <3>1, UpReaderEarly
    <3> QED  BY <1>3, <3>4, <3>5
  <2> QED  BY <2>1, <2>2
<1>10. ASSUME ReadLoginSize  PROVE UpAt(B)'
  <2>1. CASE spc' = "end"
    BY <1>5, <1>10, <2>1 DEF ReadLoginSize
  <2>2. CASE spc' # "end"
    <3>1. /\ spc = "login" /\ spc' = "name" /\ up # <<>> /\ up' = Tail(up)
          /\ UNCHANGED packets /\ at'.sDec = at.sDec + 1
      BY <1>10, <2>2 DEF ReadLoginSize, Types, Positions
    <3>2. Tracked  BY <3>1 DEF Tracked, LoggingIn
    <3>3. /\ up' = After(up, 1) /\ 1 <= Len(up) /\ KeyUnits = 0 /\ KeyUnits' = 0 /\ 1 \in Nat
      BY <3>1, TailAfter DEF KeyUnits, Types
    <3>4. UpStream(B)'  BY <1>2, <3>1, <3>2, <3>3, UpReadsStream
    <3>5. UpReader(B)'  BY <1>1, <1>2, <3>1, UpReaderEarly
    <3> QED  BY <1>3, <3>4, <3>5
  <2> QED  BY <2>1, <2>2
<1>11. ASSUME ReadLogin  PROVE UpAt(B)'
  <2>1. CASE spc' = "end"
    BY <1>5, <1>11, <2>1 DEF ReadLogin
  <2>2. CASE spc' # "end"
    <3>1. /\ ~closed /\ spc = "name" /\ spc' = "sendip" /\ Len(up) >= sneed
          /\ up' = After(up, sneed)
          /\ UNCHANGED packets /\ at'.sDec = at.sDec + sneed
      BY <1>11, <2>2 DEF ReadLogin, Refuse, Types, Positions
    <3>2. Tracked /\ KeyUnits = 0 /\ KeyUnits' = 0  BY <3>1 DEF Tracked, LoggingIn, KeyUnits
    <3>3. sneed \in Nat /\ sneed <= Len(up)  BY <3>1, UpTypes
    <3>4. UpStream(B)'  BY <1>2, <3>1, <3>2, <3>3, UpReadsStream
    <3>5. at'.sDec = 1 + Len(client'.login)  BY <1>2, <3>1 DEF StreamInv, Conforming
    <3>6. packets.served = <<>>  BY <1>1, <3>1 DEF UpReader
    <3>7. UpReader(B)'
      BY <1>1, <1>2, <3>1, <3>5, <3>6 DEF UpReader, Begins, Serving
    <3> QED  BY <1>3, <3>4, <3>7
  <2> QED  BY <2>1, <2>2
<1>12. ASSUME SendIp  PROVE UpAt(B)'
  <2>1. CASE spc' = "end"
    BY <1>5, <1>12, <2>1 DEF SendIp
  <2>2. CASE spc' # "end"
    <3>1. /\ spc = "sendip" /\ spc' = "frame" /\ UNCHANGED <<up, packets>>
          /\ at'.sDec = at.sDec
      BY <1>12, <2>2 DEF SendIp, Refuse, Types, Positions
    <3>2. Tracked /\ KeyUnits = 0 /\ KeyUnits' = 0  BY <3>1 DEF Tracked, LoggingIn, KeyUnits
    <3>3. UpEnd(B)' = UpEnd(B)  BY <1>2 DEF UpEnd
    <3>4. UpStream(B)'  BY <1>1, <1>2, <3>1, <3>2, <3>3 DEF UpStream
    <3>5. packets.served = <<>> /\ at.sDec = 1 + Len(client.login)  BY <1>1, <3>1 DEF UpReader
    <3>6. B[0] = at.sDec  BY <1>1, <3>5 DEF Bounds
    <3>7. UpReader(B)'
      BY <1>1, <1>2, <3>1, <3>5, <3>6, EmptySeq DEF UpReader, Begins, ReaderAt
    <3> QED  BY <1>3, <3>4, <3>7
  <2> QED  BY <2>1, <2>2
<1>13. ASSUME Serving  PROVE /\ Tracked /\ KeyUnits = 0
                             /\ Carried(up, 0, at.sDec, UpEnd(B), B, ps)
                             /\ Len(up) = UpEnd(B) - at.sDec
                             /\ m \in Nat /\ m <= Len(ps)
                             /\ B[m] \in Nat
                             /\ ReaderAt(at.sDec, spc = "body", sneed, packets.served, B, ps)
  <2>1. Tracked /\ KeyUnits = 0  BY <1>13 DEF Tracked, KeyUnits, Serving
  <2>2. Carried(up, 0, at.sDec, UpEnd(B), B, ps) /\ Len(up) = 0 + (UpEnd(B) - at.sDec)
    BY <1>1, <2>1 DEF UpStream
  <2>3. UpEnd(B) \in Nat /\ at.sDec \in Nat /\ m \in Nat  BY UpTypes
  <2>4. m <= Len(ps) /\ ReaderAt(at.sDec, spc = "body", sneed, packets.served, B, ps)
    BY <1>1, <1>13 DEF UpReader, Begins
  <2>5. Len(ps) \in Nat /\ 1 + Len(client.login) \in Nat /\ ps \in Seq(Seq(Nat))
    BY UpTypes, LenProperties
  <2>6. m \in 0 .. Len(ps)  BY <2>3, <2>4, <2>5
  <2>7. B[m] \in Nat  BY <1>1, <2>5, <2>6, BoundsTypes
  <2> QED  BY <2>1, <2>2, <2>3, <2>4, <2>7
<1>14. ASSUME ReadFrameSize  PROVE UpAt(B)'
  <2>1. CASE spc' = "end"
    BY <1>5, <1>14, <2>1 DEF ReadFrameSize
  <2>2. CASE spc' # "end"
    <3>1. /\ spc = "frame" /\ spc' = "body" /\ up # <<>> /\ up' = Tail(up)
          /\ sneed' \in Sizes(Head(up), at.sDec)
          /\ UNCHANGED packets /\ at'.sDec = at.sDec + 1
      BY <1>14, <2>2 DEF ReadFrameSize, Types, Positions
    <3>2. Serving /\ KeyUnits' = 0  BY <3>1 DEF Serving, KeyUnits
    <3>3. up' = After(up, 1) /\ 1 <= Len(up) /\ 1 \in Nat
      BY <3>1, TailAfter DEF Types
    <3>4. UpStream(B)'  BY <1>2, <1>13, <3>1, <3>2, <3>3, UpReadsStream
    <3>5. at.sDec = B[m]  BY <1>13, <3>1, <3>2 DEF ReaderAt
    <3>6. UpEnd(B) \in Nat /\ Len(up) \in Nat  BY UpTypes
    <3>7. B[m] < UpEnd(B)  BY <1>13, <3>2, <3>3, <3>5, <3>6
    <3>8. UpEnd(B) = B[Len(ps)]  BY <1>13, <3>2, <3>6, <3>7 DEF UpEnd
    <3>9. m < Len(ps) /\ Sizes(Head(up), B[m]) = {Len(ps[m + 1])}
      <4>1. /\ ps \in Seq(Seq(Nat)) /\ 1 + Len(client.login) \in Nat /\ up \in Seq(Units)
            /\ Bounds(B, ps, 1 + Len(client.login))
        BY UpTypes
      <4>2. /\ m \in Nat /\ m <= Len(ps) /\ Carried(up, 0, B[m], B[Len(ps)], B, ps)
            /\ B[m] < B[Len(ps)]
        BY <1>13, <3>2, <3>5, <3>7, <3>8
      <4> QED  BY <4>1, <4>2, SizeCarried
    <3>10. sneed' = Len(ps[m + 1])  BY <3>1, <3>5, <3>9
    <3>11. ReaderAt(at.sDec, spc = "body", sneed, packets.served, B, packets.toServer)'
      BY <3>1, <3>5, <3>9, <3>10 DEF ReaderAt
    <3>12. UpReader(B)'
      BY <1>1, <1>2, <3>1, <3>11 DEF UpReader
    <3> QED  BY <1>3, <3>4, <3>12
  <2> QED  BY <2>1, <2>2
<1>15. ASSUME ReadFrame  PROVE UpAt(B)'
  <2> DEFINE x == Content(First(up, sneed), at.sDec)
  <2>1. /\ spc = "body" /\ spc' = "frame" /\ up' = After(up, Amount(sneed))
        /\ packets'.served = Append(packets.served, x) /\ at'.sDec = at.sDec + sneed
        /\ packets.served \in Seq(Seq(Int))
    BY <1>15 DEF ReadFrame, Types, Positions, Histories
  <2>2. Serving /\ KeyUnits' = 0  BY <2>1 DEF Serving, KeyUnits
  <2>3. m < Len(ps) /\ sneed = Len(ps[m + 1]) /\ at.sDec = B[m] + 1
    BY <1>13, <2>1, <2>2 DEF ReaderAt
  <2>4. UpEnd(B) = B[Len(ps)]
    <3>1. at.sDec <= UpEnd(B)  BY <1>13, <2>2 DEF Carried
    <3>2. UpEnd(B) \in Nat  BY UpTypes
    <3> QED  BY <1>13, <2>2, <2>3, <3>1, <3>2 DEF UpEnd
  <2>5. /\ x = ps[m + 1] /\ at.sDec + sneed = B[m + 1] /\ sneed \in Nat
        /\ sneed <= Len(up)
    <3>1. /\ ps \in Seq(Seq(Nat)) /\ 1 + Len(client.login) \in Nat /\ up \in Seq(Units)
          /\ Bounds(B, ps, 1 + Len(client.login))
      BY UpTypes
    <3>2. m \in Nat /\ m < Len(ps) /\ Carried(up, 0, B[m] + 1, B[Len(ps)], B, ps)
      BY <1>13, <2>2, <2>3, <2>4
    <3> HIDE DEF m, ps
    <3>3. LET l == Len(ps[m + 1]) IN
          /\ Content(First(up, l), B[m] + 1) = ps[m + 1]
          /\ B[m] + 1 + l = B[m + 1] /\ l <= B[Len(ps)] - (B[m] + 1)
          /\ l \in Nat /\ l <= Len(up)
      BY <3>1, <3>2, BodyCarried
    <3> QED  BY <2>3, <3>3
  <2>6. Amount(sneed) = sneed
    <3>1. m + 1 \in 1 .. Len(ps)
      <4>1. Len(ps) \in Nat /\ m \in Nat  BY UpTypes, LenProperties
      <4> QED  BY <2>3, <4>1
    <3>2. sneed \in 1 .. MaxPacket  BY <1>1, <2>3, <3>1 DEF UpWriter, Lengths
    <3> QED  BY <3>2 DEF Amount
  <2>7. UpStream(B)'  BY <1>2, <1>13, <2>1, <2>2, <2>5, <2>6, UpReadsStream
  <2>8. ps[m + 1] \in Seq(Nat) /\ ps[m + 1] \in Seq(Int)
    <3>1. ps \in Seq(Seq(Nat)) /\ Len(ps) \in Nat /\ m \in Nat  BY UpTypes, LenProperties
    <3>2. ps[m + 1] \in Seq(Nat)
      <4>1. m + 1 \in 1 .. Len(ps)  BY <2>3, <3>1
      <4> QED  BY <3>1, <4>1, ElementOfSeq
    <3> HIDE DEF m, ps
    <3>3. ps[m + 1] \in Seq(Int)
      <4>1. \A i \in 1 .. Len(ps[m + 1]) : ps[m + 1][i] \in Nat  BY <3>2, ElementOfSeq
      <4>2. Len(ps[m + 1]) \in Nat  BY <3>2, LenProperties
      <4> QED  BY <3>2, <4>1, <4>2
    <3> QED  BY <3>2, <3>3
  <2> HIDE DEF x
  <2>9. Begins(packets.served', ps)
    <3>1. Begins(packets.served, ps) /\ ps \in Seq(Seq(Nat))  BY <1>1, UpTypes DEF UpReader
    <3> QED  BY <2>1, <2>3, <2>5, <2>8, <3>1, BeginsGrow
  <2>10. Len(packets'.served) = m + 1
    BY <2>1, <2>5, <2>8, Appended
  <2>11. ReaderAt(at.sDec, spc = "body", sneed, packets.served, B, packets.toServer)'
    BY <1>2, <2>1, <2>5, <2>10 DEF ReaderAt
  <2>12. UpReader(B)'
    BY <1>2, <2>1, <2>9, <2>11 DEF UpReader
  <2> QED  BY <1>3, <2>7, <2>12
<1> QED
  BY <1>6, <1>7, <1>8, <1>9, <1>10, <1>11, <1>12, <1>14, <1>15 DEF ServerStep

\* The steps of the client keep UpInv: the stream ends where the next frame is to
\* begin, and a frame that is not sent any more is the last.
LEMMA UpClient ==
    ASSUME Types, StreamInv, RunInv, Conforming, NEW B, UpAt(B), ClientStep
    PROVE  \E E : UpAt(E)'
<1> DEFINE ps == packets.toServer
           n == Len(ps)
<1>1. UpWriter(B) /\ UpReader(B) /\ UpStream(B)
      /\ Bounds(B, ps, 1 + Len(client.login))
  BY DEF UpAt
<1>2. UNCHANGED <<client, spc, sneed, closed>> /\ packets'.served = packets.served
      /\ at'.sDec = at.sDec
  <2>1. UNCHANGED <<client, spc, sneed, closed>>
    BY DEF ClientStep, StartAsync, SendKey, CheckEarlyAnswer, ReadEarlyAnswer, SendLogin,
       ReadIpSize, ReadIp, PeekCallback, ReadsUndefined, TunRead, TunSend, SockReadSize,
       SockReadBody, SockWrite, SignalsDestroyed, Dies, ClientOnly, clientVars,
       serverVars
  <2>2. packets'.served = packets.served
    BY DEF ClientStep, StartAsync, SendKey, CheckEarlyAnswer, ReadEarlyAnswer, SendLogin,
       ReadIpSize, ReadIp, PeekCallback, ReadsUndefined, TunRead, TunSend, SockReadSize,
       SockReadBody, SockWrite, SignalsDestroyed, Dies, Types, Histories
  <2>3. at'.sDec = at.sDec
    BY DEF ClientStep, StartAsync, SendKey, CheckEarlyAnswer, ReadEarlyAnswer, SendLogin,
       ReadIpSize, ReadIp, PeekCallback, ReadsUndefined, TunRead, TunSend, SockReadSize,
       SockReadBody, SockWrite, SignalsDestroyed, Dies, ReadBlockSize, Types,
       Positions
  <2> QED  BY <2>1, <2>2, <2>3
<1>3. ASSUME UNCHANGED <<logins, packets.toServer, at.cEnc, out, up>>,
             (cpc \in {"key", "check", "early", "login"})
                <=> (cpc' \in {"key", "check", "early", "login"}),
             cpc = "key" <=> cpc' = "key",
             \/ tunReader' = tunReader
             \/ logins = 0 /\ tunReader = "off" /\ tunReader' = "read"
      PROVE  UpAt(B)'
  <2>1. UpWriter(B)'  BY <1>1, <1>3, UpWriterSame
  <2>2. UpReader(B)'  BY <1>1, <1>2, <1>3, UpReaderSame
  <2>3. UpStream(B)'  BY <1>1, <1>2, <1>3, UpStreamSame
  <2>4. Bounds(B, packets.toServer, 1 + Len(client.login))'  BY <1>1, <1>2, <1>3, UpBoundsSame
  <2> QED  BY <2>1, <2>2, <2>3, <2>4 DEF UpAt
<1>5. ASSUME UNCHANGED <<clientVars, runVars, up, at, packets>>  PROVE UpAt(B)'
  BY <1>3, <1>5 DEF clientVars, runVars
<1>6. ASSUME Dies \/ ReadEarlyAnswer \/ PeekCallback \/ ReadsUndefined \/ SignalsDestroyed
      PROVE  UpAt(B)'
  <2>1. UNCHANGED <<clientVars, runVars, up, at, packets>>
    BY <1>6 DEF Dies, ReadEarlyAnswer, PeekCallback, ReadsUndefined, SignalsDestroyed
  <2> QED  BY <1>5, <2>1
<1>7. ASSUME CheckEarlyAnswer, ~Dies  PROVE UpAt(B)'
  <2>1. /\ cpc = "check" /\ cpc' \in {"login", "early"}
        /\ UNCHANGED <<logins, runVars, up, at, packets>>
    BY <1>7 DEF CheckEarlyAnswer
  <2> QED  BY <1>3, <2>1 DEF runVars
<1>8. ASSUME ReadIpSize, ~Dies  PROVE UpAt(B)'
  <2>1. /\ cpc = "ipsize" /\ cpc' \in {"ipsize", "ip"}
        /\ UNCHANGED <<logins, runVars, up, packets>> /\ at'.cEnc = at.cEnc
    BY <1>8 DEF ReadIpSize, ReadBlockSize, Types, Positions
  <2> QED  BY <1>3, <2>1 DEF runVars
<1>9. ASSUME ReadIp, ~Dies  PROVE UpAt(B)'
  <2>1. /\ cpc = "ip" /\ cpc' = "run" /\ tunReader' = "read"
        /\ UNCHANGED <<logins, out, up, packets>> /\ at'.cEnc = at.cEnc
    BY <1>9 DEF ReadIp, SetupTun, Types, Positions
  <2>2. logins = 0  BY <1>1, <2>1 DEF UpWriter
  <2>3. tunReader = "off"  BY <2>1 DEF RunInv
  <2> QED  BY <1>3, <2>1, <2>2, <2>3
<1>10. ASSUME \/ SockReadSize /\ ~Dies
              \/ SockReadBody \/ SockWrite
       PROVE  UpAt(B)'
  <2>1. UNCHANGED <<clientVars, tunReader, out, up>>
    BY <1>10 DEF SockReadSize, SockReadBody, SockWrite
  <2>2. packets'.toServer = ps /\ at'.cEnc = at.cEnc
    BY <1>10 DEF SockReadSize, SockReadBody, SockWrite, ReadBlockSize, Types, Positions,
       Histories
  <2> QED  BY <1>3, <2>1, <2>2 DEF clientVars
<1>12. ASSUME SendKey, ~Dies  PROVE UpAt(B)'
  <2> DEFINE k == <<Clear(client.key)>>
  <2>1. /\ cpc = "key" /\ cpc' = "check" /\ up' = up \o k \o RsaBlock
        /\ UNCHANGED <<logins, runVars, at, packets>>
    BY <1>12 DEF SendKey
  <2>2. spc \in {"key", "end"} /\ logins = 1  BY <1>1, <2>1 DEF StreamInv, UpWriter
  <2>3. UpWriter(B)'
    BY <1>1, <2>1, UpWriterSame DEF runVars
  <2>4. UpReader(B)'  BY <1>1, <1>2, <2>1, UpReaderSame
  <2>5. ASSUME Tracked'  PROVE /\ Carried(up, KeyUnits, at.sDec, UpEnd(B), B, packets.toServer)'
                               /\ Len(up') = KeyUnits' + (UpEnd(B)' - at'.sDec)
    <3>1. ~closed /\ spc = "key"
      BY <1>2, <2>2, <2>5 DEF Tracked, LoggingIn, Serving
    <3>2. up = <<>> /\ at'.sDec = 0 /\ UpEnd(B)' = 0 /\ KeyUnits' = 1 + KeyLen
      BY <1>2, <2>1, <2>2, <3>1 DEF StreamInv, UpEnd, KeyUnits
    <3>3. k \in Seq(Units) /\ Len(k) = 1 /\ RsaBlock \in Seq(Units) /\ Len(RsaBlock) = KeyLen
          /\ up \in Seq(Units) /\ Len(up) = 0
      BY <3>2, PlainUnits, ClientFields, EmptySeq DEF Types
    <3> HIDE DEF k
    <3> DEFINE w == up \o k
    <3>4. w \in Seq(Units) /\ Len(w) = 0 + 1  BY <3>3, Sent
    <3>8. up' = w \o RsaBlock  BY <2>1
    <3> HIDE DEF w
    <3>5. Len(up') = 0 + 1 + KeyLen
      <4>1. Len(w \o RsaBlock) = Len(w) + Len(RsaBlock)  BY <3>3, <3>4, Sent
      <4> QED  BY <3>3, <3>4, <3>8, <4>1
    <3>6. KeyLen \in Nat  BY ClientAssumption
    <3>7. Carried(up', 1 + KeyLen, 0, 0, B, packets'.toServer)
      BY <3>5, <3>6 DEF Carried
    <3> QED  BY <3>2, <3>5, <3>6, <3>7
  <2>6. UpStream(B)'  BY <2>5 DEF UpStream
  <2>7. Bounds(B, packets.toServer, 1 + Len(client.login))'  BY <1>1, <1>2, <2>1, UpBoundsSame
  <2> QED  BY <2>3, <2>4, <2>6, <2>7 DEF UpAt
<1>13. ASSUME SendLogin, ~Dies  PROVE UpAt(B)'
  <2> DEFINE vs == <<client.field>> \o client.login
             l == Len(client.login)
             d == KeyUnits
  <2>1. /\ cpc = "login" /\ up' = up \o Encrypted(vs, 0) /\ at'.cEnc = 1 + l
        /\ logins' = logins - 1 /\ cpc' = IF logins = 1 THEN "ipsize" ELSE "login"
        /\ UNCHANGED <<runVars, packets>>
    BY <1>13 DEF SendLogin, Types, Positions
  <2>2. logins = 1 /\ ps = <<>> /\ tunReader = "off"  BY <1>1, <2>1 DEF UpWriter
  <2>3. logins' = 0 /\ cpc' = "ipsize" /\ n = 0  BY <2>1, <2>2, EmptySeq
  <2>4. B[0] = 1 + l  BY <1>1 DEF Bounds
  <2>5. UpWriter(B)'
    <3>1. Lengths(packets.toServer)'  BY <1>1, <2>1 DEF UpWriter, Lengths
    <3>2. tunReader' = "off"  BY <2>1, <2>2 DEF runVars
    <3>3. at'.cEnc = B[Len(packets'.toServer)] + 0
      <4>1. 1 + l \in Nat  BY UpTypes
      <4> QED  BY <2>1, <2>3, <2>4, <4>1
    <3> QED  BY <2>3, <3>1, <3>2, <3>3 DEF UpWriter
  <2>6. UpReader(B)'  BY <1>1, <1>2, <2>1, UpReaderSame
  <2>7. ASSUME Tracked'  PROVE /\ Carried(up, KeyUnits, at.sDec, UpEnd(B), B, packets.toServer)'
                               /\ Len(up') = KeyUnits' + (UpEnd(B)' - at'.sDec)
    <3>1. Tracked /\ d' = d
      BY <1>2, <2>1, <2>7 DEF Tracked, LoggingIn, Serving, KeyUnits
    <3>2. UpEnd(B) = 0 /\ UpEnd(B)' = 1 + l
      BY <2>1, <2>2, <2>3, <2>4 DEF UpEnd
    <3>3. Carried(up, d, at.sDec, 0, B, ps) /\ Len(up) = d + (0 - at.sDec)
      BY <1>1, <3>1, <3>2 DEF UpStream
    <3>4. at.sDec \in Nat /\ d \in Nat /\ l \in Nat /\ up \in Seq(Units)
      <4>1. l \in Nat  BY ClientFields DEF Types
      <4> QED  BY <4>1, UpTypes
    <3>5. at.sDec = 0 /\ Len(up) = d  BY <3>3, <3>4 DEF Carried
    <3>6. vs \in Seq(Nat) /\ Len(vs) = 1 + l  BY FrameValues, ClientFields DEF Types
    <3> HIDE DEF vs, d, l
    <3>7. LET w == up \o Encrypted(vs, 0) IN
          Carried(w, d, 0, 0 + Len(vs), B, <<>>) /\ Len(w) = d + Len(vs)
      BY <3>4, <3>5, <3>6, FirstSent
    <3>8. Carried(up', d, 0, 1 + l, B, <<>>) /\ Len(up') = d + (1 + l)
      BY <2>1, <3>4, <3>6, <3>7
    <3>9. packets'.toServer = <<>> /\ at'.sDec = 0  BY <1>2, <2>1, <2>2, <3>5
    <3>10. Carried(up', d', at'.sDec, UpEnd(B)', B, packets'.toServer)
      BY <3>1, <3>2, <3>8, <3>9
    <3>11. Len(up') = d' + (UpEnd(B)' - at'.sDec)
      BY <3>1, <3>2, <3>4, <3>8, <3>9
    <3> QED  BY <3>10, <3>11 DEF d
  <2>8. UpStream(B)'  BY <2>7 DEF UpStream
  <2>9. Bounds(B, packets.toServer, 1 + Len(client.login))'  BY <1>1, <1>2, <2>1, UpBoundsSame
  <2> QED  BY <2>5, <2>6, <2>8, <2>9 DEF UpAt
<1>14. ASSUME TunRead  PROVE UpAt(B)'
  <2>1. tunReader = "read" /\ UNCHANGED <<clientVars, up, packets>>
    BY <1>14 DEF TunRead
  <2>2. logins = 0  BY <1>1, <2>1 DEF UpWriter
  <2>4. ASSUME NEW p \in PacketsNo(n + 1), out' = p,
               at' = [at EXCEPT !.cEnc = @ + 1 + Len(p)], tunReader' = "send"
        PROVE  UpAt(B)'
    <3>1. p \in Seq(Nat) /\ Len(p) \in 1 .. MaxPacket
      <4>1. n + 1 \in Nat  BY Parts
      <4>2. PICK j \in 1 .. MaxPacket : p = [i \in 1 .. j |-> n + 1]  BY DEF PacketsNo
      <4>3. Len(p) = j  BY <4>2, ClientAssumption
      <4> QED  BY <4>1, <4>3, PacketUnits
    <3>2. at'.cEnc = at.cEnc + 1 + Len(p) /\ at'.sDec = at.sDec
      BY <2>4 DEF Types, Positions
    <3>3. at.cEnc = B[n]
      <4>1. at.cEnc = B[n] + 0  BY <1>1, <2>1, <2>2 DEF UpWriter
      <4>2. B[n] \in Nat  BY UpTypes
      <4> QED  BY <4>1, <4>2
    <3>4. at'.cEnc = B[n] + (1 + Len(p))
      <4> DEFINE b == B[n]
                 l == Len(p)
      <4>1. b \in Nat /\ l \in Nat /\ at'.cEnc = b + 1 + l
        BY <3>1, <3>2, <3>3, UpTypes, LenProperties
      <4> HIDE DEF b, l
      <4>2. at'.cEnc = b + (1 + l)  BY <4>1
      <4> QED  BY <4>2 DEF b, l
    <3>5. UpWriter(B)'
      <4>1. Lengths(packets.toServer)'  BY <1>1, <2>1 DEF UpWriter, Lengths
      <4> QED  BY <1>1, <2>1, <2>2, <2>4, <3>1, <3>4, <4>1 DEF UpWriter, clientVars
    <3>6. UpReader(B)'  BY <1>1, <1>2, <2>1, UpReaderSame
    <3>7. UpStream(B)'  BY <1>1, <1>2, <2>1, UpStreamSame DEF clientVars
    <3>8. Bounds(B, packets.toServer, 1 + Len(client.login))'
      BY <1>1, <1>2, <2>1, UpBoundsSame
    <3> QED  BY <3>5, <3>6, <3>7, <3>8 DEF UpAt
  <2> QED  BY <1>14, <2>4 DEF TunRead
<1>15. ASSUME TunSend, ~Dies  PROVE \E E : UpAt(E)'
  <2>1. /\ tunReader = "send" /\ out' = <<>> /\ tunReader' = "read"
        /\ UNCHANGED <<clientVars, at>>
    BY <1>15 DEF TunSend
  <2>2. /\ logins = 0 /\ Len(out) \in 1 .. MaxPacket
        /\ at.cEnc = B[n] + (1 + Len(out)) /\ Lengths(ps)
    BY <1>1, <2>1 DEF UpWriter
  <2>3. /\ out \in Seq(Nat) /\ ps \in Seq(Seq(Nat)) /\ n \in Nat /\ B[n] \in Nat
        /\ 1 + Len(client.login) \in Nat /\ up \in Seq(Units) /\ KeyUnits \in Nat
        /\ at.sDec \in Nat /\ Len(out) \in Nat
    BY UpTypes, LenProperties DEF Types
  <2>13. PICK E : E = Grown(B, ps, out)  OBVIOUS
  <2> DEFINE e == E[n + 1]
             qs == Append(ps, out)
             d == KeyUnits
  <2>4. /\ up' = up \o Encrypted(Frame(out), B[n])
        /\ packets'.toServer = qs
    <3>1. at.cEnc - 1 - Len(out) = B[n]
      <4> DEFINE b == B[n]
                 c == at.cEnc
                 l == Len(out)
      <4>1. c - 1 - l = b
        <5>1. c = b + (1 + l) /\ b \in Nat /\ l \in Nat  BY <2>2, <2>3
        <5> HIDE DEF b, c, l
        <5> QED  BY <5>1
      <4> QED  BY <4>1
    <3>2. /\ up' = up \o Encrypted(Frame(out), at.cEnc - 1 - Len(out))
          /\ packets'.toServer = qs
      BY <1>15 DEF TunSend, Types, Histories
    <3> QED  BY <3>1, <3>2
  <2>5. Bounds(E, qs, 1 + Len(client.login)) /\ e = B[n] + 1 + Len(out)
    <3> HIDE DEF ps
    <3>1. /\ Bounds(Grown(B, ps, out), Append(ps, out), 1 + Len(client.login))
          /\ Grown(B, ps, out)[Len(ps) + 1] = B[Len(ps)] + 1 + Len(out)
      BY <1>1, <2>3, BoundsGrow
    <3> QED  BY <2>13, <3>1
  <2>6. Len(qs) = n + 1  BY <2>3, Appended
  <2>7. Bounds(E, packets.toServer, 1 + Len(client.login))'  BY <1>2, <2>4, <2>5
  <2>8. UpWriter(E)'
    <3>1. Lengths(packets.toServer)'  BY <2>2, <2>3, <2>4, LengthsGrow DEF Lengths
    <3>2. at'.cEnc = E[Len(packets'.toServer)] + 0
      <4>1. at'.cEnc = B[n] + (1 + Len(out)) /\ E[Len(packets'.toServer)] = e
        BY <2>1, <2>2, <2>4, <2>6
      <4>2. e = B[n] + 1 + Len(out)  BY <2>5
      <4> DEFINE b == B[n]
      <4>3. b \in Nat /\ Len(out) \in Nat  BY <2>3
      <4>4. e \in Nat /\ at'.cEnc = e
        <5> HIDE DEF e, b
        <5> QED  BY <4>1, <4>2, <4>3 DEF b
      <4> HIDE DEF e
      <4> QED  BY <4>1, <4>4
    <3>3. tunReader' = "read" /\ logins' = 0 /\ cpc' = cpc
      BY <2>1, <2>2 DEF clientVars
    <3> QED  BY <1>1, <2>2, <3>1, <3>2, <3>3 DEF UpWriter
  <2>9. UpReader(E)'
    <3>1. Begins(packets.served, qs) /\ Len(packets.served) <= n
      BY <1>1, <2>3, UpTypes, BeginsGrow DEF UpReader, Begins
    <3>2. Begins(packets.served, packets.toServer)'  BY <1>2, <2>4, <3>1
    <3>3. ASSUME Serving
          PROVE  ReaderAt(at.sDec, spc = "body", sneed, packets.served, E, qs)
      <4>1. ReaderAt(at.sDec, spc = "body", sneed, packets.served, B, ps)
        BY <1>1, <3>3 DEF UpReader
      <4>2. (spc = "body") \in BOOLEAN /\ packets.served \in Seq(Seq(Int))
        BY UpTypes
      <4> QED  BY <1>1, <2>3, <2>13, <3>1, <4>1, <4>2, ReaderGrow
    <3> QED
      BY <1>1, <1>2, <2>1, <2>4, <3>2, <3>3 DEF UpReader, Serving
  <2>10. ASSUME Tracked'
        PROVE  /\ Carried(up', d', at'.sDec, UpEnd(E)', E, packets'.toServer)
               /\ Len(up') = d' + (UpEnd(E)' - at'.sDec)
    <3>1. Tracked /\ d' = d
      BY <1>2, <2>1, <2>10 DEF Tracked, LoggingIn, Serving, KeyUnits, clientVars
    <3>2. UpEnd(B) = B[n] /\ UpEnd(E)' = e
      BY <2>1, <2>2, <2>4, <2>6 DEF UpEnd, clientVars
    <3>3. Carried(up, d, at.sDec, B[n], B, ps) /\ Len(up) = d + (B[n] - at.sDec)
      BY <1>1, <3>1, <3>2 DEF UpStream
    <3>4. /\ Carried(up', d, at.sDec, e, E, qs)
          /\ Len(up') = d + (e - at.sDec)
      <4>1. LET w == up \o Encrypted(Frame(out), B[Len(ps)])
                f == Grown(B, ps, out)[Len(ps) + 1]
            IN  /\ Carried(w, d, at.sDec, f, Grown(B, ps, out), Append(ps, out))
                /\ Len(w) = d + (f - at.sDec)
        <5>1. /\ Bounds(B, ps, 1 + Len(client.login)) /\ d \in Nat
              /\ Carried(up, d, at.sDec, B[Len(ps)], B, ps)
              /\ Len(up) = d + (B[Len(ps)] - at.sDec)
          BY <1>1, <2>3, <3>3
        <5> HIDE DEF d, ps
        <5> QED  BY <2>3, <5>1, FrameSent
      <4> QED  BY <2>4, <2>13, <4>1
    <3> QED  BY <1>2, <2>4, <3>1, <3>2, <3>4
  <2>11. UpStream(E)'  BY <2>10 DEF UpStream
  <2>12. UpAt(E)'  BY <2>7, <2>8, <2>9, <2>11 DEF UpAt
  <2> QED  BY <2>12
<1>16. ASSUME UpAt(B)'  PROVE \E E : UpAt(E)'
  BY <1>16
<1> QED
  BY <1>6, <1>7, <1>8, <1>9, <1>10, <1>12, <1>13, <1>14, <1>15, <1>16
     DEF ClientStep, StartAsync

-----------------------------------------------------------------------------
(* The stream to the client.                                                 *)

\* The error frame is sent.
LEMMA UnderwayClosed ==
    ASSUME NEW us \in Seq(Units), NEW q \in Nat, NEW e \in Nat, NEW C, NEW ps,
           Underway(us, q, e, FALSE, C, ps)
    PROVE  Underway(us \o ErrorFrame, q, e, TRUE, C, ps)
<1> DEFINE w == us \o ErrorFrame
           m == Len(us)
<1>1. Carried(us, 0, q, e, C, ps) /\ m = e - q /\ (q = Iv2 /\ e > Iv2 => us[1].v = IpLen)
  <2>1. m = e - q + 0  BY DEF Underway
  <2> QED  BY <2>1 DEF Underway
<1>2. ErrorFrame \in Seq(Units) /\ Len(ErrorFrame) = 2 /\ ErrorFrame[1] = Clear(Mark)
      /\ ErrorFrame[2] = Clear(0)
  BY PlainUnits DEF ErrorFrame
<1>3. q <= e /\ m \in Nat  BY <1>1, LenProperties DEF Carried
<1>4. Carried(w, 0, q, e, C, ps)  BY <1>1, <1>2, CarriedStays
<1>5. /\ Len(w) = m + 2 /\ \A i \in 1 .. m : w[i] = us[i]
      /\ w[m + 1] = Clear(Mark) /\ w[m + 2] = Clear(0)
  <2>1. /\ Len(w) = m + Len(ErrorFrame) /\ \A i \in 1 .. m : w[i] = us[i]
        /\ \A i \in 1 .. Len(ErrorFrame) : w[m + i] = ErrorFrame[i]
    BY <1>2, Sent
  <2> HIDE DEF w, m
  <2> QED  BY <1>2, <2>1
<1> HIDE DEF w, m
<1>6. q = Iv2 /\ e > Iv2 => w[1].v = IpLen
  <2>1. e > q => 1 \in 1 .. m  BY <1>1, <1>3
  <2> QED  BY <1>1, <1>5, <2>1
<1>7. w[m + 2].pos = Plain  BY <1>5 DEF Clear
<1> QED  BY <1>1, <1>4, <1>5, <1>6, <1>7 DEF Underway, w

\* The address is sent.
LEMMA UnderwayAddress ==
    ASSUME NEW us \in Seq(Units), NEW C, NEW q \in Nat, Underway(us, q, q, FALSE, C, <<>>)
    PROVE  Underway(us \o Encrypted(<<IpLen, 1>>, q), q, q + 2, FALSE, C, <<>>)
<1> DEFINE vs == <<IpLen, 1>>
           t == Encrypted(vs, q)
           w == us \o t
           d == Len(us)
<1>1. vs \in Seq(Nat) /\ Len(vs) = 2 /\ vs[1] = IpLen  BY DEF IpLen
<1>2. d = 0
  <2>1. d = q - q + 0  BY DEF Underway
  <2> QED  BY <2>1
<1> HIDE DEF vs, d
<1>3. Carried(w, d, q, q + 2, C, <<>>) /\ Len(w) = d + 2
  <2>1. d \in Nat /\ Len(us) = d  BY <1>2 DEF d
  <2>2. LET x == us \o Encrypted(vs, q) IN
        Carried(x, d, q, q + Len(vs), C, <<>>) /\ Len(x) = d + Len(vs)
    BY <1>1, <2>1, FirstSent
  <2> QED  BY <1>1, <2>2
<1>4. t \in Seq(Units) /\ Len(t) = 2 /\ t[1] = [v |-> vs[1], pos |-> q + 1 - 1]
  <2>1. /\ t \in Seq(Units) /\ Len(t) = 2
        /\ \A i \in 1 .. Len(vs) : t[i] = [v |-> vs[i], pos |-> q + i - 1]
    BY <1>1, EncryptedUnits
  <2>2. 1 \in 1 .. Len(vs)  BY <1>1
  <2> QED  BY <2>1, <2>2
<1> HIDE DEF t
<1>5. \A i \in 1 .. Len(t) : w[d + i] = t[i]  BY <1>4, Sent DEF d
<1> HIDE DEF w
<1>6. w[1].v = IpLen
  <2>1. 1 \in 1 .. Len(t) /\ d + 1 = 1  BY <1>2, <1>4
  <2>2. w[1] = t[1]  BY <1>5, <2>1
  <2> QED  BY <1>1, <1>4, <2>2
<1>7. Len(w) = q + 2 - q + 0 /\ Carried(w, 0, q, q + 2, C, <<>>)  BY <1>2, <1>3
<1>8. Underway(w, q, q + 2, FALSE, C, <<>>)  BY <1>6, <1>7 DEF Underway
<1> QED  BY <1>8 DEF w, vs, t

\* A packet is sent.
LEMMA UnderwayFrame ==
    ASSUME NEW ps \in Seq(Seq(Nat)), NEW p \in Seq(Nat), NEW C, Bounds(C, ps, Iv2 + 2),
           NEW us \in Seq(Units), NEW q \in Nat,
           Underway(us, q, C[Len(ps)], FALSE, C, ps)
    PROVE  Underway(us \o Encrypted(Frame(p), C[Len(ps)]), q, Grown(C, ps, p)[Len(ps) + 1],
                    FALSE, Grown(C, ps, p), Append(ps, p))
<1> DEFINE b == C[Len(ps)]
           t == Encrypted(Frame(p), b)
           w == us \o t
           e == Grown(C, ps, p)[Len(ps) + 1]
<1>1. Iv2 + 2 \in Nat /\ Iv2 \in Nat  BY DEF Iv2
<1>2. b \in Nat /\ Iv2 + 2 <= b
  <2>1. Len(ps) \in Nat  BY LenProperties
  <2>2. Len(ps) \in 0 .. Len(ps)  BY <2>1
  <2> QED  BY <1>1, <2>2, BoundsTypes
<1>3. /\ Carried(us, 0, q, b, C, ps) /\ Len(us) = b - q + 0
      /\ q = Iv2 /\ b > Iv2 => us[1].v = IpLen
  BY DEF Underway
<1>4. Len(us) = 0 + (b - q) /\ q <= b /\ Len(us) \in Nat
  BY <1>2, <1>3, LenProperties DEF Carried
<1>5. Carried(w, 0, q, e, Grown(C, ps, p), Append(ps, p)) /\ Len(w) = 0 + (e - q)
  <2>1. LET x == us \o Encrypted(Frame(p), C[Len(ps)])
            f == Grown(C, ps, p)[Len(ps) + 1]
        IN  /\ Carried(x, 0, q, f, Grown(C, ps, p), Append(ps, p))
            /\ Len(x) = 0 + (f - q)
    BY <1>1, <1>3, <1>4, FrameSent
  <2> QED  BY <2>1
<1>6. t \in Seq(Units)
  <2>1. b \in Int  BY <1>2
  <2> QED  BY <2>1, FrameUnits
<1> HIDE DEF b, t, e
<1>7. \A i \in 1 .. Len(us) : w[i] = us[i]  BY <1>6, Sent
<1> HIDE DEF w
<1>8. q = Iv2 => w[1].v = IpLen
  <2>1. q = Iv2 => 1 \in 1 .. Len(us) /\ b > Iv2  BY <1>1, <1>2, <1>4
  <2> QED  BY <1>3, <1>7, <2>1
<1>9. e \in Nat
  <2>1. e = b + 1 + Len(p)  BY <1>1, BoundsGrow DEF b, e
  <2>2. Len(p) \in Nat  BY LenProperties
  <2> QED  BY <1>2, <2>1, <2>2
<1>10. Len(w) = (e - q) + 0  BY <1>5, <1>9
<1> QED  BY <1>5, <1>8, <1>10 DEF Underway, b, t, w, e

\* k units are read.
LEMMA UnderwayRead ==
    ASSUME NEW us \in Seq(Units), NEW q \in Nat, NEW e \in Nat, NEW cl, NEW C, NEW ps,
           Underway(us, q, e, cl, C, ps), Iv2 <= q, NEW k \in Nat, 1 <= k, k <= e - q
    PROVE  Underway(After(us, k), q + k, e, cl, C, ps)
<1> DEFINE w == After(us, k)
           m == Len(us)
           x == IF cl THEN 2 ELSE 0
<1>1. /\ Carried(us, 0, q, e, C, ps) /\ m = (e - q) + x
      /\ cl => us[(e - q) + 1] = Clear(Mark) /\ us[(e - q) + 2].pos = Plain
  BY DEF Underway
<1>2. q <= e /\ m \in Nat /\ x \in Nat /\ Iv2 \in Nat  BY <1>1, LenProperties DEF Carried, Iv2
<1>3. k <= m  BY <1>1, <1>2
<1>4. Len(w) = m - k /\ \A i \in 1 .. m - k : w[i] = us[k + i]  BY <1>3, FirstAfter
<1>5. Carried(w, 0, q + k, e, C, ps)
  <2>1. 0 \in Nat /\ 0 = 0  OBVIOUS
  <2> QED  BY <1>1, <2>1, CarriedRead
<1>8. cl => x = 2  OBVIOUS
<1> HIDE DEF w, m, x
<1>6. q + k # Iv2 /\ Len(w) = (e - (q + k)) + x  BY <1>1, <1>2, <1>4
<1>7. ASSUME cl  PROVE w[(e - (q + k)) + 1] = Clear(Mark) /\ w[(e - (q + k)) + 2].pos = Plain
  <2> DEFINE i == (e - (q + k)) + 1
             j == (e - (q + k)) + 2
  <2>1. i \in 1 .. m - k /\ k + i = (e - q) + 1 /\ j \in 1 .. m - k /\ k + j = (e - q) + 2
    BY <1>1, <1>2, <1>7, <1>8
  <2> HIDE DEF i, j
  <2>2. w[i] = us[k + i] /\ w[j] = us[k + j]  BY <1>4, <2>1
  <2>3. w[i] = Clear(Mark) /\ w[j].pos = Plain  BY <1>1, <1>7, <2>1, <2>2
  <2> QED  BY <2>3 DEF i, j
<1> QED  BY <1>5, <1>6, <1>7 DEF Underway, w, x

\* There is something encrypted to read, unless the error frame is next.
LEMMA UnderwaySome ==
    ASSUME NEW us \in Seq(Units), NEW q \in Nat, NEW e \in Nat, NEW cl, NEW C, NEW ps,
           Underway(us, q, e, cl, C, ps), us # <<>>, Head(us) # Clear(Mark)
    PROVE  q < e /\ Head(us) = us[1] /\ us[1].pos = q /\ Tail(us) = After(us, 1)
<1> DEFINE m == Len(us)
           x == IF cl THEN 2 ELSE 0
<1>1. /\ Carried(us, 0, q, e, C, ps) /\ m = (e - q) + x
      /\ cl => us[(e - q) + 1] = Clear(Mark)
  BY DEF Underway
<1>2. m \in Nat \ {0} /\ Head(us) = us[1] /\ Tail(us) = After(us, 1)  BY TailAfter
<1>3. q <= e  BY <1>1 DEF Carried
<1>4. ~cl => x = 0  OBVIOUS
<1> HIDE DEF m, x
<1>5. q # e
  <2> SUFFICES ASSUME q = e  PROVE FALSE
    OBVIOUS
  <2>1. e - q = 0 /\ (e - q) + 1 = 1  OBVIOUS
  <2>2. cl  BY <1>1, <1>2, <1>4, <2>1
  <2>3. us[1] = Clear(Mark)  BY <1>1, <2>1, <2>2
  <2> QED  BY <1>2, <2>3
<1>6. us[1].pos = q
  <2>1. 1 \in 1 .. e - q /\ 0 + 1 = 1 /\ q + 1 - 1 = q  BY <1>3, <1>5
  <2>2. Carries(us[0 + 1], q + 1 - 1, C, ps)  BY <1>1, <2>1 DEF Carried
  <2> QED  BY <2>1, <2>2 DEF Carries
<1> QED  BY <1>2, <1>3, <1>5, <1>6

\* The parts of DownAt do not change with what they do not mention.
LEMMA DownReaderSame ==
    ASSUME NEW C, DownReader(C),
           UNCHANGED <<cpc, sockReader, need, fate, packets.received, packets.toClient,
                       at.cDec>>,
           cpc = "ip" => at'.sEnc > at'.cDec
    PROVE  DownReader(C)'
BY DEF DownReader, Begins, Alive, ReaderAt

\* How a step of the session may change where it is, for what it has sent.
SameSide(sp, sq) ==
    \/ sq = "end"
    \/ sp \in {"key", "rsa", "login", "name", "sendip"}
       /\ sq \in {"key", "rsa", "login", "name", "sendip"}
    \/ sp \in {"frame", "body"} /\ sq \in {"frame", "body"}
    \/ sq = sp

LEMMA DownWriterSame ==
    ASSUME NEW C, DownWriter(C), UNCHANGED <<packets.toClient, at.sEnc>>, SameSide(spc, spc'),
           routed' => routed
    PROVE  DownWriter(C)'
<1>1. Lengths(packets.toClient)'  BY DEF DownWriter, Lengths
<1>2. Serving' => Serving \/ at.sEnc = C[Len(packets.toClient)]
  BY DEF SameSide, Serving
<1>3. spc' \in {"key", "rsa", "login", "name", "sendip"}
        => spc \in {"key", "rsa", "login", "name", "sendip"}
  BY DEF SameSide
<1> QED  BY <1>1, <1>2, <1>3 DEF DownWriter, LoggingIn

LEMMA DownBoundsSame ==
    ASSUME NEW C, Bounds(C, packets.toClient, Iv2 + 2), UNCHANGED packets.toClient
    PROVE  Bounds(C, packets.toClient, Iv2 + 2)'
BY DEF Bounds

\* The connection is closed, unless it is closed already.
LEMMA DownCloses ==
    ASSUME Types, NEW C, DownStream(C), Close,
           UNCHANGED <<packets.toClient, at.cDec, at.sEnc>>
    PROVE  DownStream(C)'
<1>1. closed'  BY DEF Close
<1>2. CASE closed
  <2>1. down' = down  BY <1>2 DEF Close
  <2> QED  BY <1>1, <1>2, <2>1 DEF DownStream, Underway
<1>3. CASE ~closed
  <2>1. down' = down \o ErrorFrame  BY <1>3 DEF Close
  <2>2. Underway(down, at.cDec, at.sEnc, FALSE, C, packets.toClient)
    BY <1>3 DEF DownStream, Underway
  <2>3. Underway(down \o ErrorFrame, at.cDec, at.sEnc, TRUE, C, packets.toClient)
    BY <2>2, Parts, UnderwayClosed DEF Types
  <2> QED  BY <1>1, <2>1, <2>3 DEF DownStream, Underway
<1> QED  BY <1>2, <1>3

\* The address is sent to a client that waits for it.
LEMMA DownAddress ==
    ASSUME Types, RunInv, NEW C, DownAt(C), ~closed, spc = "sendip"
    PROVE  /\ at.sEnc = Iv2 /\ at.cDec = Iv2 /\ packets.toClient = <<>> /\ cpc # "ip"
           /\ C[0] = Iv2 + 2
           /\ Underway(down \o Encrypted(<<IpLen, 1>>, at.sEnc), at.cDec, at.sEnc + 2, FALSE,
                       C, packets.toClient)
<1> DEFINE ps == packets.toClient
           w == Iv2
<1>1. Bounds(C, ps, w + 2) /\ DownWriter(C) /\ DownStream(C) /\ DownReader(C)
  BY DEF DownAt
<1>2. w \in Nat  BY DEF Iv2
<1>3. at.sEnc = w  BY <1>1 DEF DownWriter, LoggingIn
<1>4. cpc \notin {"ip", "run"}  BY DEF RunInv
<1>5. at.cDec = w  BY <1>1, <1>4 DEF DownReader
<1> HIDE DEF w
<1>6. ps = <<>>
  <2>1. ps \in Seq(Seq(Nat)) /\ Len(ps) \in Nat /\ Len(ps) \in 0 .. Len(ps)  BY Parts
  <2>2. w + 2 <= C[Len(ps)] /\ w + 2 \in Nat
    <3>1. w + 2 \in Nat  BY <1>2
    <3> QED  BY <1>1, <2>1, <3>1, BoundsTypes
  <2>3. at.sEnc # C[Len(ps)]  BY <1>2, <1>3, <2>2
  <2> QED  BY <1>1, <2>3 DEF DownWriter
<1>7. C[0] = w + 2  BY <1>1 DEF Bounds
<1>8. Underway(down, w, w, FALSE, C, <<>>)
  BY <1>1, <1>3, <1>5, <1>6 DEF DownStream, Underway
<1>9. Underway(down \o Encrypted(<<IpLen, 1>>, w), w, w + 2, FALSE, C, <<>>)
  BY <1>2, <1>8, UnderwayAddress DEF Types
<1> QED  BY <1>3, <1>4, <1>5, <1>6, <1>7, <1>9 DEF w

\* The steps of the server keep DownInv.
LEMMA DownServer ==
    ASSUME Types, RunInv, NEW C, DownAt(C),
           ServerStep \/ RouterSends \/ RouteErased \/ SweepCloses
    PROVE  \E E : DownAt(E)'
<1> DEFINE ps == packets.toClient
           n == Len(ps)
<1>1. Bounds(C, ps, Iv2 + 2) /\ DownWriter(C) /\ DownStream(C) /\ DownReader(C)
  BY DEF DownAt
<1>2. UNCHANGED <<cpc, sockReader, need, stale, fate>> /\ packets'.received = packets.received
      /\ at'.cDec = at.cDec
  <2>1. UNCHANGED <<cpc, sockReader, need, stale, fate>>
    BY DEF ServerStep, ReadFails, ReadKeySize, ReadKey, ReadLoginSize, ReadLogin, SendIp,
       RegisterFails, ReadFrameSize, ReadFrame, RouterSends, RouteErased, SweepCloses, ServerOnly,
       clientVars, runVars
  <2>2. packets'.received = packets.received
    BY DEF ServerStep, ReadFails, ReadKeySize, ReadKey, ReadLoginSize, ReadLogin, SendIp,
       RegisterFails, ReadFrameSize, ReadFrame, RouterSends, RouteErased, SweepCloses,
       Types, Histories
  <2>3. at'.cDec = at.cDec
    BY DEF ServerStep, ReadFails, ReadKeySize, ReadKey, ReadLoginSize, ReadLogin, SendIp,
       RegisterFails, ReadFrameSize, ReadFrame, RouterSends, RouteErased, SweepCloses,
       Types, Positions
  <2> QED  BY <2>1, <2>2, <2>3
<1>3. ASSUME DownAt(C)'  PROVE \E E : DownAt(E)'
  BY <1>3
<1>4. ASSUME UNCHANGED <<packets.toClient, at.sEnc>>, SameSide(spc, spc'),
             routed' => routed, Close \/ UNCHANGED <<closed, down>>
      PROVE  DownAt(C)'
  <2>1. DownReader(C)'
    <3>1. cpc = "ip" => at'.sEnc > at'.cDec  BY <1>1, <1>2, <1>4 DEF DownReader
    <3> QED  BY <1>1, <1>2, <1>4, <3>1, DownReaderSame
  <2>2. DownWriter(C)'  BY <1>1, <1>4, DownWriterSame
  <2>3. DownStream(C)'
    <3>1. CASE Close  BY <1>1, <1>2, <1>4, <3>1, DownCloses
    <3>2. CASE UNCHANGED <<closed, down>>  BY <1>1, <1>2, <1>4, <3>2 DEF DownStream
    <3> QED  BY <1>4, <3>1, <3>2
  <2>4. Bounds(C, packets.toClient, Iv2 + 2)'  BY <1>1, <1>4, DownBoundsSame
  <2> QED  BY <2>1, <2>2, <2>3, <2>4 DEF DownAt
<1>5. CASE ReadFails \/ ReadKeySize \/ ReadKey \/ RouteErased \/ SweepCloses
  <2>1. UNCHANGED <<at, packets>> /\ (routed' => routed)
    BY <1>5 DEF ReadFails, ReadKeySize, ReadKey, RouteErased, SweepCloses, ServerEnds, Refuse
  <2>2. SameSide(spc, spc') /\ (Close \/ UNCHANGED <<closed, down>>)
    BY <1>5 DEF ReadFails, ReadKeySize, ReadKey, RouteErased, SweepCloses, ServerEnds, Refuse,
       SameSide
  <2> QED  BY <1>3, <1>4, <2>1, <2>2
<1>6. CASE ReadLoginSize \/ ReadLogin \/ ReadFrameSize \/ ReadFrame
  <2>1. at'.sEnc = at.sEnc /\ packets'.toClient = ps
    BY <1>6 DEF ReadLoginSize, ReadLogin, ReadFrameSize, ReadFrame, Types, Positions, Histories
  <2>3. routed' => routed
    BY <1>6 DEF ReadLoginSize, ReadLogin, ReadFrameSize, ReadFrame, Refuse
  <2>2. SameSide(spc, spc') /\ (Close \/ UNCHANGED <<closed, down>>)
    BY <1>6 DEF ReadLoginSize, ReadLogin, ReadFrameSize, ReadFrame, Refuse, SameSide
  <2> QED  BY <1>3, <1>4, <2>1, <2>2, <2>3
<1>7. CASE SendIp
  <2>1. CASE Refuse /\ UNCHANGED at
    <3>1. SameSide(spc, spc') /\ Close /\ UNCHANGED <<packets, routed>>
      BY <1>7, <2>1 DEF SendIp, Refuse, SameSide
    <3> QED  BY <1>3, <1>4, <2>1, <3>1
  <2>2. CASE ~(Refuse /\ UNCHANGED at)
    <3>1. /\ ~closed /\ spc = "sendip" /\ spc' = "frame" /\ UNCHANGED <<closed, packets>>
          /\ down' = down \o Encrypted(<<IpLen, 1>>, at.sEnc)
          /\ at'.sEnc = at.sEnc + 2
      BY <1>7, <2>2 DEF SendIp, Types, Positions
    <3>2. /\ at.sEnc = Iv2 /\ at.cDec = Iv2 /\ ps = <<>> /\ cpc # "ip" /\ C[0] = Iv2 + 2
          /\ Underway(down', at.cDec, at.sEnc + 2, FALSE, C, ps)
      BY <3>1, DownAddress
    <3>3. DownReader(C)'  BY <1>1, <1>2, <3>1, <3>2, DownReaderSame
    <3>4. DownWriter(C)'
      <4>1. Lengths(packets.toClient)'  BY <1>1, <3>1 DEF DownWriter, Lengths
      <4>2. at'.sEnc = C[Len(packets'.toClient)]  BY <3>1, <3>2
      <4> QED  BY <3>1, <4>1, <4>2 DEF DownWriter, LoggingIn
    <3>5. DownStream(C)'
      BY <1>2, <3>1, <3>2 DEF DownStream, Underway
    <3>6. Bounds(C, packets.toClient, Iv2 + 2)'  BY <1>1, <3>1, DownBoundsSame
    <3> QED  BY <3>3, <3>4, <3>5, <3>6 DEF DownAt
  <2> QED  BY <2>1, <2>2
<1>8. CASE RegisterFails
  <2> DEFINE a == Encrypted(<<IpLen, 1>>, at.sEnc)
  <2>1. /\ ~closed /\ spc = "sendip" /\ spc' = "end" /\ closed' = TRUE /\ UNCHANGED packets
        /\ down' = down \o a \o ErrorFrame
        /\ at'.sEnc = at.sEnc + 2
    BY <1>8 DEF RegisterFails, Types, Positions
  <2>2. /\ at.sEnc = Iv2 /\ at.cDec = Iv2 /\ ps = <<>> /\ cpc # "ip" /\ C[0] = Iv2 + 2
        /\ Underway(down \o a, at.cDec, at.sEnc + 2, FALSE, C, ps)
    BY <2>1, DownAddress
  <2>3. DownReader(C)'  BY <1>1, <1>2, <2>1, <2>2, DownReaderSame
  <2>4. DownWriter(C)'
    <3>1. Lengths(packets.toClient)'  BY <1>1, <2>1 DEF DownWriter, Lengths
    <3>2. at'.sEnc = C[Len(packets'.toClient)]  BY <2>1, <2>2
    <3> QED  BY <2>1, <3>1, <3>2 DEF DownWriter, LoggingIn, Serving
  <2>5. DownStream(C)'
    <3>1. down \o a \in Seq(Units) /\ at.cDec \in Nat /\ at.sEnc + 2 \in Nat
      <4>1. at.cDec \in Nat /\ at.sEnc \in Nat  BY Parts
      <4>2. a \in Seq(Units)  BY <4>1, AddressUnits
      <4>3. down \in Seq(Units)  BY DEF Types
      <4> HIDE DEF a
      <4> QED  BY <4>1, <4>2, <4>3, Sent
    <3>2. Underway(down \o a \o ErrorFrame, at.cDec, at.sEnc + 2, TRUE, C, ps)
      <4> DEFINE w == down \o a
                 e == at.sEnc + 2
      <4>1. w \in Seq(Units) /\ e \in Nat /\ Underway(w, at.cDec, e, FALSE, C, ps)
        BY <2>2, <3>1
      <4> HIDE DEF w, e
      <4>2. Underway(w \o ErrorFrame, at.cDec, e, TRUE, C, ps)  BY <3>1, <4>1, UnderwayClosed
      <4> QED  BY <4>2 DEF w, e
    <3> HIDE DEF a
    <3> QED  BY <1>2, <2>1, <3>2 DEF DownStream, Underway
  <2>6. Bounds(C, packets.toClient, Iv2 + 2)'  BY <1>1, <2>1, DownBoundsSame
  <2> QED  BY <2>3, <2>4, <2>5, <2>6 DEF DownAt
<1>9. CASE RouterSends
  <2>1. PICK p \in PacketsNo(n + 1) :
          /\ down' = down \o Encrypted(Frame(p), at.sEnc)
          /\ at' = [at EXCEPT !.sEnc = @ + 1 + Len(p)]
          /\ packets' = [packets EXCEPT !.toClient = Append(@, p)]
    BY <1>9 DEF RouterSends
  <2>2. /\ ~closed /\ routed /\ UNCHANGED <<spc, closed>>
        /\ spc \in {"frame", "body", "end"}
    BY <1>9 DEF RouterSends, serverVars, RunInv
  <2>3. /\ p \in Seq(Nat) /\ Len(p) \in 1 .. MaxPacket
    <3>1. n + 1 \in Nat  BY Parts
    <3>2. PICK j \in 1 .. MaxPacket : p = [i \in 1 .. j |-> n + 1]  BY DEF PacketsNo
    <3>3. Len(p) = j  BY <3>2, ClientAssumption
    <3> QED  BY <3>1, <3>3, PacketUnits
  <2>4. PICK E : E = Grown(C, ps, p)  OBVIOUS
  <2> DEFINE e == E[n + 1]
             qs == Append(ps, p)
  <2>5. at'.sEnc = at.sEnc + 1 + Len(p) /\ packets'.toClient = qs
    BY <2>1 DEF Types, Positions, Histories
  <2>6. at.sEnc = C[n]  BY <1>1, <2>2 DEF DownWriter
  <2>7. /\ ps \in Seq(Seq(Nat)) /\ n \in Nat /\ at.cDec \in Nat /\ at.sEnc \in Nat
        /\ down \in Seq(Units) /\ packets.received \in Seq(Seq(Int)) /\ Iv2 + 2 \in Nat
    BY Parts DEF Types, Histories, Iv2
  <2>8. Bounds(E, qs, Iv2 + 2) /\ e = at.sEnc + 1 + Len(p)
    <3> HIDE DEF ps
    <3>1. /\ Bounds(Grown(C, ps, p), Append(ps, p), Iv2 + 2)
          /\ Grown(C, ps, p)[Len(ps) + 1] = C[Len(ps)] + 1 + Len(p)
      BY <1>1, <2>3, <2>7, BoundsGrow
    <3> QED  BY <2>4, <2>6, <3>1
  <2>9. Len(qs) = n + 1  BY <2>3, <2>7, Appended
  <2>10. at'.sEnc = E[Len(packets'.toClient)]  BY <2>5, <2>8, <2>9
  <2>11. Bounds(E, packets.toClient, Iv2 + 2)'  BY <2>5, <2>8
  <2>12. DownWriter(E)'
    <3>1. Lengths(packets.toClient)'
      BY <1>1, <2>3, <2>5, <2>7, LengthsGrow DEF DownWriter, Lengths
    <3> QED  BY <2>2, <2>10, <3>1 DEF DownWriter, LoggingIn, Serving
  <2>13. DownStream(E)'
    <3>1. Underway(down, at.cDec, C[Len(ps)], FALSE, C, ps)
      BY <1>1, <2>2, <2>6 DEF DownStream, Underway
    <3>2. Underway(down \o Encrypted(Frame(p), C[Len(ps)]), at.cDec,
                   Grown(C, ps, p)[Len(ps) + 1], FALSE, Grown(C, ps, p), Append(ps, p))
      <4> HIDE DEF ps
      <4> QED  BY <1>1, <2>3, <2>7, <3>1, UnderwayFrame DEF n
    <3>3. Underway(down', at.cDec, e, FALSE, E, qs)  BY <2>1, <2>4, <2>6, <3>2
    <3>4. at'.sEnc = e  BY <2>5, <2>8
    <3> HIDE DEF e, qs
    <3> QED  BY <1>2, <2>2, <2>5, <3>3, <3>4 DEF DownStream, Underway
  <2>14. DownReader(E)'
    <3>1. Begins(packets.received, qs) /\ Len(packets.received) <= n
      BY <1>1, <2>3, <2>7, BeginsGrow DEF DownReader, Begins
    <3>2. Begins(packets.received, packets.toClient)'  BY <1>2, <2>5, <3>1
    <3>3. ASSUME Alive /\ sockReader \in {"size", "body", "write"}
          PROVE  ReaderAt(at.cDec, sockReader = "body", need, packets.received, E, qs)
      <4>1. ReaderAt(at.cDec, sockReader = "body", need, packets.received, C, ps)
        BY <1>1, <3>3 DEF DownReader
      <4>2. (sockReader = "body") \in BOOLEAN  OBVIOUS
      <4> QED  BY <1>1, <2>3, <2>4, <2>7, <3>1, <4>1, <4>2, ReaderGrow
    <3>4. cpc' = "ip" => at'.sEnc > at'.cDec
      <4>1. cpc = "ip" => at.sEnc > at.cDec  BY <1>1 DEF DownReader
      <4>2. Len(p) \in Nat  BY <2>3, LenProperties
      <4> QED  BY <1>2, <2>5, <2>7, <4>1, <4>2
    <3> QED
      BY <1>1, <1>2, <2>5, <3>2, <3>3, <3>4 DEF DownReader, Alive
  <2> QED  BY <2>11, <2>12, <2>13, <2>14 DEF DownAt
<1> QED  BY <1>5, <1>6, <1>7, <1>8, <1>9 DEF ServerStep

\* What the parts of DownAt are made of.
LEMMA DownTypes ==
    ASSUME Types, NEW C, DownAt(C)
    PROVE  LET n == Len(packets.toClient)
               m == Len(packets.received)
           IN  /\ packets.toClient \in Seq(Seq(Nat)) /\ packets.received \in Seq(Seq(Int))
               /\ n \in Nat /\ m \in Nat /\ m <= n
               /\ Bounds(C, packets.toClient, Iv2 + 2) /\ Iv2 + 2 \in Nat /\ Iv2 \in Nat
               /\ C[n] \in Nat /\ C[m] \in Nat /\ Iv2 + 2 <= C[m]
               /\ at.cDec \in Nat /\ at.sEnc \in Nat /\ at.cDec <= at.sEnc
               /\ need \in Nat /\ down \in Seq(Units)
               /\ at.sEnc > Iv2 => at.sEnc = C[n] /\ at.sEnc > Iv2 + 1
<1> DEFINE ps == packets.toClient
           n == Len(ps)
           m == Len(packets.received)
           w == Iv2
<1>1. ps \in Seq(Seq(Nat)) /\ packets.received \in Seq(Seq(Int))
  BY DEF Types, Histories
<1>2. n \in Nat /\ m \in Nat /\ m <= n
  <2>1. m <= n  BY DEF DownAt, DownReader, Begins
  <2> QED  BY <1>1, <2>1, LenProperties
<1>3. Bounds(C, ps, w + 2) /\ w + 2 \in Nat /\ w \in Nat  BY DEF DownAt, Iv2
<1>4. at.cDec \in Nat /\ at.sEnc \in Nat /\ need \in Nat /\ down \in Seq(Units)
  BY Parts DEF Types
<1>5. at.cDec <= at.sEnc  BY DEF DownAt, DownStream, Underway, Carried
<1>6. (at.sEnc = w /\ ps = <<>>) \/ at.sEnc = C[n]  BY DEF DownAt, DownWriter
<1> HIDE DEF ps, w, n, m
<1>7. \A k \in 0 .. n : C[k] \in Nat /\ w + 2 <= C[k]  BY <1>1, <1>3, BoundsTypes DEF n
<1>8. m \in 0 .. n /\ n \in 0 .. n  BY <1>2
<1>9. C[m] \in Nat /\ C[n] \in Nat /\ w + 2 <= C[m] /\ w + 2 <= C[n]  BY <1>7, <1>8
<1>10. at.sEnc > w => at.sEnc = C[n] /\ at.sEnc > w + 1
  <2> DEFINE c == C[n]
  <2>1. c \in Nat /\ w + 2 <= c /\ (at.sEnc = w \/ at.sEnc = c)  BY <1>6, <1>9
  <2> HIDE DEF c
  <2>2. at.sEnc > w => at.sEnc = c /\ at.sEnc > w + 1  BY <1>3, <1>4, <2>1
  <2> QED  BY <2>2 DEF c
<1> QED  BY <1>1, <1>2, <1>3, <1>4, <1>5, <1>9, <1>10 DEF ps, n, m, w

\* The client does not read.
LEMMA DownReaderQuiet ==
    ASSUME RunInv, NEW C, DownReader(C),
           UNCHANGED <<packets.received, packets.toClient, at.cDec, at.sEnc>>,
           Alive' => Alive,
           cpc' = cpc \/ (cpc \notin {"ip", "run"} /\ cpc' \notin {"ip", "run"}),
           \/ UNCHANGED <<sockReader, need>>
           \/ /\ sockReader # "off" /\ cpc' = cpc
              /\ ~Alive' \/ (sockReader = "write" /\ sockReader' = "size")
    PROVE  DownReader(C)'
<1>1. Begins(packets.received, packets.toClient)'  BY DEF DownReader, Begins
<1>2. cpc' # "run" => packets'.received = <<>> /\ sockReader' = "off"
  BY DEF DownReader, RunInv
<1>3. ASSUME Alive', sockReader' \in {"size", "body", "write"}
      PROVE  ReaderAt(at.cDec, sockReader = "body", need, packets.received, C,
                      packets.toClient)'
  <2>1. CASE UNCHANGED <<sockReader, need>>
    BY <1>3, <2>1 DEF DownReader, ReaderAt
  <2>2. CASE sockReader = "write" /\ sockReader' = "size"
    BY <1>3, <2>2 DEF DownReader, ReaderAt
  <2> QED  BY <1>3, <2>1, <2>2
<1> QED  BY <1>1, <1>2, <1>3 DEF DownReader

\* The client reads k units.
LEMMA DownReads ==
    ASSUME Types, NEW C, DownAt(C), Iv2 <= at.cDec, NEW k \in Nat, 1 <= k,
           k <= at.sEnc - at.cDec, down' = After(down, k), at'.cDec = at.cDec + k,
           UNCHANGED <<closed, packets.toClient, at.sEnc>>
    PROVE  DownStream(C)'
<1>1. Underway(down, at.cDec, at.sEnc, closed, C, packets.toClient)  BY DEF DownAt, DownStream
<1>2. /\ down \in Seq(Units) /\ at.cDec \in Nat /\ at.sEnc \in Nat  BY DownTypes
<1>3. Underway(After(down, k), at.cDec + k, at.sEnc, closed, C, packets.toClient)
  BY <1>1, <1>2, UnderwayRead
<1> QED  BY <1>3 DEF DownStream

\* A client that reads a unit, and not the mark.
LEMMA DownReadsSize ==
    ASSUME Types, NEW C, DownAt(C), Iv2 <= at.cDec, NEW v, ReadBlockSize(v), ~stale',
           UNCHANGED <<closed, packets.toClient>>
    PROVE  /\ down # <<>> /\ at.cDec < at.sEnc /\ at'.cDec = at.cDec + 1 /\ at'.sEnc = at.sEnc
           /\ v \in Sizes(Head(down), at.cDec) /\ Sizes(Head(down), at.cDec) = {down[1].v}
           /\ DownStream(C)'
<1>1. Underway(down, at.cDec, at.sEnc, closed, C, packets.toClient)  BY DEF DownAt, DownStream
<1>2. /\ down \in Seq(Units) /\ at.cDec \in Nat /\ at.sEnc \in Nat  BY DownTypes
<1>3. /\ down # <<>> /\ down' = Tail(down) /\ v \in Sizes(Head(down), at.cDec)
      /\ Head(down) # Clear(Mark)
  <2>1. MayBeMark(Clear(Mark)) = {TRUE}  BY DEF MayBeMark, Clear
  <2>2. PICK isMark \in MayBeMark(Head(down)) : stale' = (stale \/ isMark)
    BY DEF ReadBlockSize
  <2>3. ASSUME Head(down) = Clear(Mark)  PROVE FALSE
    <3>1. isMark = TRUE  BY <2>1, <2>2, <2>3
    <3>2. stale'  BY <2>2, <3>1
    <3> QED  BY <3>2
  <2> QED  BY <2>3 DEF ReadBlockSize
<1>4. at'.cDec = at.cDec + 1 /\ at'.sEnc = at.sEnc
  BY DEF ReadBlockSize, Types, Positions
<1>5. /\ at.cDec < at.sEnc /\ Head(down) = down[1] /\ down[1].pos = at.cDec
      /\ Tail(down) = After(down, 1)
  BY <1>1, <1>2, <1>3, UnderwaySome
<1>6. Sizes(Head(down), at.cDec) = {down[1].v}  BY <1>5 DEF Sizes
<1>7. 1 <= at.sEnc - at.cDec /\ 1 \in Nat  BY <1>2, <1>5
<1>8. DownStream(C)'  BY <1>3, <1>4, <1>5, <1>7, DownReads
<1> QED  BY <1>3, <1>4, <1>5, <1>6, <1>8

\* The steps of the client keep DownInv.
LEMMA DownClient ==
    ASSUME Types, RunInv, NEW C, DownAt(C), ~stale', ClientStep
    PROVE  DownAt(C)'
<1> DEFINE ps == packets.toClient
           n == Len(ps)
           m == Len(packets.received)
<1>1. Bounds(C, ps, Iv2 + 2) /\ DownWriter(C) /\ DownStream(C) /\ DownReader(C)
  BY DEF DownAt
<1>2. UNCHANGED <<spc, routed, closed>> /\ packets'.toClient = ps /\ at'.sEnc = at.sEnc
  <2>1. UNCHANGED <<spc, routed, closed>>
    BY DEF ClientStep, StartAsync, SendKey, CheckEarlyAnswer, ReadEarlyAnswer, SendLogin,
       ReadIpSize, ReadIp, PeekCallback, ReadsUndefined, TunRead, TunSend, SockReadSize,
       SockReadBody, SockWrite, SignalsDestroyed, Dies, ClientOnly, serverVars
  <2>2. packets'.toClient = ps
    BY DEF ClientStep, StartAsync, SendKey, CheckEarlyAnswer, ReadEarlyAnswer, SendLogin,
       ReadIpSize, ReadIp, PeekCallback, ReadsUndefined, TunRead, TunSend, SockReadSize,
       SockReadBody, SockWrite, SignalsDestroyed, Dies, Types, Histories
  <2>3. at'.sEnc = at.sEnc
    BY DEF ClientStep, StartAsync, SendKey, CheckEarlyAnswer, ReadEarlyAnswer, SendLogin,
       ReadIpSize, ReadIp, PeekCallback, ReadsUndefined, TunRead, TunSend, SockReadSize,
       SockReadBody, SockWrite, SignalsDestroyed, Dies, ReadBlockSize, Types,
       Positions
  <2> QED  BY <2>1, <2>2, <2>3
<1>3. ASSUME DownReader(C)', DownStream(C)'  PROVE DownAt(C)'
  <2>1. DownWriter(C)'  BY <1>1, <1>2, DownWriterSame DEF SameSide
  <2>2. Bounds(C, packets.toClient, Iv2 + 2)'  BY <1>1, <1>2, DownBoundsSame
  <2> QED  BY <1>3, <2>1, <2>2 DEF DownAt
<1>4. ASSUME UNCHANGED <<down, packets.received, at.cDec>>,
             Alive' => Alive,
             cpc' = cpc \/ (cpc \notin {"ip", "run"} /\ cpc' \notin {"ip", "run"}),
             \/ UNCHANGED <<sockReader, need>>
             \/ /\ sockReader # "off" /\ cpc' = cpc
                /\ ~Alive' \/ (sockReader = "write" /\ sockReader' = "size")
      PROVE  DownAt(C)'
  <2>1. DownReader(C)'  BY <1>1, <1>2, <1>4, DownReaderQuiet
  <2>2. DownStream(C)'  BY <1>1, <1>2, <1>4 DEF DownStream
  <2> QED  BY <1>3, <2>1, <2>2
<1>5. CASE Dies \/ ReadEarlyAnswer \/ PeekCallback \/ ReadsUndefined \/ SignalsDestroyed
  <2>1. UNCHANGED <<clientVars, runVars, down, at, packets>> /\ ~Alive'
    BY <1>5 DEF Dies, ReadEarlyAnswer, PeekCallback, ReadsUndefined, SignalsDestroyed, Alive
  <2>2. UNCHANGED <<cpc, sockReader, need>>  BY <2>1 DEF clientVars, runVars
  <2> QED  BY <1>4, <2>1, <2>2
<1>6. CASE (SendKey \/ CheckEarlyAnswer \/ SendLogin) /\ ~Dies
  <2>1. /\ UNCHANGED <<runVars, down, packets>> /\ at'.cDec = at.cDec /\ (Alive' => Alive)
        /\ cpc \notin {"ip", "run"} /\ cpc' \notin {"ip", "run"}
    BY <1>6 DEF SendKey, CheckEarlyAnswer, SendLogin, Alive, Types, Positions
  <2>2. UNCHANGED <<sockReader, need>>  BY <2>1 DEF runVars
  <2> QED  BY <1>4, <2>1, <2>2
<1>7. CASE (TunRead \/ TunSend) /\ ~Dies
  <2>1. /\ UNCHANGED <<cpc, sockReader, need, down>> /\ (Alive' => Alive)
    BY <1>7 DEF TunRead, TunSend, Alive, clientVars
  <2>2. at'.cDec = at.cDec /\ packets'.received = packets.received
    BY <1>7 DEF TunRead, TunSend, Types, Positions, Histories
  <2> QED  BY <1>4, <2>1, <2>2
<1>8. CASE SockWrite
  <2>1. /\ UNCHANGED <<clientVars, down, at, packets>> /\ (Alive' => Alive)
        /\ sockReader = "write" /\ sockReader' = "size"
    BY <1>8 DEF SockWrite, Alive
  <2> QED  BY <1>4, <2>1 DEF clientVars
<1>9. CASE ReadIpSize /\ ~Dies
  <2>1. PICK v \in Values :
          /\ ReadBlockSize(v)
          /\ IF v = IpLen THEN cpc' = "ip" /\ UNCHANGED fate
             ELSE fate' = "aborted" /\ UNCHANGED cpc
    BY <1>9 DEF ReadIpSize
  <2>2. cpc = "ipsize" /\ UNCHANGED <<runVars, packets>>  BY <1>9 DEF ReadIpSize
  <2>3. /\ at.cDec = Iv2 /\ packets.received = <<>> /\ sockReader = "off"
    BY <1>1, <2>2 DEF DownReader
  <2>4. /\ at.cDec \in Nat /\ at.sEnc \in Nat /\ Iv2 \in Nat
        /\ (at.sEnc > Iv2 => at.sEnc > Iv2 + 1)
    BY DownTypes
  <2>5. Iv2 <= at.cDec  BY <2>3, <2>4
  <2>6. /\ at.cDec < at.sEnc /\ at'.cDec = at.cDec + 1
        /\ v \in Sizes(Head(down), at.cDec) /\ Sizes(Head(down), at.cDec) = {down[1].v}
        /\ DownStream(C)'
    BY <1>2, <2>1, <2>5, DownReadsSize
  <2>7. down[1].v = IpLen
    <3>1. at.sEnc > Iv2  BY <2>3, <2>4, <2>6
    <3> QED  BY <1>1, <2>3, <3>1 DEF DownStream, Underway
  <2>8. cpc' = "ip"  BY <2>1, <2>6, <2>7
  <2>9. at'.cDec = Iv2 + 1 /\ at'.sEnc > at'.cDec
    <3> DEFINE w == Iv2
    <3>1. at.cDec = w /\ at.sEnc > w /\ w \in Nat /\ at.sEnc > w + 1 /\ at'.cDec = w + 1
      BY <2>3, <2>4, <2>6
    <3> HIDE DEF w
    <3>2. at'.cDec = w + 1 /\ at'.sEnc > at'.cDec  BY <1>2, <3>1
    <3> QED  BY <3>2 DEF w
  <2>10. DownReader(C)'
    <3>1. Begins(packets.received, packets.toClient)'  BY <1>1, <2>2 DEF DownReader, Begins
    <3> QED  BY <2>2, <2>3, <2>8, <2>9, <3>1 DEF DownReader, runVars
  <2> QED  BY <1>3, <2>6, <2>10
<1>10. CASE ReadIp /\ ~Dies
  <2>1. /\ cpc = "ip" /\ cpc' = "run" /\ sockReader' = "size" /\ UNCHANGED <<packets, need>>
        /\ down' = After(down, IpLen) /\ at'.cDec = at.cDec + IpLen
    BY <1>10 DEF ReadIp, SetupTun, Types, Positions
  <2>2. at.cDec = Iv2 + 1 /\ at.sEnc > at.cDec /\ packets.received = <<>>
    BY <1>1, <2>1 DEF DownReader
  <2>3. at.cDec \in Nat /\ at.sEnc \in Nat /\ Iv2 \in Nat  BY DownTypes
  <2> DEFINE w == Iv2
  <2>4. w <= at.cDec /\ 1 <= at.sEnc - at.cDec /\ at'.cDec = w + 2
    <3>1. at.cDec = w + 1 /\ w \in Nat /\ at'.cDec = at.cDec + 1  BY <2>1, <2>2, <2>3 DEF IpLen
    <3> HIDE DEF w
    <3> QED  BY <2>2, <2>3, <3>1
  <2>5. DownStream(C)'
    <3>1. IpLen \in Nat /\ 1 <= IpLen /\ IpLen <= at.sEnc - at.cDec  BY <2>4 DEF IpLen
    <3> QED  BY <1>2, <2>1, <2>4, <3>1, DownReads
  <2>6. C[0] = w + 2  BY <1>1 DEF Bounds
  <2>7. DownReader(C)'
    <3>1. Begins(packets.received, packets.toClient)'  BY <1>1, <2>1 DEF DownReader, Begins
    <3>2. ReaderAt(at.cDec, sockReader = "body", need, packets.received, C, packets.toClient)'
      BY <2>1, <2>2, <2>4, <2>6, EmptySeq DEF ReaderAt
    <3> QED  BY <2>1, <3>1, <3>2 DEF DownReader
  <2> QED  BY <1>3, <2>5, <2>7
<1>11. ASSUME Alive, sockReader \in {"size", "body"}
       PROVE  /\ ReaderAt(at.cDec, sockReader = "body", need, packets.received, C, ps)
              /\ Iv2 <= at.cDec /\ at.sEnc = C[n] /\ cpc = "run"
  <2>1. ReaderAt(at.cDec, sockReader = "body", need, packets.received, C, ps)
    BY <1>1, <1>11 DEF DownReader
  <2> DEFINE w == Iv2
             c == C[m]
  <2>2. /\ c \in Nat /\ w \in Nat /\ w + 2 <= c /\ at.cDec <= at.sEnc
        /\ at.sEnc \in Nat /\ (at.sEnc > w => at.sEnc = C[n])
    BY DownTypes
  <2>3. at.cDec = c \/ at.cDec = c + 1  BY <2>1 DEF ReaderAt
  <2>4. cpc = "run"  BY <1>11 DEF RunInv
  <2> HIDE DEF w, c
  <2>5. w <= at.cDec /\ at.sEnc > w  BY <2>2, <2>3
  <2> QED  BY <2>1, <2>2, <2>4, <2>5 DEF w
<1>12. ASSUME m < n  PROVE Len(ps[m + 1]) \in 1 .. MaxPacket
  <2>1. m + 1 \in 1 .. n
    <3>1. m \in Nat /\ n \in Nat  BY DownTypes
    <3> QED  BY <1>12, <3>1
  <2> QED  BY <1>1, <2>1 DEF DownWriter, Lengths
<1>13. CASE SockReadSize /\ ~Dies
  <2>1. PICK v \in Values :
          /\ ReadBlockSize(v)
          /\ need' = v
          /\ \/ fate' = "aborted" /\ UNCHANGED sockReader
             \/ v <= MaxPacket /\ sockReader' = "body" /\ UNCHANGED fate
    BY <1>13 DEF SockReadSize
  <2>2. Alive /\ sockReader = "size" /\ UNCHANGED <<clientVars, packets>>
    BY <1>13 DEF SockReadSize
  <2>3. /\ ReaderAt(at.cDec, sockReader = "body", need, packets.received, C, ps)
        /\ Iv2 <= at.cDec /\ at.sEnc = C[n] /\ cpc = "run"
    BY <1>11, <2>2
  <2>4. /\ at.cDec < at.sEnc /\ at'.cDec = at.cDec + 1 /\ v \in Sizes(Head(down), at.cDec)
        /\ DownStream(C)'
    BY <1>2, <2>1, <2>3, DownReadsSize
  <2>5. at.cDec = C[m]  BY <2>2, <2>3 DEF ReaderAt
  <2>6. /\ m < n /\ Sizes(Head(down), C[m]) = {Len(ps[m + 1])}
    <3>1. /\ ps \in Seq(Seq(Nat)) /\ Iv2 + 2 \in Nat /\ down \in Seq(Units) /\ m \in Nat
          /\ m <= Len(ps)
      BY DownTypes
    <3>2. Carried(down, 0, C[m], C[Len(ps)], C, ps) /\ C[m] < C[Len(ps)]
      BY <1>1, <2>3, <2>4, <2>5 DEF DownStream, Underway
    <3> HIDE DEF ps, m
    <3> QED  BY <1>1, <3>1, <3>2, SizeCarried DEF n
  <2>7. v = Len(ps[m + 1])  BY <2>4, <2>5, <2>6
  <2>8. DownReader(C)'
    <3>1. Begins(packets.received, packets.toClient)'  BY <1>1, <2>2 DEF DownReader, Begins
    <3>2. Alive' => sockReader' = "body"  BY <2>1 DEF Alive
    <3>3. ASSUME sockReader' = "body"
          PROVE  ReaderAt(at.cDec, sockReader = "body", need, packets.received, C,
                          packets.toClient)'
      BY <2>1, <2>2, <2>4, <2>5, <2>6, <2>7, <3>3 DEF ReaderAt
    <3> QED  BY <2>2, <2>3, <3>1, <3>2, <3>3 DEF DownReader, clientVars
  <2> QED  BY <1>3, <2>4, <2>8
<1>14. CASE SockReadBody
  <2>1. Alive /\ sockReader = "body" /\ need' = 0 /\ UNCHANGED clientVars
    BY <1>14 DEF SockReadBody
  <2>2. CASE UNCHANGED <<down, at, packets>> /\ ~Alive'
    BY <1>4, <2>1, <2>2 DEF clientVars
  <2>3. CASE ~(UNCHANGED <<down, at, packets>> /\ ~Alive')
    <3> DEFINE x == Content(First(down, need), at.cDec)
    <3>1. /\ down' = After(down, Amount(need)) /\ at'.cDec = at.cDec + need
          /\ packets'.received = Append(packets.received, x) /\ sockReader' = "write"
      BY <1>14, <2>3 DEF SockReadBody, Alive, Types, Positions, Histories
    <3>2. /\ ReaderAt(at.cDec, sockReader = "body", need, packets.received, C, ps)
          /\ Iv2 <= at.cDec /\ at.sEnc = C[n] /\ cpc = "run"
      BY <1>11, <2>1
    <3>3. m < n /\ need = Len(ps[m + 1]) /\ at.cDec = C[m] + 1
      BY <2>1, <3>2 DEF ReaderAt
    <3>4. /\ ps \in Seq(Seq(Nat)) /\ Iv2 + 2 \in Nat /\ down \in Seq(Units) /\ m \in Nat
          /\ packets.received \in Seq(Seq(Int))
      BY DownTypes
    <3>5. need \in 1 .. MaxPacket /\ Amount(need) = need  BY <1>12, <3>3 DEF Amount
    <3>6. /\ x = ps[m + 1] /\ at.cDec + need = C[m + 1] /\ need \in Nat
          /\ need <= at.sEnc - at.cDec
      <4>1. Carried(down, 0, C[m] + 1, C[Len(ps)], C, ps)
        BY <1>1, <3>2, <3>3 DEF DownStream, Underway
      <4> HIDE DEF m, ps
      <4>2. LET l == Len(ps[m + 1]) IN
            /\ Content(First(down, l), C[m] + 1) = ps[m + 1]
            /\ C[m] + 1 + l = C[m + 1] /\ l <= C[Len(ps)] - (C[m] + 1)
            /\ l \in Nat /\ l <= Len(down)
        BY <1>1, <3>3, <3>4, <4>1, BodyCarried DEF n
      <4> QED  BY <3>2, <3>3, <4>2 DEF n
    <3>7. DownStream(C)'
      <4>1. 1 <= need /\ down' = After(down, need)  BY <3>1, <3>5
      <4> QED  BY <1>2, <3>1, <3>2, <3>6, <4>1, DownReads
    <3>8. ps[m + 1] \in Seq(Int)
      <4>1. m + 1 \in 1 .. Len(ps)
        <5>1. n \in Nat  BY DownTypes
        <5> QED  BY <3>3, <3>4, <5>1
      <4> HIDE DEF m, ps
      <4>2. ps[m + 1] \in Seq(Nat)  BY <3>4, <4>1, ElementOfSeq
      <4>3. \A i \in 1 .. Len(ps[m + 1]) : ps[m + 1][i] \in Nat  BY <4>2, ElementOfSeq
      <4>4. Len(ps[m + 1]) \in Nat  BY <4>2, LenProperties
      <4> QED  BY <4>2, <4>3, <4>4
    <3> HIDE DEF x
    <3>9. Begins(packets.received', ps)
      <4>1. Begins(packets.received, ps)  BY <1>1 DEF DownReader
      <4> QED  BY <3>1, <3>3, <3>4, <3>6, <3>8, <4>1, BeginsGrow
    <3>10. Len(packets'.received) = m + 1  BY <3>1, <3>4, <3>6, <3>8, Appended
    <3>11. ReaderAt(at.cDec, sockReader = "body", need, packets.received, C,
                    packets.toClient)'
      BY <1>2, <3>1, <3>6, <3>10 DEF ReaderAt
    <3>12. DownReader(C)'
      BY <1>2, <2>1, <3>1, <3>2, <3>9, <3>11 DEF DownReader, clientVars
    <3> QED  BY <1>3, <3>7, <3>12
  <2> QED  BY <2>2, <2>3
<1> QED
  BY <1>5, <1>6, <1>7, <1>8, <1>9, <1>10, <1>13, <1>14 DEF ClientStep, StartAsync

-----------------------------------------------------------------------------
(* Both streams.                                                             *)

SyncInv == Inv /\ UpInv /\ DownInv

\* A stream without a packet.
LEMMA BoundsStart ==
    ASSUME NEW start \in Nat
    PROVE  Bounds([k \in 0 .. 0 |-> start], <<>>, start) /\ Lengths(<<>>)
<1> DEFINE B == [k \in 0 .. 0 |-> start]
<1>1. Len(<<>>) = 0  BY EmptySeq
<1>2. B \in [0 .. 0 -> Nat] /\ B[0] = start /\ \A k \in 0 .. 0 : B[k] = start
  <2>1. 0 \in 0 .. 0 /\ \A k \in 0 .. 0 : k = 0  OBVIOUS
  <2> QED  BY <2>1
<1> HIDE DEF B
<1>3. 1 .. 0 = {}  OBVIOUS
<1>4. \A k \in 0 .. 0 : start <= B[k] /\ B[k] <= B[0]  BY <1>2
<1>5. Bounds(B, <<>>, start)  BY <1>1, <1>2, <1>3, <1>4 DEF Bounds
<1> QED  BY <1>1, <1>3, <1>5 DEF Lengths, B

LEMMA InitSync == ASSUME Init PROVE SyncInv
<1>1. Inv  BY InitInv
<1>2. UpInv
  <2> SUFFICES ASSUME Conforming  PROVE \E B : UpAt(B)
    BY DEF UpInv
  <2>1. 1 + Len(client.login) \in Nat  BY <1>1, ClientFields DEF Inv, Types
  <2>2. PICK B : B = [k \in 0 .. 0 |-> 1 + Len(client.login)]  OBVIOUS
  <2>3. /\ packets.toServer = <<>> /\ packets.served = <<>> /\ tunReader = "off" /\ logins = 1
        /\ cpc = "key" /\ spc = "key"
    BY DEF Init, Conforming
  <2>4. Bounds(B, packets.toServer, 1 + Len(client.login)) /\ Lengths(packets.toServer)
    BY <2>1, <2>2, <2>3, BoundsStart
  <2>5. UpWriter(B)  BY <2>3, <2>4 DEF UpWriter
  <2>6. UpReader(B)
    <3>1. Len(<<>>) = 0 /\ 1 .. 0 = {} /\ 0 <= 0  BY EmptySeq
    <3>2. Begins(<<>>, <<>>)  BY <3>1 DEF Begins
    <3> QED  BY <2>3, <3>2 DEF UpReader, Serving
  <2>7. UpStream(B)  BY <2>3 DEF UpStream, Tracked, LoggingIn, Serving
  <2> QED  BY <2>4, <2>5, <2>6, <2>7 DEF UpAt
<1>3. DownInv
  <2>1. PICK C : C = [k \in 0 .. 0 |-> Iv2 + 2]  OBVIOUS
  <2>2. /\ packets.toClient = <<>> /\ packets.received = <<>> /\ sockReader = "off"
        /\ down = <<>> /\ cpc = "key" /\ spc = "key" /\ closed = FALSE /\ routed = FALSE
        /\ at.sEnc = Iv2 /\ at.cDec = Iv2
    BY DEF Init, ClientSession, ServerSession, Create
  <2>3. Bounds(C, packets.toClient, Iv2 + 2) /\ Lengths(packets.toClient)
    <3> DEFINE s == Iv2 + 2
    <3>1. s \in Nat  BY DEF Iv2
    <3> HIDE DEF s
    <3>2. Bounds([k \in 0 .. 0 |-> s], <<>>, s) /\ Lengths(<<>>)  BY <3>1, BoundsStart
    <3> QED  BY <2>1, <2>2, <3>2 DEF s
  <2>4. DownWriter(C)  BY <2>2, <2>3 DEF DownWriter, Serving
  <2>5. DownStream(C)
    <3> DEFINE w == Iv2
    <3>1. w \in Nat  BY DEF Iv2
    <3> HIDE DEF w
    <3>2. Len(<<>>) = 0 /\ w - w = 0 /\ 1 .. 0 = {} /\ w <= w /\ ~(w > w)  BY <3>1, EmptySeq
    <3>3. Carried(<<>>, 0, w, w, C, <<>>)  BY <3>2 DEF Carried
    <3>4. Underway(<<>>, w, w, FALSE, C, <<>>)  BY <3>2, <3>3 DEF Underway
    <3> QED  BY <2>2, <3>4 DEF DownStream, w
  <2>6. DownReader(C)
    <3>1. Len(<<>>) = 0 /\ 1 .. 0 = {} /\ 0 <= 0  BY EmptySeq
    <3>2. Begins(<<>>, <<>>)  BY <3>1 DEF Begins
    <3> QED  BY <2>2, <3>2 DEF DownReader
  <2> QED  BY <2>3, <2>4, <2>5, <2>6 DEF DownAt, DownInv
<1> QED  BY <1>1, <1>2, <1>3 DEF SyncInv

LEMMA NextSync == ASSUME SyncInv, [Next]_vars PROVE SyncInv'
<1>1. Inv /\ Inv'  BY NextInv DEF SyncInv
<1>2. Types /\ StreamInv /\ RunInv  BY <1>1 DEF Inv
<1>3. CASE Next
  <2>1. UNCHANGED client /\ (stale => stale')
    <3>1. CASE ClientStep
      <4>1. UNCHANGED client
        BY <3>1 DEF ClientStep, StartAsync, SendKey, CheckEarlyAnswer, ReadEarlyAnswer, SendLogin,
           ReadIpSize, ReadIp, PeekCallback, ReadsUndefined, TunRead, TunSend, SockReadSize,
           SockReadBody, SockWrite, SignalsDestroyed, Dies, ClientOnly, clientVars
      <4>2. stale => stale'
        BY <3>1 DEF ClientStep, StartAsync, SendKey, CheckEarlyAnswer, ReadEarlyAnswer, SendLogin,
           ReadIpSize, ReadIp, PeekCallback, ReadsUndefined, TunRead, TunSend, SockReadSize,
           SockReadBody, SockWrite, SignalsDestroyed, Dies, ReadBlockSize
      <4> QED  BY <4>1, <4>2
    <3>2. CASE ServerStep \/ RouterSends \/ RouteErased \/ SweepCloses
      BY <3>2 DEF ServerStep, ReadFails, ReadKeySize, ReadKey, ReadLoginSize, ReadLogin,
         SendIp, RegisterFails, ReadFrameSize, ReadFrame, RouterSends, RouteErased, SweepCloses,
         ServerOnly, clientVars
    <3> QED  BY <1>3, <3>1, <3>2 DEF Next
  <2>2. UpInv'
    <3> SUFFICES ASSUME Conforming'  PROVE (\E B : UpAt(B))'
      BY DEF UpInv
    <3>1. Conforming  BY <2>1 DEF Conforming
    <3>2. PICK B : UpAt(B)  BY <3>1 DEF SyncInv, UpInv
    <3>3. CASE ClientStep
      <4>1. \E E : UpAt(E)'  BY <1>2, <3>1, <3>2, <3>3, UpClient
      <4> QED  BY <4>1
    <3>4. CASE ServerStep \/ RouterSends \/ RouteErased \/ SweepCloses
      <4>1. UpAt(B)'  BY <1>2, <3>1, <3>2, <3>4, UpServer
      <4> QED  BY <4>1
    <3> QED  BY <1>3, <3>3, <3>4 DEF Next
  <2>3. DownInv'
    <3> SUFFICES ASSUME ~stale'  PROVE (\E C : DownAt(C))'
      BY DEF DownInv
    <3>1. ~stale  BY <2>1
    <3>2. PICK C : DownAt(C)  BY <3>1 DEF SyncInv, DownInv
    <3>3. CASE ClientStep
      <4>1. DownAt(C)'  BY <1>2, <3>2, <3>3, DownClient
      <4> QED  BY <4>1
    <3>4. CASE ServerStep \/ RouterSends \/ RouteErased \/ SweepCloses
      <4>1. \E E : DownAt(E)'  BY <1>2, <3>2, <3>4, DownServer
      <4> QED  BY <4>1
    <3> QED  BY <1>3, <3>3, <3>4 DEF Next
  <2> QED  BY <1>1, <2>2, <2>3 DEF SyncInv
<1>4. CASE UNCHANGED vars
  <2>1. UNCHANGED <<client, cpc, logins, tunReader, sockReader, out, need, stale, fate,
                    spc, sneed, routed, closed, up, down, at, packets>>
    BY <1>4 DEF vars, clientVars, runVars, serverVars
  <2>2. UpInv'
    <3> SUFFICES ASSUME Conforming'  PROVE (\E B : UpAt(B))'
      BY DEF UpInv
    <3>1. Conforming  BY <2>1 DEF Conforming
    <3>2. PICK B : UpAt(B)  BY <3>1 DEF SyncInv, UpInv
    <3>3. UpWriter(B)'  BY <2>1, <3>2 DEF UpAt, UpWriter, Lengths
    <3>4. UpReader(B)'  BY <2>1, <3>2, UpReaderSame DEF UpAt
    <3>5. UpStream(B)'  BY <2>1, <3>2, UpStreamSame DEF UpAt
    <3>6. Bounds(B, packets.toServer, 1 + Len(client.login))'
      BY <2>1, <3>2, UpBoundsSame DEF UpAt
    <3> QED  BY <3>3, <3>4, <3>5, <3>6 DEF UpAt
  <2>3. DownInv'
    <3> SUFFICES ASSUME ~stale'  PROVE (\E C : DownAt(C))'
      BY DEF DownInv
    <3>1. PICK C : DownAt(C)  BY <2>1 DEF SyncInv, DownInv
    <3>2. cpc = "ip" => at'.sEnc > at'.cDec  BY <2>1, <3>1 DEF DownAt, DownReader
    <3>3. DownReader(C)'  BY <2>1, <3>1, <3>2, DownReaderSame DEF DownAt
    <3>4. DownWriter(C)'  BY <2>1, <3>1, DownWriterSame DEF DownAt, SameSide
    <3>5. DownStream(C)'  BY <2>1, <3>1 DEF DownAt, DownStream
    <3>6. Bounds(C, packets.toClient, Iv2 + 2)'  BY <2>1, <3>1, DownBoundsSame DEF DownAt
    <3> QED  BY <3>3, <3>4, <3>5, <3>6 DEF DownAt
  <2> QED  BY <1>1, <2>2, <2>3 DEF SyncInv
<1> QED  BY <1>3, <1>4

\* What begins with packets is what IsPrefix says of it.
LEMMA BeginsIsPrefix ==
    ASSUME NEW hs \in Seq(Seq(Int)), NEW ps \in Seq(Seq(Nat)), Begins(hs, ps)
    PROVE  IsPrefix(hs, ps)
<1> DEFINE m == Len(hs)
           f == SubSeq(hs, 1, m)
           g == SubSeq(ps, 1, m)
<1>1. m \in Nat /\ m <= Len(ps) /\ \A k \in 1 .. m : hs[k] = ps[k]
  BY LenProperties DEF Begins
<1>2. Len(f) = m /\ \A k \in 1 .. m : f[k] = hs[k]
  <2>1. m <= Len(hs)  BY <1>1
  <2>2. Len(First(hs, m)) = m /\ \A k \in 1 .. m : First(hs, m)[k] = hs[k]
    BY <1>1, <2>1, FirstAfter
  <2> QED  BY <2>2 DEF First
<1>3. g \in Seq(Seq(Nat)) /\ Len(g) = m /\ \A k \in 1 .. m : g[k] = ps[k]
  <2>1. First(ps, m) \in Seq(Seq(Nat)) /\ Len(First(ps, m)) = m
        /\ \A k \in 1 .. m : First(ps, m)[k] = ps[k]
    BY <1>1, FirstAfter
  <2> QED  BY <2>1 DEF First
<1>4. f \in Seq(Seq(Int))
  <2>1. m <= Len(hs)  BY <1>1
  <2>2. First(hs, m) \in Seq(Seq(Int))  BY <1>1, <2>1, FirstAfter
  <2> QED  BY <2>2 DEF First
<1> HIDE DEF f, g
<1>5. \A k \in 1 .. m : g[k] = f[k] /\ f[k] \in Seq(Int)
  BY <1>1, <1>2, <1>3, <1>4, ElementOfSeq
<1> HIDE DEF m
<1>6. g \in Seq(Seq(Int))  BY <1>3, <1>5
<1>7. f = g  BY <1>2, <1>3, <1>4, <1>5, <1>6, SeqEqual
<1> QED  BY <1>1, <1>7 DEF IsPrefix, f, g, m

\* What is under way was encrypted where the other end is going to decrypt it:
\* aes.encrypt and aes.decrypt are called for the same bytes in the same order on
\* both ends, also if a packet is encrypted and never sent (a send that fails
\* after aes.encrypt has moved on).
THEOREM StreamsInStep == Spec => []InStep
<1>1. ASSUME SyncInv  PROVE InStep
  <2>1. ASSUME Conforming, Serving \/ spc \in {"login", "name", "sendip"}
        PROVE  \A i \in 1 .. Len(up) : up[i].pos = at.sDec + i - 1
    <3>1. PICK B : UpAt(B)  BY <1>1, <2>1 DEF SyncInv, UpInv
    <3> DEFINE e == UpEnd(B)
               q == at.sDec
               m == Len(up)
    <3>2. Tracked /\ KeyUnits = 0  BY <2>1 DEF Tracked, LoggingIn, KeyUnits, Serving
    <3>3. Carried(up, 0, q, e, B, packets.toServer) /\ m = 0 + (e - q)
      BY <3>1, <3>2 DEF UpAt, UpStream
    <3>4. e \in Nat /\ q \in Nat /\ m \in Nat  BY <1>1, <3>1, UpTypes DEF SyncInv, Inv
    <3> HIDE DEF e, q, m
    <3>5. ASSUME NEW i \in 1 .. m  PROVE up[i].pos = q + i - 1
      <4>1. i \in 1 .. e - q /\ 0 + i = i  BY <3>3, <3>4
      <4>2. Carries(up[0 + i], q + i - 1, B, packets.toServer)  BY <3>3, <4>1 DEF Carried
      <4> QED  BY <4>1, <4>2 DEF Carries
    <3> QED  BY <3>5 DEF m, q
  <2>2. ASSUME ~stale, NEW i \in 1 .. Len(down)
        PROVE  down[i].pos \in {Plain, at.cDec + i - 1}
    <3>1. PICK C : DownAt(C)  BY <1>1, <2>2 DEF SyncInv, DownInv
    <3> DEFINE e == at.sEnc
               q == at.cDec
               m == Len(down)
               x == IF closed THEN 2 ELSE 0
    <3>2. /\ Carried(down, 0, q, e, C, packets.toClient) /\ m = (e - q) + x
          /\ closed => down[(e - q) + 1] = Clear(Mark) /\ down[(e - q) + 2].pos = Plain
      BY <3>1 DEF DownAt, DownStream, Underway
    <3>3. e \in Nat /\ q \in Nat /\ q <= e
      BY <1>1, <3>1, DownTypes DEF SyncInv, Inv
    <3>4. (closed => x = 2) /\ (~closed => x = 0)  OBVIOUS
    <3>5. i \in 1 .. m  BY <2>2
    <3> HIDE DEF e, q, m, x
    <3>6. CASE i <= e - q
      <4>1. i \in 1 .. e - q /\ 0 + i = i  BY <3>3, <3>6
      <4>2. Carries(down[0 + i], q + i - 1, C, packets.toClient)  BY <3>2, <4>1 DEF Carried
      <4> QED  BY <4>1, <4>2 DEF Carries, q
    <3>7. CASE ~(i <= e - q)
      <4>1. closed /\ (i = (e - q) + 1 \/ i = (e - q) + 2)  BY <3>2, <3>3, <3>4, <3>5, <3>7
      <4> QED  BY <3>2, <4>1 DEF Clear
    <3> QED  BY <3>6, <3>7
  <2> QED  BY <2>1, <2>2 DEF InStep
<1> QED  BY <1>1, InitSync, NextSync, PTL DEF Spec

\* What startSocketRead and performDataExchange write to their tun devices are
\* the packets the other end has read from its own, whole, in order and once, up
\* to the close of the connection.
THEOREM PacketsStayWhole == Spec => []PacketsIntact
<1>1. ASSUME SyncInv  PROVE PacketsIntact
  <2>1. /\ packets.toServer \in Seq(Seq(Nat)) /\ packets.served \in Seq(Seq(Int))
        /\ packets.toClient \in Seq(Seq(Nat)) /\ packets.received \in Seq(Seq(Int))
    BY <1>1 DEF SyncInv, Inv, Types, Histories
  <2>2. ASSUME Conforming  PROVE IsPrefix(packets.served, packets.toServer)
    <3>1. Begins(packets.served, packets.toServer)
      BY <1>1, <2>2 DEF SyncInv, UpInv, UpAt, UpReader
    <3> QED  BY <2>1, <3>1, BeginsIsPrefix
  <2>3. ASSUME ~stale  PROVE IsPrefix(packets.received, packets.toClient)
    <3>1. Begins(packets.received, packets.toClient)
      BY <1>1, <2>3 DEF SyncInv, DownInv, DownAt, DownReader
    <3> QED  BY <2>1, <3>1, BeginsIsPrefix
  <2> QED  BY <2>2, <2>3 DEF PacketsIntact
<1> QED  BY <1>1, InitSync, NextSync, PTL DEF Spec
=============================================================================
