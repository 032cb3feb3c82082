------------------------------ MODULE LogProofs ------------------------------
(* Theorems about the logger, for any threads, any number of messages and   *)
(* any order of files.                                                      *)
EXTENDS LogQueue, SequenceTheorems, FiniteSetTheorems, WellFoundedInduction, TLAPS

-----------------------------------------------------------------------------
(* Induction over the numbers, with a set in the place of a predicate.      *)

\* There is no endless descent in the numbers.
LEMMA NatWF == IsWellFoundedOn({ss \in Nat \X Nat : ss[1] < ss[2]}, Nat)
  BY NatLessThanWellFounded DEF OpToRel

\* A set of numbers has a least one.
LEMMA SetMin ==
    ASSUME NEW T, T \subseteq Nat, T # {}
    PROVE  \E x \in T : \A y \in T : x <= y
<1> DEFINE R == {ss \in Nat \X Nat : ss[1] < ss[2]}
<1>1. IsWellFoundedOn(R, Nat)
  BY NatWF
<1>2. \E x \in T : \A y \in T : ~ (<<y, x>> \in R)
  <2> HIDE DEF R
  <2> QED BY <1>1, WFMin
<1>3. PICK x \in T : \A y \in T : ~ (<<y, x>> \in R)
  BY <1>2
<1>4. ASSUME NEW y \in T PROVE x <= y
  <2>1. x \in Nat /\ y \in Nat
    OBVIOUS
  <2>2. <<y, x>> \in Nat \X Nat /\ <<y, x>>[1] = y /\ <<y, x>>[2] = x /\ <<y, x>> \notin R
    BY <1>3, <2>1
  <2>3. ~(y < x)
    <3> DEFINE p == <<y, x>>
    <3> HIDE DEF p
    <3>1. p \in Nat \X Nat /\ p[1] = y /\ p[2] = x /\ p \notin R
      BY <2>2 DEF p
    <3> QED BY <3>1
  <2> QED BY <2>1, <2>3
<1> QED BY <1>4

\* A set that has 0 and with a number the next one has all.
LEMMA SetInduction ==
    ASSUME NEW S, 0 \in S, \A n \in Nat : n \in S => n + 1 \in S
    PROVE  Nat \subseteq S
<1> SUFFICES ASSUME Nat \ S # {} PROVE FALSE
  OBVIOUS
<1>1. PICK x \in Nat \ S : \A y \in Nat \ S : x <= y
  BY SetMin
<1>2. x # 0 /\ x - 1 \in Nat
  OBVIOUS
<1>3. x - 1 \in S
  BY <1>1, <1>2
<1> QED BY <1>2, <1>3

\* A first value and a step define a function over 0 .. N.
HasFunction(X, c, step, N) ==
    \E f \in [0 .. N -> X] : f[0] = c /\ \A n \in 1 .. N : f[n] = step[<<f[n - 1], n>>]

\* Whatever the step is, the function exists.
LEMMA RecursionHasFunction ==
    ASSUME NEW X, NEW c \in X, NEW step \in [X \X Nat -> X], NEW N \in Nat
    PROVE  HasFunction(X, c, step, N)
<1> DEFINE Fits(f, n) == f[0] = c /\ \A k \in 1 .. n : f[k] = step[<<f[k - 1], k>>]
           S == {n \in Nat : \E f \in [0 .. n -> X] : Fits(f, n)}
<1>1. 0 \in S
  <2> DEFINE f == [k \in 0 .. 0 |-> c]
  <2>1. f \in [0 .. 0 -> X] /\ Fits(f, 0)
    OBVIOUS
  <2> QED BY <2>1
<1>2. ASSUME NEW n \in Nat, n \in S PROVE n + 1 \in S
  <2>1. PICK f \in [0 .. n -> X] : Fits(f, n)
    BY <1>2
  <2> DEFINE g == [k \in 0 .. n + 1 |-> IF k = n + 1 THEN step[<<f[n], n + 1>>] ELSE f[k]]
  <2>2. g \in [0 .. n + 1 -> X]
    <3>1. \A k \in 0 .. n + 1 : k # n + 1 => k \in 0 .. n
      OBVIOUS
    <3>2. f[n] \in X /\ <<f[n], n + 1>> \in X \X Nat
      OBVIOUS
    <3> QED BY <3>1, <3>2
  <2>3. Fits(g, n + 1)
    <3>1. g[0] = c /\ \A k \in 0 .. n : g[k] = f[k]
      BY <2>1
    <3>2. g[n + 1] = step[<<g[n], n + 1>>]
      <4>1. g[n] = f[n] /\ n + 1 \in 0 .. n + 1
        BY <3>1
      <4>2. g[n + 1] = step[<<f[n], n + 1>>]
        BY <4>1, Zenon
      <4> QED BY <4>1, <4>2
    <3>3. ASSUME NEW k \in 1 .. n PROVE g[k] = step[<<g[k - 1], k>>]
      <4>1. g[k] = f[k] /\ g[k - 1] = f[k - 1]
        BY <3>1
      <4> QED BY <2>1, <4>1
    <3>4. \A k \in 1 .. n + 1 : k = n + 1 \/ k \in 1 .. n
      OBVIOUS
    <3>5. g[0] = c
      BY <3>1
    <3> HIDE DEF g
    <3>6. ASSUME NEW k \in 1 .. n + 1 PROVE g[k] = step[<<g[k - 1], k>>]
      <4>1. CASE k = n + 1
        <5>1. k - 1 = n
          BY <4>1
        <5> QED BY <3>2, <4>1, <5>1
      <4> QED BY <3>3, <3>4, <4>1
    <3> QED BY <3>5, <3>6
  <2>4. n + 1 \in Nat
    OBVIOUS
  <2> HIDE DEF g, Fits
  <2> QED BY <2>2, <2>3, <2>4, Zenon
<1>3. Nat \subseteq S
  <2> HIDE DEF S
  <2> QED BY <1>1, <1>2, SetInduction
<1> QED BY <1>3 DEF HasFunction

-----------------------------------------------------------------------------
(* The search of flat_map.                                                  *)

\* The position of a key among lo .. hi.
Found(m, key, lo, hi) ==
    IF \E i \in lo .. hi : Key(m, i) = key
    THEN CHOOSE i \in lo .. hi : Key(m, i) = key
    ELSE NotFound

\* The keys of a map that is not empty, in order.
Sorted(m) ==
    /\ m.keys \in Seq(Nat) /\ m.keys # <<>>
    /\ \A i, j \in 1 .. Len(m.keys) : i < j => m.keys[i] < m.keys[j]

\* A turn of the loop of binarySearch, which goes on with find.
Look(m, key, lowId, highId, find) ==
    LET mid == lowId + (highId - lowId) \div 2
        low == IF Key(m, mid) < key THEN mid + 1 ELSE lowId
        high == IF Key(m, mid) < key THEN highId ELSE mid - 1
    IN  IF lowId > highId THEN NotFound
        ELSE IF Key(m, mid) = key THEN mid
        ELSE IF Key(m, mid) > key /\ mid = 0 THEN NotFound
        ELSE IF low = high
             THEN IF Key(m, low) = key THEN low ELSE NotFound
        ELSE find[<<low, high>>]

\* The ranges that are searched.
Ranges(m) == (0 .. Len(m.keys)) \X (-1 .. Len(m.keys) - 1)

\* BinarySearch is the function that Look defines, from the whole range on.
LEMMA IsChoice ==
    ASSUME NEW m, NEW key
    PROVE  BinarySearch(m, key) =
             (CHOOSE f : f = [r \in Ranges(m) |-> Look(m, key, r[1], r[2], f)])
                [<<0, Len(m.keys) - 1>>]
BY DEF BinarySearch, Look, Ranges

\* In a sorted map a key has one position.
LEMMA FoundIn ==
    ASSUME NEW m, Sorted(m), NEW key \in Nat,
           NEW lo \in 0 .. Len(m.keys), NEW hi \in -1 .. Len(m.keys) - 1
    PROVE  /\ Found(m, key, lo, hi) \in (lo .. hi) \union {NotFound}
           /\ \A i \in lo .. hi : Key(m, i) = key => Found(m, key, lo, hi) = i
           /\ (\A i \in lo .. hi : Key(m, i) # key) => Found(m, key, lo, hi) = NotFound
<1>1. \A i, j \in lo .. hi : Key(m,i) = Key(m, j) => i = j
  <2> SUFFICES ASSUME NEW i \in lo .. hi, NEW j \in lo .. hi, i # j PROVE Key(m,i) # Key(m,j)
    OBVIOUS
  <2>1. i + 1 \in 1 .. Len(m.keys) /\ j + 1 \in 1 .. Len(m.keys) /\ (i+1 < j+1 \/ j+1 < i+1)
    BY DEF Sorted
  <2>2. m.keys[i+1] \in Nat /\ m.keys[j+1] \in Nat
    BY <2>1 DEF Sorted
  <2>3. m.keys[i+1] < m.keys[j+1] \/ m.keys[j+1] < m.keys[i+1]
    BY <2>1 DEF Sorted
  <2>4. m.keys[i+1] # m.keys[j+1]
    BY <2>2, <2>3
  <2> QED BY <2>4 DEF Key
<1> QED BY <1>1 DEF Found

\* One turn of the loop of the search: if the turns on the smaller ranges give
\* the position of the key, so does this one.
LEMMA LookFinds ==
    ASSUME NEW m, Sorted(m), NEW key \in Nat,
           NEW lo \in 0 .. Len(m.keys), NEW hi \in -1 .. Len(m.keys) - 1, NEW f,
           \A r \in Ranges(m) : (r[1] >= lo /\ r[2] <= hi /\ r # <<lo, hi>>)
                               => f[r] = Found(m, key, r[1], r[2])
    PROVE  Look(m, key, lo, hi, f) = Found(m, key, lo, hi)
<1> DEFINE mid == lo + (hi - lo) \div 2
<1> HIDE DEF mid
<1>1. CASE lo > hi
  BY <1>1, FoundIn DEF Look
<1>2. CASE lo <= hi
  <2>1. mid \in lo .. hi /\ mid + 1 \in 1 .. Len(m.keys)
    <3>1. Len(m.keys) \in Nat /\ hi - lo \in Nat /\ lo \in Nat /\ hi \in Int
      BY <1>2 DEF Sorted
    <3>2. \A n \in Nat : n \div 2 \in 0 .. n
      BY SMT
    <3>3. (hi - lo) \div 2 \in 0 .. hi - lo
      BY <3>1, <3>2
    <3> DEFINE d == (hi - lo) \div 2
    <3>4. d \in 0 .. hi - lo
      BY <3>3
    <3> HIDE DEF d
    <3>5. mid = lo + d
      BY DEF mid, d
    <3> QED BY <3>1, <3>4, <3>5
  <2>2. /\ Len(m.keys) \in Nat /\ \A i \in lo .. hi : Key(m, i) \in Nat
        /\ \A i, j \in lo .. hi : i < j => Key(m, i) < Key(m, j)
    <3>1. Len(m.keys) \in Nat /\ \A i \in lo .. hi : i \in Int /\ i + 1 \in 1 .. Len(m.keys)
      BY DEF Sorted
    <3>2. \A i \in 1 .. Len(m.keys) : m.keys[i] \in Nat
      BY DEF Sorted
    <3>3. \A i, j \in lo .. hi : i < j => Key(m, i) < Key(m, j)
      <4> SUFFICES ASSUME NEW i \in lo .. hi, NEW j \in lo .. hi, i < j PROVE Key(m, i) < Key(m, j)
        OBVIOUS
      <4>1. i + 1 \in 1 .. Len(m.keys) /\ j + 1 \in 1 .. Len(m.keys) /\ i + 1 < j + 1
        BY <3>1
      <4> QED BY <4>1 DEF Sorted, Key
    <3> QED BY <3>1, <3>2, <3>3 DEF Key
  <2>3. CASE Key(m, mid) = key
    <3>1. Look(m, key, lo, hi, f) = mid
      BY <1>2, <2>3 DEF Look, mid
    <3> QED BY <2>1, <2>3, <3>1, FoundIn
  <2>4. CASE Key(m, mid) < key
    <3>1. Look(m, key, lo, hi, f) =
            IF mid + 1 = hi THEN IF Key(m, mid + 1) = key THEN mid + 1 ELSE NotFound
                            ELSE f[<<mid + 1, hi>>]
      BY <1>2, <2>4, <2>2, <2>1 DEF Look, mid
    <3>2. ASSUME NEW i \in lo .. mid PROVE Key(m, i) # key
      <4>1. i \in lo .. hi /\ (i < mid \/ i = mid)
        BY <2>1, <2>2
      <4>2. Key(m, i) < Key(m, mid) \/ i = mid
        BY <2>1, <2>2, <4>1
      <4> QED BY <2>1, <2>2, <2>4, <4>1, <4>2
    <3>3. <<mid + 1, hi>> \in Ranges(m) /\ <<mid+1, hi>> # <<lo, hi>>
      BY <2>1, <2>2 DEF Ranges
    <3>4. mid + 1 # hi => f[<<mid+1, hi>>] = Found(m, key, mid+1, hi)
      BY <3>3, <2>1
    <3>5. /\ Found(m, key, mid+1, hi) \in (mid + 1 .. hi) \union {NotFound}
          /\ \A i \in mid + 1 .. hi : Key(m, i) = key => Found(m,key,mid + 1,hi) = i
          /\ (\A i \in mid + 1 .. hi : Key(m, i) # key) => Found(m,key,mid + 1,hi) = NotFound
      BY <2>1, <2>2, FoundIn
    <3> QED BY <3>1, <3>2, <3>4, <3>5, <2>1, <2>2, FoundIn
  <2>5. CASE Key(m, mid) > key
    <3>1. Look(m, key, lo, hi, f) = IF mid = 0 THEN NotFound ELSE
                                    IF lo = mid - 1 THEN IF Key(m, lo) = key THEN lo ELSE NotFound
                                    ELSE f[<<lo, mid - 1>>]
      BY <1>2, <2>5, <2>2, <2>1 DEF Look, mid
    <3>2. ASSUME NEW i \in mid .. hi PROVE Key(m, i) # key
      <4>1. i \in lo .. hi /\ (mid < i \/ i = mid)
        BY <2>1, <2>2
      <4>2. Key(m, mid) < Key(m, i) \/ i = mid
        BY <2>1, <2>2, <4>1
      <4> QED BY <2>1, <2>2, <2>5, <4>1, <4>2
    <3>3. <<lo, mid - 1>> \in Ranges(m) /\ <<lo, mid - 1>> # <<lo, hi>>
      BY <2>1, <2>2 DEF Ranges
    <3>4. f[<<lo, mid - 1>>] = Found(m, key, lo, mid - 1)
      BY <3>3, <2>1
    <3>5. /\ Found(m, key, lo, mid - 1) \in (lo .. mid - 1) \union {NotFound}
          /\ \A i \in lo .. mid - 1 : Key(m, i) = key => Found(m,key,lo, mid - 1) = i
          /\ (\A i \in lo .. mid - 1 : Key(m, i) # key) => Found(m,key,lo, mid - 1) = NotFound
      BY <2>1, <2>2, FoundIn
    <3> QED BY <3>1, <3>2, <3>4, <3>5, <2>1, <2>2, FoundIn
  <2> QED BY <2>1, <2>2, <2>3, <2>4, <2>5
<1> QED BY <1>1, <1>2

\* All turns do, by induction over the length of the range.
LEMMA FindFinds ==
    ASSUME NEW m, Sorted(m), NEW key \in Nat, NEW f,
           f = [r \in Ranges(m) |-> Look(m, key, r[1], r[2], f)]
    PROVE  \A r \in Ranges(m) : f[r] = Found(m, key, r[1], r[2])
<1>0. Len(m.keys) \in Nat
  BY DEF Sorted
<1> DEFINE S == {n \in Nat : \A r \in Ranges(m) :
                    r[2] - r[1] + 1 <= n => f[r] = Found(m, key, r[1], r[2])}
<1>1. ASSUME NEW n \in Nat, n = 0 \/ n - 1 \in S PROVE n \in S
  <2> SUFFICES ASSUME NEW r \in Ranges(m), r[2] - r[1] + 1 <= n
               PROVE  f[r] = Found(m, key, r[1], r[2])
    OBVIOUS
  <2>1. r[1] \in 0 .. Len(m.keys) /\ r[2] \in -1 .. Len(m.keys) - 1 /\ r = <<r[1], r[2]>>
    BY DEF Ranges
  <2>2. f[r] = Look(m, key, r[1], r[2], f)
    BY Zenon
  <2>3. CASE r[1] > r[2]
    <3>1. Look(m, key, r[1], r[2], f) = NotFound
      BY <2>3 DEF Look
    <3>2. Found(m, key, r[1], r[2]) = NotFound
      BY <2>1, <2>3, <1>0 DEF Found
    <3> QED BY <2>2, <3>1, <3>2
  <2>4. CASE r[1] <= r[2]
    <3>1. n - 1 \in S
      BY <1>0, <1>1, <2>1, <2>4
    <3>2. ASSUME NEW q \in Ranges(m), q[1] >= r[1], q[2] <= r[2], q # <<r[1], r[2]>>
          PROVE f[q] = Found(m, key, q[1], q[2])
      <4>1. q[1] \in 0 .. Len(m.keys) /\ q[2] \in -1 .. Len(m.keys) - 1 /\ q = <<q[1], q[2]>>
        BY DEF Ranges
      <4>2. q[1] # r[1] \/ q[2] # r[2]
        BY <3>2, <4>1
      <4>3. q[2] - q[1] + 1 <= n - 1
        BY <1>0, <2>1, <3>2, <4>1, <4>2
      <4> QED BY <3>1, <4>3
    <3> QED BY <2>1, <2>2, <3>2, LookFinds
  <2> QED BY <2>1, <2>3, <2>4, <1>0
<1>2. Nat \subseteq S
  <2>1. 0 \in S
    BY <1>1
  <2>2. \A n \in Nat : n \in S => n + 1 \in S
    BY <1>1
  <2> HIDE DEF S
  <2> QED BY <2>1, <2>2, SetInduction
<1>3. ASSUME NEW r \in Ranges(m) PROVE f[r] = Found(m, key, r[1], r[2])
  <2>1. r[1] \in 0 .. Len(m.keys) /\ r[2] \in -1 .. Len(m.keys) - 1
    BY DEF Ranges
  <2>2. Len(m.keys) \in S /\ r[2] - r[1] + 1 <= Len(m.keys)
    BY <1>0, <1>2, <2>1
  <2> QED BY <2>2
<1> QED BY <1>3

\* The bisection gives the position of the key.
LEMMA BinarySearchFinds ==
    ASSUME NEW m, Sorted(m), NEW key \in Nat
    PROVE  BinarySearch(m, key) = Found(m, key, 0, Len(m.keys) - 1)
<1>0. Len(m.keys) \in Nat
  BY DEF Sorted
<1> DEFINE F == [r \in Ranges(m) |-> Found(m, key, r[1], r[2])]
<1>1. F = [r \in Ranges(m) |-> Look(m, key, r[1], r[2], F)]
  <2>1. ASSUME NEW r \in Ranges(m) PROVE Look(m, key, r[1], r[2], F) = Found(m, key, r[1], r[2])
    <3>1. r[1] \in 0 .. Len(m.keys) /\ r[2] \in -1 .. Len(m.keys) - 1
      BY DEF Ranges
    <3>2. \A q \in Ranges(m) : F[q] = Found(m, key, q[1], q[2])
      OBVIOUS
    <3> HIDE DEF F
    <3> QED BY <3>1, <3>2, LookFinds
  <2> QED BY <2>1, Zenon
<1> DEFINE f == CHOOSE f : f = [r \in Ranges(m) |-> Look(m, key, r[1], r[2], f)]
<1>2. f = [r \in Ranges(m) |-> Look(m, key, r[1], r[2], f)]
  <2> HIDE DEF F
  <2> QED BY <1>1, Zenon
<1>3. BinarySearch(m, key) = f[<<0, Len(m.keys) - 1>>]
  BY IsChoice, Zenon
<1> HIDE DEF f
<1>4. <<0, Len(m.keys) - 1>> \in Ranges(m)
  BY <1>0 DEF Ranges
<1>5. \A r \in Ranges(m) : f[r] = Found(m, key, r[1], r[2])
  BY <1>2, FindFinds, Zenon
<1>6. f[<<0, Len(m.keys) - 1>>] = Found(m, key, 0, Len(m.keys) - 1)
  BY <1>4, <1>5
<1> QED BY <1>3, <1>6

-----------------------------------------------------------------------------
(* The other operations of flat_map.                                        *)

\* The keys in order.
Increasing(ks) ==
    ks \in Seq(Nat) /\ \A i, j \in 1 .. Len(ks) : i < j => ks[i] < ks[j]

\* What BinarySearch returns, in the words of SearchFinds.
LEMMA SearchResult ==
    ASSUME NEW m, Sorted(m), NEW key \in Nat
    PROVE  /\ key \in ToSet(m.keys) =>
                /\ BinarySearch(m, key) \in 0 .. Len(m.keys) - 1
                /\ m.keys[BinarySearch(m, key) + 1] = key
           /\ key \notin ToSet(m.keys) => BinarySearch(m, key) = NotFound
<1> DEFINE last == Len(m.keys) - 1
<1>1. Len(m.keys) \in Nat /\ 0 \in 0 .. Len(m.keys) /\ last \in -1 .. Len(m.keys) - 1
      /\ DOMAIN m.keys = 1 .. Len(m.keys)
  BY DEF Sorted
<1>2. BinarySearch(m, key) = Found(m, key, 0, last)
  BY BinarySearchFinds
<1>3. /\ \A i \in 0 .. last : Key(m, i) = key => Found(m, key, 0, last) = i
      /\ (\A i \in 0 .. last : Key(m, i) # key) => Found(m, key, 0, last) = NotFound
  BY <1>1, FoundIn
<1>4. ASSUME key \in ToSet(m.keys)
      PROVE  /\ BinarySearch(m, key) \in 0 .. last
             /\ m.keys[BinarySearch(m, key) + 1] = key
  <2>1. PICK j \in 1 .. Len(m.keys) : m.keys[j] = key
    BY <1>1, <1>4 DEF ToSet
  <2>2. j - 1 \in 0 .. last /\ Key(m, j - 1) = key
    BY <1>1, <2>1 DEF Key
  <2>3. BinarySearch(m, key) = j - 1
    BY <1>2, <1>3, <2>2
  <2> QED BY <2>1, <2>2, <2>3
<1>5. ASSUME key \notin ToSet(m.keys)
      PROVE  BinarySearch(m, key) = NotFound
  <2>1. ASSUME NEW i \in 0 .. last PROVE Key(m, i) # key
    <3>1. i + 1 \in 1 .. Len(m.keys)
      BY <1>1
    <3> QED BY <1>1, <1>5, <3>1 DEF ToSet, Key
  <2> QED BY <1>2, <1>3, <2>1
<1> QED BY <1>4, <1>5

\* The first keys that at_tryFirst compares are keys like the others.
LEMMA TryFirstSearches ==
    ASSUME NEW m, Sorted(m), NEW key \in ToSet(m.keys)
    PROVE  TryFirst(m, 1, key) = BinarySearch(m, key)
<1>1. key \in Nat /\ Len(m.keys) \in Nat
  BY DEF Sorted, ToSet
<1>2. CASE Key(m, 0) = key
  <2>1. TryFirst(m, 1, key) = 0
    BY <1>2 DEF TryFirst
  <2>2. Len(m.keys) - 1 \in -1 .. Len(m.keys) - 1 /\ 0 \in 0 .. Len(m.keys) - 1
        /\ 0 \in 0 .. Len(m.keys)
    BY <1>1 DEF Sorted
  <2>3. Found(m, key, 0, Len(m.keys) - 1) = 0
    BY <1>1, <1>2, <2>2, FoundIn
  <2> QED BY <1>1, <2>1, <2>3, BinarySearchFinds
<1>3. CASE Key(m, 0) # key
  BY <1>3 DEF TryFirst
<1> QED BY <1>2, <1>3

\* The first place that fits.
LEMMA PlaceFits ==
    ASSUME NEW m, Increasing(m.keys), NEW key \in Nat
    PROVE  /\ Place(m, key) \in 0 .. Len(m.keys)
           /\ \A j \in 0 .. Place(m, key) - 1 : Key(m, j) < key
           /\ Place(m, key) < Len(m.keys) => Key(m, Place(m, key)) >= key
<1> DEFINE Fits(i) == /\ \A j \in 0 .. i - 1 : Key(m, j) < key
                      /\ i < Len(m.keys) => Key(m, i) >= key
           T == {i \in 0 .. Len(m.keys) : i < Len(m.keys) => Key(m, i) >= key}
<1>1. Len(m.keys) \in Nat /\ \A i \in 0 .. Len(m.keys) - 1 : Key(m, i) \in Nat
  <2>1. Len(m.keys) \in Nat /\ \A i \in 0 .. Len(m.keys) - 1 : i + 1 \in 1 .. Len(m.keys)
    BY DEF Increasing
  <2> QED BY <2>1 DEF Increasing, Key
<1>2. T \subseteq Nat /\ Len(m.keys) \in T
  BY <1>1
<1>3. PICK x \in T : \A y \in T : x <= y
  <2> HIDE DEF T
  <2> QED BY <1>2, SetMin
<1>4. x \in 0 .. Len(m.keys) /\ Fits(x)
  <2>1. x \in 0 .. Len(m.keys) /\ (x < Len(m.keys) => Key(m, x) >= key)
    OBVIOUS
  <2>2. ASSUME NEW j \in 0 .. x - 1 PROVE Key(m, j) < key
    <3>1. j \notin T /\ j \in 0 .. Len(m.keys) - 1
      BY <1>1, <1>3, <2>1
    <3> QED BY <1>1, <3>1
  <2> QED BY <2>1, <2>2
<1>5. Place(m, key) = CHOOSE i \in 0 .. Len(m.keys) : Fits(i)
  BY DEF Place
<1> HIDE DEF Fits
<1>6. Place(m, key) \in 0 .. Len(m.keys) /\ Fits(Place(m, key))
  BY <1>4, <1>5, Zenon
<1> QED BY <1>6 DEF Fits

\* The elements of a sequence with one more element at position i.
LEMMA InsertAtHas ==
    ASSUME NEW s \in Seq(Nat), NEW i \in 1 .. Len(s) + 1, NEW e \in Nat
    PROVE  /\ InsertAt(s, i, e) \in Seq(Nat) /\ Len(InsertAt(s, i, e)) = Len(s) + 1
           /\ \A j \in 1 .. Len(s) + 1 :
                InsertAt(s, i, e)[j] = IF j < i THEN s[j] ELSE IF j = i THEN e ELSE s[j - 1]
<1> DEFINE a == SubSeq(s, 1, i - 1)
           b == SubSeq(s, i, Len(s))
<1>0. Len(s) \in Nat /\ i \in Nat
  OBVIOUS
<1>1. /\ a \in Seq(Nat) /\ Len(a) = i - 1 /\ \A j \in 1 .. i - 1 : a[j] = s[j]
      /\ b \in Seq(Nat) /\ Len(b) = Len(s) - i + 1
      /\ \A j \in 1 .. Len(s) - i + 1 : b[j] = s[i + j - 1]
  <2>1. \A k \in 1 .. Len(s) : s[k] \in Nat
    OBVIOUS
  <2>2. /\ \A k \in 1 .. i - 1 : s[k] \in Nat
        /\ \A k \in i .. Len(s) : s[k] \in Nat
    BY <1>0, <2>1
  <2>3. /\ a \in Seq(Nat) /\ Len(a) = IF 1 <= i - 1 THEN i - 1 - 1 + 1 ELSE 0
        /\ \A j \in 1 .. i - 1 - 1 + 1 : a[j] = s[1 + j - 1]
    BY <1>0, <2>2, SubSeqProperties
  <2>4. /\ b \in Seq(Nat) /\ Len(b) = IF i <= Len(s) THEN Len(s) - i + 1 ELSE 0
        /\ \A j \in 1 .. Len(s) - i + 1 : b[j] = s[i + j - 1]
    BY <1>0, <2>2, SubSeqProperties
  <2> HIDE DEF a, b
  <2> QED BY <1>0, <2>3, <2>4
<1> HIDE DEF a, b
<1> DEFINE c == a \o <<e>>
<1>2. c \in Seq(Nat) /\ Len(c) = i /\ \A j \in 1 .. i : c[j] = IF j < i THEN s[j] ELSE e
  BY <1>0, <1>1
<1> HIDE DEF c
<1>3. /\ c \o b \in Seq(Nat) /\ Len(c \o b) = Len(s) + 1
      /\ \A j \in 1 .. Len(s) + 1 : (c \o b)[j] = IF j <= i THEN c[j] ELSE b[j - i]
  <2>1. /\ c \o b \in Seq(Nat) /\ Len(c \o b) = Len(c) + Len(b)
        /\ \A j \in 1 .. Len(c) + Len(b) : (c \o b)[j] = IF j <= Len(c) THEN c[j] ELSE b[j - Len(c)]
    BY <1>1, <1>2, ConcatProperties
  <2>2. Len(c) + Len(b) = Len(s) + 1
    BY <1>0, <1>1, <1>2
  <2> QED BY <1>2, <2>1, <2>2
<1>4. ASSUME NEW j \in 1 .. Len(s) + 1
      PROVE  (c \o b)[j] = IF j < i THEN s[j] ELSE IF j = i THEN e ELSE s[j - 1]
  <2>1. CASE j <= i
    BY <1>0, <1>2, <1>3, <2>1
  <2>2. CASE j > i
    <3>1. j - i \in 1 .. Len(s) - i + 1 /\ i + (j - i) - 1 = j - 1
      BY <1>0, <2>2
    <3>2. b[j - i] = s[j - 1]
      BY <1>1, <3>1
    <3> QED BY <1>0, <1>3, <2>2, <3>2
  <2>3. j <= i \/ j > i
    BY <1>0
  <2> QED BY <2>1, <2>2, <2>3, Zenon
<1>5. InsertAt(s, i, e) = c \o b
  BY DEF InsertAt, a, b, c
<1> QED BY <1>3, <1>4, <1>5

\* The elements of a sequence without the one at position i.
LEMMA RemoveAtHas ==
    ASSUME NEW s \in Seq(Nat), NEW i \in 1 .. Len(s)
    PROVE  /\ RemoveAt(s, i) \in Seq(Nat) /\ Len(RemoveAt(s, i)) = Len(s) - 1
           /\ \A j \in 1 .. Len(s) - 1 :
                RemoveAt(s, i)[j] = IF j < i THEN s[j] ELSE s[j + 1]
<1> DEFINE a == SubSeq(s, 1, i - 1)
           b == SubSeq(s, i + 1, Len(s))
<1>0. Len(s) \in Nat /\ i \in Nat
  OBVIOUS
<1>1. /\ a \in Seq(Nat) /\ Len(a) = i - 1 /\ \A j \in 1 .. i - 1 : a[j] = s[j]
      /\ b \in Seq(Nat) /\ Len(b) = Len(s) - i
      /\ \A j \in 1 .. Len(s) - i : b[j] = s[i + j]
  <2>1. \A k \in 1 .. Len(s) : s[k] \in Nat
    OBVIOUS
  <2>2. /\ \A k \in 1 .. i - 1 : s[k] \in Nat
        /\ \A k \in i + 1 .. Len(s) : s[k] \in Nat
    BY <1>0, <2>1
  <2>3. /\ a \in Seq(Nat) /\ Len(a) = IF 1 <= i - 1 THEN i - 1 - 1 + 1 ELSE 0
        /\ \A j \in 1 .. i - 1 - 1 + 1 : a[j] = s[1 + j - 1]
    BY <1>0, <2>2, SubSeqProperties
  <2>4. /\ b \in Seq(Nat) /\ Len(b) = IF i + 1 <= Len(s) THEN Len(s) - (i + 1) + 1 ELSE 0
        /\ \A j \in 1 .. Len(s) - (i + 1) + 1 : b[j] = s[i + 1 + j - 1]
    BY <1>0, <2>2, SubSeqProperties
  <2> HIDE DEF a, b
  <2> QED BY <1>0, <2>3, <2>4
<1> HIDE DEF a, b
<1>2. /\ a \o b \in Seq(Nat) /\ Len(a \o b) = Len(s) - 1
      /\ \A j \in 1 .. Len(s) - 1 : (a \o b)[j] = IF j < i THEN s[j] ELSE s[j + 1]
  <2>1. /\ a \o b \in Seq(Nat) /\ Len(a \o b) = Len(a) + Len(b)
        /\ \A j \in 1 .. Len(a) + Len(b) :
             (a \o b)[j] = IF j <= Len(a) THEN a[j] ELSE b[j - Len(a)]
    BY <1>1, ConcatProperties
  <2>2. Len(a) + Len(b) = Len(s) - 1
    BY <1>0, <1>1
  <2>3. ASSUME NEW j \in 1 .. Len(s) - 1
        PROVE  (a \o b)[j] = IF j < i THEN s[j] ELSE s[j + 1]
    <3>1. CASE j < i
      BY <1>0, <1>1, <2>1, <2>2, <3>1
    <3>2. CASE j >= i
      <4>1. j - (i - 1) \in 1 .. Len(s) - i /\ i + (j - (i - 1)) = j + 1
        BY <1>0, <3>2
      <4>2. b[j - (i - 1)] = s[j + 1]
        BY <1>1, <4>1
      <4>3. j \in 1 .. Len(a) + Len(b) /\ Len(a) = i - 1 /\ ~(j <= i - 1)
        BY <1>0, <1>1, <2>2, <3>2
      <4>4. (a \o b)[j] = b[j - (i - 1)]
        BY <2>1, <4>3
      <4>5. ~(j < i)
        BY <1>0, <3>2
      <4> QED BY <4>2, <4>4, <4>5
    <3>3. j < i \/ j >= i
      BY <1>0
    <3> QED BY <3>1, <3>2, <3>3, Zenon
  <2> QED BY <2>1, <2>2, <2>3
<1>3. RemoveAt(s, i) = a \o b
  BY DEF RemoveAt, a, b
<1> QED BY <1>2, <1>3

\* insert keeps the keys in order, and adds the new one to them.
LEMMA InsertedKeeps ==
    ASSUME NEW m, Increasing(m.keys), m.vals = m.keys, NEW key \in Nat, key \notin ToSet(m.keys)
    PROVE  LET r == Inserted(m, key, key)
           IN  /\ r \in [keys : Seq(Nat), vals : Seq(Nat)]
               /\ Increasing(r.keys) /\ r.vals = r.keys
               /\ Len(r.keys) = Len(m.keys) + 1
               /\ ToSet(r.keys) = ToSet(m.keys) \union {key}
<1> DEFINE p == Place(m, key)
           ks == m.keys
           new == InsertAt(ks, p + 1, key)
<1>1. /\ Len(ks) \in Nat /\ ks \in Seq(Nat) /\ p \in 0 .. Len(ks) /\ DOMAIN ks = 1 .. Len(ks)
      /\ \A j \in 0 .. p - 1 : Key(m, j) < key
      /\ p < Len(ks) => Key(m, p) >= key
  <2>1. Len(ks) \in Nat /\ ks \in Seq(Nat) /\ DOMAIN ks = 1 .. Len(ks)
    BY DEF Increasing
  <2>2. /\ p \in 0 .. Len(ks)
        /\ \A j \in 0 .. p - 1 : Key(m, j) < key
        /\ p < Len(ks) => Key(m, p) >= key
    BY PlaceFits, Zenon
  <2> QED BY <2>1, <2>2
<1>2. \A i \in 1 .. Len(ks) : ks[i] \in Nat
  BY <1>1
<1> HIDE DEF p
<1>3. Inserted(m, key, key) = [keys |-> new, vals |-> new]
  BY DEF Inserted, p
<1>4. /\ new \in Seq(Nat) /\ Len(new) = Len(ks) + 1
      /\ \A j \in 1 .. Len(ks) + 1 :
           new[j] = IF j < p + 1 THEN ks[j] ELSE IF j = p + 1 THEN key ELSE ks[j - 1]
  <2>1. p + 1 \in 1 .. Len(ks) + 1
    BY <1>1
  <2>2. ks \in Seq(Nat)
    BY <1>1
  <2> DEFINE q == p + 1
  <2>3. q \in 1 .. Len(ks) + 1 /\ new = InsertAt(ks, q, key)
    BY <2>1
  <2> HIDE DEF q, new
  <2>4. /\ new \in Seq(Nat) /\ Len(new) = Len(ks) + 1
        /\ \A j \in 1 .. Len(ks) + 1 :
             new[j] = IF j < q THEN ks[j] ELSE IF j = q THEN key ELSE ks[j - 1]
    <3> HIDE DEF ks
    <3>1. /\ InsertAt(ks, q, key) \in Seq(Nat) /\ Len(InsertAt(ks, q, key)) = Len(ks) + 1
          /\ \A j \in 1 .. Len(ks) + 1 :
               InsertAt(ks, q, key)[j] =
                 IF j < q THEN ks[j] ELSE IF j = q THEN key ELSE ks[j - 1]
      BY <2>2, <2>3, InsertAtHas, Zenon
    <3> QED BY <2>3, <3>1, Zenon
  <2> QED BY <2>4 DEF q
<1>5. \A j \in 1 .. Len(ks) : j <= p => ks[j] < key
  <2> SUFFICES ASSUME NEW j \in 1 .. Len(ks), j <= p PROVE ks[j] < key
    OBVIOUS
  <2>1. j - 1 \in 0 .. p - 1 /\ j - 1 + 1 = j
    BY <1>1
  <2>2. Key(m, j - 1) < key
    BY <1>1, <2>1
  <2> QED BY <2>1, <2>2 DEF Key
<1>6. \A j \in 1 .. Len(ks) : j > p => ks[j] > key
  <2> SUFFICES ASSUME NEW j \in 1 .. Len(ks), j > p PROVE ks[j] > key
    OBVIOUS
  <2>1. p < Len(ks) /\ p + 1 \in 1 .. Len(ks) /\ (p + 1 = j \/ p + 1 < j)
    BY <1>1
  <2>2. ks[p + 1] >= key /\ ks[p + 1] # key
    BY <1>1, <2>1 DEF Key, ToSet
  <2>3. ks[p + 1] = ks[j] \/ ks[p + 1] < ks[j]
    BY <2>1 DEF Increasing
  <2> QED BY <1>2, <2>1, <2>2, <2>3
<1> HIDE DEF new
<1>7. Increasing(new)
  <2> SUFFICES ASSUME NEW i \in 1 .. Len(new), NEW j \in 1 .. Len(new), i < j
               PROVE  new[i] < new[j]
    BY <1>4 DEF Increasing
  <2>1. i \in 1 .. Len(ks) + 1 /\ j \in 1 .. Len(ks) + 1
    BY <1>4
  <2>2. \A a, b \in 1 .. Len(ks) : a < b => ks[a] < ks[b]
    BY DEF Increasing
  <2>3. CASE j < p + 1
    <3>0. i < p + 1 /\ i \in 1 .. Len(ks) /\ j \in 1 .. Len(ks)
      BY <1>1, <2>1, <2>3
    <3>1. i \in 1 .. Len(ks) /\ j \in 1 .. Len(ks) /\ new[i] = ks[i] /\ new[j] = ks[j]
      BY <1>4, <2>1, <2>3, <3>0
    <3> QED BY <2>2, <3>1
  <2>4. CASE j = p + 1
    <3>1. i \in 1 .. Len(ks) /\ i <= p /\ new[i] = ks[i] /\ new[j] = key
      BY <1>1, <1>4, <2>1, <2>4
    <3> QED BY <1>5, <3>1
  <2>5. CASE j > p + 1
    <3>1. j - 1 \in 1 .. Len(ks) /\ j - 1 > p /\ new[j] = ks[j - 1]
      BY <1>1, <1>4, <2>1, <2>5
    <3>2. CASE i < p + 1
      <4>0. i \in 1 .. Len(ks) /\ i < j - 1
        BY <1>1, <2>1, <2>5, <3>2
      <4>1. i \in 1 .. Len(ks) /\ new[i] = ks[i] /\ i < j - 1
        BY <1>4, <2>1, <3>2, <4>0
      <4> QED BY <2>2, <3>1, <4>1
    <3>3. CASE i = p + 1
      <4>0. ~(i < p + 1)
        BY <1>1, <3>3
      <4>1. new[i] = key
        BY <1>4, <2>1, <3>3, <4>0
      <4> QED BY <1>2, <1>6, <3>1, <4>1
    <3>4. CASE i > p + 1
      <4>0. ~(i < p + 1) /\ i # p + 1
        BY <1>1, <2>1, <3>4
      <4>1. i - 1 \in 1 .. Len(ks) /\ new[i] = ks[i - 1] /\ i - 1 < j - 1
        BY <1>1, <1>4, <2>1, <3>4, <4>0
      <4> QED BY <2>2, <3>1, <4>1
    <3> QED BY <1>1, <2>1, <3>2, <3>3, <3>4
  <2> QED BY <1>1, <2>1, <2>3, <2>4, <2>5
<1>8. ToSet(new) = ToSet(ks) \union {key}
  <2>0. DOMAIN new = 1 .. Len(ks) + 1
    BY <1>4
  <2>1. ASSUME NEW j \in 1 .. Len(ks) + 1 PROVE new[j] \in ToSet(ks) \union {key}
    <3>1. CASE j < p + 1
      <4>0. j \in 1 .. Len(ks)
        BY <1>1, <3>1
      <4>1. new[j] = ks[j]
        BY <1>4, <3>1
      <4> QED BY <1>1, <4>0, <4>1 DEF ToSet
    <3>2. CASE j = p + 1
      <4>1. ~(j < p + 1)
        BY <1>1, <3>2
      <4>2. new[j] = key
        BY <1>4, <3>2, <4>1
      <4> QED BY <4>2
    <3>3. CASE j > p + 1
      <4>0. j - 1 \in 1 .. Len(ks) /\ ~(j < p + 1) /\ j # p + 1
        BY <1>1, <3>3
      <4>1. new[j] = ks[j - 1]
        BY <1>4, <4>0
      <4> QED BY <1>1, <4>0, <4>1 DEF ToSet
    <3> QED BY <1>1, <3>1, <3>2, <3>3
  <2>2. ASSUME NEW j \in 1 .. Len(ks) PROVE ks[j] \in ToSet(new)
    <3>1. CASE j <= p
      <4>0. j \in 1 .. Len(ks) + 1 /\ j < p + 1
        BY <1>1, <3>1
      <4>1. j \in 1 .. Len(ks) + 1 /\ new[j] = ks[j]
        BY <1>4, <4>0
      <4> QED BY <2>0, <4>1 DEF ToSet
    <3>2. CASE j > p
      <4>0. /\ j + 1 \in 1 .. Len(ks) + 1 /\ ~(j + 1 < p + 1)
            /\ j + 1 # p + 1 /\ j + 1 - 1 = j
        BY <1>1, <3>2
      <4>1. j + 1 \in 1 .. Len(ks) + 1 /\ new[j + 1] = ks[j]
        BY <1>4, <4>0
      <4> QED BY <2>0, <4>1 DEF ToSet
    <3> QED BY <1>1, <3>1, <3>2
  <2>3. key \in ToSet(new)
    <3>1. p + 1 \in 1 .. Len(ks) + 1 /\ new[p + 1] = key
      BY <1>1, <1>4
    <3> QED BY <2>0, <3>1 DEF ToSet
  <2>4. ToSet(new) \subseteq ToSet(ks) \union {key}
    BY <2>0, <2>1 DEF ToSet
  <2>5. ToSet(ks) \subseteq ToSet(new)
    BY <1>1, <2>2 DEF ToSet
  <2> QED BY <2>3, <2>4, <2>5
<1> QED BY <1>3, <1>4, <1>7, <1>8

\* erase keeps the keys in order, and takes out the one it is asked for.
LEMMA RemovedKeeps ==
    ASSUME NEW m, Sorted(m), m.vals = m.keys, NEW key \in ToSet(m.keys)
    PROVE  /\ Increasing(Removed(m, key).keys)
           /\ Len(Removed(m, key).keys) = Len(m.keys) - 1
           /\ ToSet(Removed(m, key).keys) = ToSet(m.keys) \ {key}
<1> DEFINE ks == m.keys
           p == BinarySearch(m, key) + 1
           new == RemoveAt(ks, p)
<1>1. /\ Len(ks) \in Nat /\ ks \in Seq(Nat) /\ DOMAIN ks = 1 .. Len(ks)
      /\ \A i, j \in 1 .. Len(ks) : i < j => ks[i] < ks[j]
      /\ \A i \in 1 .. Len(ks) : ks[i] \in Nat
  BY DEF Sorted
<1>2. p \in 1 .. Len(ks) /\ ks[p] = key
  <2>1. key \in Nat
    BY <1>1 DEF ToSet
  <2>2. BinarySearch(m, key) \in 0 .. Len(ks) - 1 /\ ks[BinarySearch(m, key) + 1] = key
    BY <2>1, SearchResult
  <2> QED BY <1>1, <2>2
<1>3. Removed(m, key).keys = new
  BY DEF Removed
<1> HIDE DEF p
<1>4. /\ new \in Seq(Nat) /\ Len(new) = Len(ks) - 1
      /\ \A j \in 1 .. Len(ks) - 1 : new[j] = IF j < p THEN ks[j] ELSE ks[j + 1]
  BY <1>1, <1>2, RemoveAtHas
<1> HIDE DEF new
<1>5. ASSUME NEW j \in 1 .. Len(ks) - 1
      PROVE  \E a \in 1 .. Len(ks) : /\ new[j] = ks[a] /\ a # p
                                     /\ a = IF j < p THEN j ELSE j + 1
  <2>1. CASE j < p
    BY <1>1, <1>2, <1>4, <2>1
  <2>2. CASE j >= p
    <3>1. new[j] = ks[j + 1] /\ j + 1 \in 1 .. Len(ks) /\ j + 1 # p /\ ~(j < p)
      BY <1>1, <1>2, <1>4, <2>2
    <3> QED BY <3>1
  <2> QED BY <1>1, <1>2, <2>1, <2>2
<1>6. Increasing(new)
  <2> SUFFICES ASSUME NEW i \in 1 .. Len(new), NEW j \in 1 .. Len(new), i < j
               PROVE  new[i] < new[j]
    BY <1>4 DEF Increasing
  <2>1. i \in 1 .. Len(ks) - 1 /\ j \in 1 .. Len(ks) - 1
    BY <1>4
  <2>2. PICK a \in 1 .. Len(ks) : new[i] = ks[a] /\ a = IF i < p THEN i ELSE i + 1
    BY <1>5, <2>1
  <2>3. PICK b \in 1 .. Len(ks) : new[j] = ks[b] /\ b = IF j < p THEN j ELSE j + 1
    BY <1>5, <2>1
  <2>4. a < b
    <3>1. i \in Nat /\ j \in Nat /\ p \in Nat
      BY <1>1, <1>2, <2>1
    <3> QED BY <2>2, <2>3, <3>1
  <2> QED BY <1>1, <2>2, <2>3, <2>4
<1>7. ToSet(new) = ToSet(ks) \ {key}
  <2>0. DOMAIN new = 1 .. Len(ks) - 1
    BY <1>4
  <2>1. ASSUME NEW a \in 1 .. Len(ks), a # p PROVE ks[a] # key
    <3>1. a < p \/ p < a
      BY <1>1, <1>2, <2>1
    <3>2. ks[a] < ks[p] \/ ks[p] < ks[a]
      BY <1>1, <1>2, <3>1
    <3> QED BY <1>1, <1>2, <3>2
  <2>2. ASSUME NEW j \in 1 .. Len(ks) - 1 PROVE new[j] \in ToSet(ks) \ {key}
    <3>1. PICK a \in 1 .. Len(ks) : new[j] = ks[a] /\ a # p
      BY <1>5
    <3> QED BY <1>1, <2>1, <3>1 DEF ToSet
  <2>3. ASSUME NEW a \in 1 .. Len(ks), ks[a] # key PROVE ks[a] \in ToSet(new)
    <3>1. CASE a < p
      <4>1. a \in 1 .. Len(ks) - 1 /\ new[a] = ks[a]
        BY <1>1, <1>2, <1>4, <3>1
      <4> QED BY <2>0, <4>1 DEF ToSet
    <3>2. CASE a > p
      <4>1. a - 1 \in 1 .. Len(ks) - 1 /\ new[a - 1] = ks[a]
        BY <1>1, <1>2, <1>4, <3>2
      <4> QED BY <2>0, <4>1 DEF ToSet
    <3>3. a # p
      BY <1>2, <2>3
    <3> QED BY <1>1, <1>2, <3>1, <3>2, <3>3
  <2>4. ToSet(new) \subseteq ToSet(ks) \ {key}
    BY <2>0, <2>2 DEF ToSet
  <2>5. ToSet(ks) \ {key} \subseteq ToSet(new)
    BY <1>1, <2>3 DEF ToSet
  <2> QED BY <2>4, <2>5
<1> QED BY <1>3, <1>4, <1>6, <1>7

-----------------------------------------------------------------------------
(* Logger::init.                                                             *)

\* The maps that init makes: sorted, and the file has the name of its target.
Maps == {m \in [keys : Seq(Nat), vals : Seq(Nat)] : Increasing(m.keys) /\ m.vals = m.keys}

\* One file after the other, each of them not there yet.
LEMMA OpeningKeeps ==
    ASSUME NEW order \in Seq(Nat), IsInjective(order), NEW f, f[0] = EmptyMap,
           \A n \in 1 .. Len(order) :
              Inserted(f[n - 1], order[n], order[n]) \in Maps
              => f[n] = Inserted(f[n - 1], order[n], order[n])
    PROVE  \A n \in 0 .. Len(order) :
              /\ f[n] \in Maps /\ Len(f[n].keys) = n
              /\ ToSet(f[n].keys) = {order[i] : i \in 1 .. n}
              /\ n > 0 => f[n] = Inserted(f[n - 1], order[n], order[n])
<1> DEFINE P(n) == /\ f[n] \in Maps /\ Len(f[n].keys) = n
                   /\ ToSet(f[n].keys) = {order[i] : i \in 1 .. n}
                   /\ n > 0 => f[n] = Inserted(f[n - 1], order[n], order[n])
           S == {n \in Nat : n <= Len(order) => P(n)}
<1>0. Len(order) \in Nat /\ DOMAIN order = 1 .. Len(order)
  OBVIOUS
<1>1. 0 \in S
  <2>1. EmptyMap \in Maps /\ Len(EmptyMap.keys) = 0 /\ ToSet(EmptyMap.keys) = {}
    <3>1. EmptyMap.keys = <<>> /\ EmptyMap.vals = <<>>
          /\ EmptyMap \in [keys : Seq(Nat), vals : Seq(Nat)]
      BY DEF EmptyMap
    <3> QED BY <3>1 DEF Maps, Increasing, ToSet
  <2>2. {order[i] : i \in 1 .. 0} = {}
    OBVIOUS
  <2>3. P(0)
    BY <2>1, <2>2
  <2> QED BY <2>3
<1>2. ASSUME NEW n \in Nat, n \in S PROVE n + 1 \in S
  <2> SUFFICES ASSUME n + 1 <= Len(order) PROVE P(n + 1)
    OBVIOUS
  <2> DEFINE m == f[n]
             key == order[n + 1]
  <2>1. /\ m \in Maps /\ Len(m.keys) = n /\ ToSet(m.keys) = {order[i] : i \in 1 .. n}
    BY <1>0, <1>2
  <2>2. n + 1 \in 1 .. Len(order) /\ key \in Nat /\ n + 1 - 1 = n
    BY <1>0
  <2>3. key \notin ToSet(m.keys)
    <3>1. \A i \in 1 .. n : i \in 1 .. Len(order) /\ i # n + 1
      BY <1>0, <2>2
    <3>2. \A i \in 1 .. n : order[i] # order[n + 1]
      BY <1>0, <2>2, <3>1 DEF IsInjective
    <3> QED BY <2>1, <3>2
  <2>4. Increasing(m.keys) /\ m.vals = m.keys
    BY <2>1 DEF Maps
  <2>5. f[n + 1 - 1] = m
    BY <2>2
  <2> HIDE DEF m, key
  <2> DEFINE r == Inserted(m, key, key)
  <2>6. /\ r \in [keys : Seq(Nat), vals : Seq(Nat)]
        /\ Increasing(r.keys) /\ r.vals = r.keys /\ Len(r.keys) = Len(m.keys) + 1
        /\ ToSet(r.keys) = ToSet(m.keys) \union {key}
    BY <2>2, <2>3, <2>4, InsertedKeeps
  <2> HIDE DEF r
  <2>7. r \in Maps
    BY <2>6 DEF Maps
  <2>8. f[n + 1] = r /\ r = Inserted(f[n + 1 - 1], order[n + 1], order[n + 1])
    <3>1. r = Inserted(f[n + 1 - 1], order[n + 1], order[n + 1])
      BY <2>5 DEF r, key
    <3> QED BY <2>2, <2>7, <3>1
  <2>9. ToSet(r.keys) = {order[i] : i \in 1 .. n + 1}
    <3>1. \A i \in 1 .. n + 1 : i = n + 1 \/ i \in 1 .. n
      OBVIOUS
    <3>2. n + 1 \in 1 .. n + 1 /\ \A i \in 1 .. n : i \in 1 .. n + 1
      OBVIOUS
    <3>3. {order[i] : i \in 1 .. n + 1} = {order[i] : i \in 1 .. n} \union {order[n + 1]}
      BY <3>1, <3>2
    <3> QED BY <2>1, <2>6, <3>3 DEF key
  <2> QED BY <2>1, <2>6, <2>7, <2>8, <2>9
<1>3. Nat \subseteq S
  <2> HIDE DEF S
  <2> QED BY <1>1, <1>2, SetInduction
<1>4. ASSUME NEW n \in 0 .. Len(order) PROVE P(n)
  <2>1. n \in Nat /\ n <= Len(order)
    BY <1>0
  <2>2. n \in S
    BY <1>3, <2>1
  <2> QED BY <2>1, <2>2
<1> QED BY <1>4

\* What Logger::init leaves: a file for each target, sorted by target.
LEMMA StreamsOfOrder ==
    ASSUME NEW order \in Seq(Nat), order # <<>>, IsInjective(order)
    PROVE  /\ StreamsOf(order) \in Maps /\ StreamsOf(order).keys # <<>>
           /\ ToSet(StreamsOf(order).keys) = {order[i] : i \in DOMAIN order}
<1> DEFINE N == Len(order)
           Open(f) == [n \in 0 .. N |-> IF n = 0 THEN EmptyMap
                                        ELSE Inserted(f[n - 1], order[n], order[n])]
           step == [p \in Maps \X Nat |->
                      IF Inserted(p[1], order[p[2]], order[p[2]]) \in Maps
                      THEN Inserted(p[1], order[p[2]], order[p[2]]) ELSE EmptyMap]
<1>0. N \in Nat /\ N > 0 /\ DOMAIN order = 1 .. N
  OBVIOUS
<1>1. EmptyMap \in Maps
  <2>1. /\ EmptyMap.keys = <<>> /\ EmptyMap.vals = <<>>
        /\ EmptyMap \in [keys : Seq(Nat), vals : Seq(Nat)]
    BY DEF EmptyMap
  <2> QED BY <2>1 DEF Maps, Increasing
<1>2. step \in [Maps \X Nat -> Maps]
  BY <1>1
<1>3. PICK f \in [0 .. N -> Maps] :
         f[0] = EmptyMap /\ \A n \in 1 .. N : f[n] = step[<<f[n - 1], n>>]
  <2> HIDE DEF step, N
  <2>1. N \in Nat
    BY <1>0
  <2>2. HasFunction(Maps, EmptyMap, step, N)
    BY <1>1, <1>2, <2>1, RecursionHasFunction
  <2> QED BY <2>2 DEF HasFunction
<1>4. \A n \in 1 .. N : Inserted(f[n - 1], order[n], order[n]) \in Maps
                       => f[n] = Inserted(f[n - 1], order[n], order[n])
  <2> SUFFICES ASSUME NEW n \in 1 .. N, Inserted(f[n - 1], order[n], order[n]) \in Maps
               PROVE  f[n] = Inserted(f[n - 1], order[n], order[n])
    OBVIOUS
  <2>1. n \in Nat /\ n - 1 \in 0 .. N
    BY <1>0
  <2>2. <<f[n - 1], n>> \in Maps \X Nat
    BY <2>1
  <2>3. step[<<f[n - 1], n>>] = Inserted(f[n - 1], order[n], order[n])
    BY <2>2
  <2> QED BY <1>3, <2>3
<1>5. f = Open(f)
  <2>1. \A n \in 1 .. N : f[n] = Inserted(f[n - 1], order[n], order[n])
    <3>1. \A n \in 0 .. N : n > 0 => f[n] = Inserted(f[n - 1], order[n], order[n])
      <4>1. f[0] = EmptyMap
        BY <1>3
      <4> QED BY <1>4, <4>1, OpeningKeeps
    <3>2. \A n \in 1 .. N : n \in 0 .. N /\ n > 0
      BY <1>0
    <3> QED BY <3>1, <3>2
  <2>2. \A n \in 0 .. N : n # 0 => n \in 1 .. N
    BY <1>0
  <2>3. DOMAIN f = 0 .. N /\ \A n \in 0 .. N : f[n] = Open(f)[n]
    BY <1>3, <2>1, <2>2
  <2>4. DOMAIN Open(f) = 0 .. N
    OBVIOUS
  <2> QED BY <2>3, <2>4
<1> DEFINE g == CHOOSE h : h = Open(h)
<1>6. g = Open(g)
  <2> HIDE DEF Open
  <2> QED BY <1>5, Zenon
<1>7. StreamsOf(order) = g[N]
  BY DEF StreamsOf
<1> HIDE DEF g
<1>8. g[0] = EmptyMap /\ \A n \in 1 .. N : g[n] = Inserted(g[n - 1], order[n], order[n])
  <2>1. 0 \in 0 .. N /\ \A n \in 1 .. N : n \in 0 .. N /\ n # 0
    BY <1>0
  <2> QED BY <1>6, <2>1, Zenon
<1>9. /\ g[N] \in Maps /\ Len(g[N].keys) = N
      /\ ToSet(g[N].keys) = {order[i] : i \in 1 .. N}
  <2>1. N \in 0 .. N
    BY <1>0
  <2>2. \A n \in 0 .. N : /\ g[n] \in Maps /\ Len(g[n].keys) = n
                          /\ ToSet(g[n].keys) = {order[i] : i \in 1 .. n}
    BY <1>8, OpeningKeeps
  <2> HIDE DEF N
  <2> QED BY <2>1, <2>2
<1> QED BY <1>0, <1>7, <1>9

-----------------------------------------------------------------------------
(* The messages for one target.                                              *)

\* f counts the messages of s for t up from the front.
Counts(f, M, t, s) ==
    /\ f \in [0 .. Len(s) -> Seq(M)] /\ f[0] = <<>>
    /\ \A n \in 1 .. Len(s) :
         f[n] = IF s[n].to = t THEN Append(f[n - 1], s[n]) ELSE f[n - 1]

\* For counts them so.
LEMMA ForCounts ==
    ASSUME NEW M, NEW s \in Seq(M), NEW t
    PROVE  \E f : Counts(f, M, t, s) /\ For(t, s) = f[Len(s)]
<1> DEFINE N == Len(s)
           Open(f) == [n \in 0 .. N |->
                         IF n = 0 THEN <<>>
                         ELSE IF s[n].to = t THEN Append(f[n - 1], s[n]) ELSE f[n - 1]]
           step == [p \in Seq(M) \X Nat |->
                      IF p[2] \in 1 .. N /\ s[p[2]].to = t THEN Append(p[1], s[p[2]])
                      ELSE p[1]]
<1>0. N \in Nat /\ \A n \in 1 .. N : s[n] \in M
  OBVIOUS
<1>1. step \in [Seq(M) \X Nat -> Seq(M)]
  <2> SUFFICES ASSUME NEW x \in Seq(M), NEW n \in Nat PROVE step[<<x, n>>] \in Seq(M)
    OBVIOUS
  <2>1. step[<<x, n>>] = IF n \in 1 .. N /\ s[n].to = t THEN Append(x, s[n]) ELSE x
    OBVIOUS
  <2>2. n \in 1 .. N => Append(x, s[n]) \in Seq(M)
    BY <1>0
  <2> HIDE DEF step
  <2> QED BY <2>1, <2>2
<1>2. PICK f \in [0 .. N -> Seq(M)] :
         f[0] = <<>> /\ \A n \in 1 .. N : f[n] = step[<<f[n - 1], n>>]
  <2> HIDE DEF step, N
  <2>1. <<>> \in Seq(M) /\ N \in Nat
    BY <1>0
  <2>2. HasFunction(Seq(M), <<>>, step, N)
    BY <1>1, <2>1, RecursionHasFunction
  <2> QED BY <2>2 DEF HasFunction
<1>3. ASSUME NEW n \in 1 .. N
      PROVE  f[n] = IF s[n].to = t THEN Append(f[n - 1], s[n]) ELSE f[n - 1]
  <2>1. n \in Nat /\ n - 1 \in 0 .. N
    BY <1>0
  <2>2. <<f[n - 1], n>> \in Seq(M) \X Nat
    BY <2>1
  <2>3. step[<<f[n - 1], n>>] = IF s[n].to = t THEN Append(f[n - 1], s[n]) ELSE f[n - 1]
    BY <2>2
  <2> QED BY <1>2, <2>3
<1>4. f = Open(f)
  <2>1. \A n \in 0 .. N : n # 0 => n \in 1 .. N
    BY <1>0
  <2>2. ASSUME NEW n \in 0 .. N
        PROVE  f[n] = IF n = 0 THEN <<>>
                      ELSE IF s[n].to = t THEN Append(f[n - 1], s[n]) ELSE f[n - 1]
    BY <1>2, <1>3, <2>1
  <2>3. DOMAIN f = 0 .. N
    OBVIOUS
  <2>4. f = [n \in 0 .. N |-> f[n]]
    BY <2>3
  <2> QED BY <2>2, <2>4, Zenon
<1> DEFINE g == CHOOSE h : h = Open(h)
<1>5. g = Open(g)
  <2> HIDE DEF Open
  <2> QED BY <1>4, Zenon
<1>6. For(t, s) = g[N]
  BY DEF For
<1> HIDE DEF g
<1>7. g[0] = <<>> /\ DOMAIN g = 0 .. N
      /\ \A n \in 1 .. N : g[n] = IF s[n].to = t THEN Append(g[n - 1], s[n]) ELSE g[n - 1]
  <2>1. 0 \in 0 .. N /\ \A n \in 1 .. N : n \in 0 .. N /\ n # 0
    BY <1>0
  <2> QED BY <1>5, <2>1, Zenon
<1>8. g \in [0 .. N -> Seq(M)]
  <2> DEFINE S == {n \in Nat : n <= N => g[n] \in Seq(M)}
  <2>1. 0 \in S
    <3>1. <<>> \in Seq(M) /\ g[0] = <<>>
      BY <1>7
    <3> QED BY <3>1
  <2>2. ASSUME NEW n \in Nat, n \in S PROVE n + 1 \in S
    <3> SUFFICES ASSUME n + 1 <= N PROVE g[n + 1] \in Seq(M)
      OBVIOUS
    <3>1. n + 1 \in 1 .. N /\ n + 1 - 1 = n /\ g[n] \in Seq(M)
      BY <1>0, <2>2
    <3>2. g[n + 1] = IF s[n + 1].to = t THEN Append(g[n], s[n + 1]) ELSE g[n]
      BY <1>7, <3>1
    <3>3. s[n + 1] \in M
      BY <1>0, <3>1
    <3> QED BY <3>1, <3>2, <3>3
  <2>3. Nat \subseteq S
    <3> HIDE DEF S
    <3> QED BY <2>1, <2>2, SetInduction
  <2>4. \A n \in 0 .. N : n \in Nat /\ n <= N
    BY <1>0
  <2>5. \A n \in 0 .. N : g[n] \in Seq(M)
    BY <2>3, <2>4
  <2>6. g = [n \in 0 .. N |-> g[n]]
    BY <1>5, <1>7, Zenon
  <2> QED BY <2>5, <2>6
<1>9. Counts(g, M, t, s)
  BY <1>7, <1>8 DEF Counts
<1> QED BY <1>6, <1>9

\* The count up to n does not depend on what comes after.
LEMMA CountsAgree ==
    ASSUME NEW M, NEW s \in Seq(M), NEW r \in Seq(M), NEW t, NEW f, NEW g,
           Counts(f, M, t, s), Counts(g, M, t, r),
           Len(s) <= Len(r), \A i \in 1 .. Len(s) : r[i] = s[i]
    PROVE  \A n \in 0 .. Len(s) : g[n] = f[n]
<1> DEFINE S == {n \in Nat : n <= Len(s) => g[n] = f[n]}
<1>0. Len(s) \in Nat /\ Len(r) \in Nat
  OBVIOUS
<1>1. 0 \in S
  BY DEF Counts
<1>2. ASSUME NEW n \in Nat, n \in S PROVE n + 1 \in S
  <2> SUFFICES ASSUME n + 1 <= Len(s) PROVE g[n + 1] = f[n + 1]
    OBVIOUS
  <2>1. n + 1 \in 1 .. Len(s) /\ n + 1 \in 1 .. Len(r) /\ n + 1 - 1 = n /\ g[n] = f[n]
    BY <1>0, <1>2
  <2>2. f[n + 1] = IF s[n + 1].to = t THEN Append(f[n], s[n + 1]) ELSE f[n]
    BY <2>1 DEF Counts
  <2>3. g[n + 1] = IF r[n + 1].to = t THEN Append(g[n], r[n + 1]) ELSE g[n]
    BY <2>1 DEF Counts
  <2>4. r[n + 1] = s[n + 1]
    BY <2>1
  <2> QED BY <2>1, <2>2, <2>3, <2>4
<1>3. Nat \subseteq S
  <2> HIDE DEF S
  <2> QED BY <1>1, <1>2, SetInduction
<1>4. \A n \in 0 .. Len(s) : n \in Nat /\ n <= Len(s)
  BY <1>0
<1> QED BY <1>3, <1>4

\* There is none among no messages.
LEMMA ForEmpty ==
    ASSUME NEW t PROVE For(t, <<>>) = <<>>
<1>1. PICK f : Counts(f, {}, t, <<>>) /\ For(t, <<>>) = f[Len(<<>>)]
  <2>1. <<>> \in Seq({})
    OBVIOUS
  <2> QED BY <2>1, ForCounts
<1> QED BY <1>1 DEF Counts

\* The messages for t when one more has come.
LEMMA ForAppend ==
    ASSUME NEW M, NEW s \in Seq(M), NEW e \in M, NEW t
    PROVE  /\ For(t, s) \in Seq(M)
           /\ For(t, Append(s, e)) = IF e.to = t THEN Append(For(t, s), e) ELSE For(t, s)
<1> DEFINE r == Append(s, e)
<1>1. /\ r \in Seq(M) /\ Len(s) \in Nat /\ Len(r) = Len(s) + 1
      /\ \A i \in 1 .. Len(s) : r[i] = s[i]
      /\ r[Len(s) + 1] = e
  BY AppendProperties
<1> HIDE DEF r
<1>2. PICK f : Counts(f, M, t, s) /\ For(t, s) = f[Len(s)]
  BY ForCounts
<1>3. PICK g : Counts(g, M, t, r) /\ For(t, r) = g[Len(r)]
  BY <1>1, ForCounts
<1>4. \A n \in 0 .. Len(s) : g[n] = f[n]
  <2>1. Len(s) <= Len(r)
    BY <1>1
  <2> QED BY <1>1, <1>2, <1>3, <2>1, CountsAgree
<1>5. Len(s) \in 0 .. Len(s) /\ Len(s) + 1 \in 1 .. Len(r) /\ Len(s) + 1 - 1 = Len(s)
  BY <1>1
<1>6. g[Len(s) + 1] = IF e.to = t THEN Append(g[Len(s)], e) ELSE g[Len(s)]
  BY <1>1, <1>3, <1>5 DEF Counts
<1>7. f[Len(s)] \in Seq(M)
  BY <1>2, <1>5 DEF Counts
<1>8. For(t, r) = IF e.to = t THEN Append(For(t, s), e) ELSE For(t, s)
  BY <1>1, <1>2, <1>3, <1>4, <1>5, <1>6
<1> QED BY <1>2, <1>7, <1>8 DEF r

\* The messages for t when the first is taken off.
LEMMA ForHead ==
    ASSUME NEW M, NEW s \in Seq(M), s # <<>>, NEW t
    PROVE  For(t, s) = IF Head(s).to = t THEN <<Head(s)>> \o For(t, Tail(s))
                       ELSE For(t, Tail(s))
<1> DEFINE h == Head(s)
           r == Tail(s)
           pre == IF h.to = t THEN <<h>> ELSE <<>>
           N == Len(r)
<1>1. /\ h \in M /\ r \in Seq(M) /\ N \in Nat /\ Len(s) = N + 1
      /\ h = s[1] /\ \A i \in 1 .. N : r[i] = s[i + 1]
  BY HeadTailProperties
<1>2. pre \in Seq(M)
  BY <1>1
<1>3. PICK f : Counts(f, M, t, s) /\ For(t, s) = f[Len(s)]
  BY ForCounts
<1>4. PICK g : Counts(g, M, t, r) /\ For(t, r) = g[N]
  BY <1>1, ForCounts
<1> HIDE DEF h, r, N
<1> DEFINE S == {n \in Nat : n <= N => f[n + 1] = pre \o g[n]}
<1>5. 0 \in S
  <2>1. 1 \in 1 .. Len(s) /\ 1 - 1 = 0
    BY <1>1
  <2>2. f[1] = IF h.to = t THEN Append(f[0], h) ELSE f[0]
    BY <1>1, <1>3, <2>1 DEF Counts
  <2>3. f[0] = <<>> /\ g[0] = <<>>
    BY <1>3, <1>4 DEF Counts
  <2>4. f[1] = pre
    BY <2>2, <2>3
  <2>5. pre \o <<>> = pre
    <3> HIDE DEF pre
    <3> QED BY <1>2, ConcatEmptySeq
  <2> HIDE DEF pre
  <2>6. f[0 + 1] = pre \o g[0]
    BY <2>3, <2>4, <2>5
  <2> QED BY <2>6
<1>6. ASSUME NEW n \in Nat, n \in S PROVE n + 1 \in S
  <2> HIDE DEF pre
  <2> SUFFICES ASSUME n + 1 <= N PROVE f[n + 1 + 1] = pre \o g[n + 1]
    OBVIOUS
  <2>1. /\ n + 1 \in 1 .. N /\ n \in 0 .. N /\ n + 1 - 1 = n
        /\ n + 1 + 1 \in 1 .. Len(s) /\ n + 1 + 1 - 1 = n + 1
        /\ f[n + 1] = pre \o g[n]
    BY <1>1, <1>6
  <2>2. r[n + 1] = s[n + 1 + 1] /\ r[n + 1] \in M
    <3>1. N = Len(r) /\ r[n + 1] = s[n + 1 + 1]
      BY <1>1, <2>1 DEF N
    <3>2. r \in Seq(M) /\ n + 1 \in 1 .. Len(r)
      BY <1>1, <2>1, <3>1
    <3> QED BY <3>1, <3>2
  <2>3. f[n + 1 + 1] = IF r[n + 1].to = t THEN Append(f[n + 1], r[n + 1]) ELSE f[n + 1]
    <3> DEFINE k == n + 1 + 1
    <3>1. k \in 1 .. Len(s) /\ k - 1 = n + 1 /\ s[k] = r[n + 1]
      BY <2>1, <2>2
    <3> HIDE DEF k
    <3>2. f[k] = IF s[k].to = t THEN Append(f[k - 1], s[k]) ELSE f[k - 1]
      BY <1>3, <3>1 DEF Counts
    <3>3. f[k] = IF r[n + 1].to = t THEN Append(f[n + 1], r[n + 1]) ELSE f[n + 1]
      BY <3>1, <3>2
    <3> QED BY <3>3 DEF k
  <2>4. g[n + 1] = IF r[n + 1].to = t THEN Append(g[n], r[n + 1]) ELSE g[n]
    BY <1>4, <2>1 DEF Counts, N
  <2>5. g[n] \in Seq(M)
    BY <1>4, <2>1 DEF Counts, N
  <2>6. Append(pre \o g[n], r[n + 1]) = pre \o Append(g[n], r[n + 1])
    <3> DEFINE x == g[n]
               e == r[n + 1]
    <3>1. x \in Seq(M) /\ e \in M
      BY <2>2, <2>5
    <3> HIDE DEF x, e
    <3>2. pre \o x \in Seq(M) /\ <<e>> \in Seq(M)
      BY <1>2, <3>1
    <3>3. Append(pre \o x, e) = (pre \o x) \o <<e>> /\ Append(x, e) = x \o <<e>>
      BY <3>1, <3>2, AppendIsConcat
    <3>4. (pre \o x) \o <<e>> = pre \o (x \o <<e>>)
      BY <1>2, <3>1, <3>2, ConcatAssociative
    <3>5. Append(pre \o x, e) = pre \o Append(x, e)
      BY <3>3, <3>4
    <3> QED BY <3>5 DEF x, e
  <2> QED BY <2>1, <2>3, <2>4, <2>6
<1>7. Nat \subseteq S
  <2> HIDE DEF S
  <2> QED BY <1>5, <1>6, SetInduction
<1>8. For(t, s) = pre \o For(t, r)
  <2>1. N \in Nat /\ N <= N /\ Len(s) = N + 1
    BY <1>1
  <2>2. N \in S
    BY <1>7, <2>1
  <2> HIDE DEF pre
  <2>3. f[N + 1] = pre \o g[N]
    BY <2>1, <2>2
  <2> QED BY <1>3, <1>4, <2>1, <2>3
<1>9. For(t, r) \in Seq(M)
  <2>1. N \in 0 .. N
    BY <1>1
  <2> QED BY <1>4, <2>1 DEF Counts, N
<1>10. <<>> \o For(t, r) = For(t, r)
  BY <1>9, ConcatEmptySeq
<1> QED BY <1>8, <1>10 DEF pre, h, r

-----------------------------------------------------------------------------
(* What is true of the logger at all times.                                  *)

Messages == [by : Writers, no : Nat, to : Targets]

\* Everything that was pushed is a message, and there is a file for each that
\* is not written yet.
MessagesAreTyped ==
    /\ files \in [DOMAIN files -> Seq(Messages)]
    /\ queue \in Seq(Messages) /\ remains \in Seq(Messages) /\ pushed \in Seq(Messages)
    /\ \A i \in 1 .. Len(queue) : queue[i].to \in DOMAIN files

\* The map of the files is as Logger::init has left it.
StreamsAreSorted ==
    /\ streams \in Maps /\ streams.keys # <<>>
    /\ ToSet(streams.keys) = DOMAIN files

\* Only when the worker has returned does exit() take messages from the queue.
ExitIsAlone ==
    /\ main \in {"remains", "exited"} => worker = "done"
    /\ remains # <<>> => main \in {"remains", "exited"}

Inv == MessagesAreTyped /\ StreamsAreSorted /\ ExitIsAlone /\ NothingLost

\* The number of a message is a number.
LEMMA CountIsNat ==
    ASSUME pushed \in Seq(Messages), NEW w PROVE Count(w) \in Nat
<1> DEFINE T == {i \in DOMAIN pushed : pushed[i].by = w}
<1>1. DOMAIN pushed = 1 .. Len(pushed) /\ Len(pushed) \in Nat
  OBVIOUS
<1>2. IsFiniteSet(1 .. Len(pushed))
  BY <1>1, FS_Interval
<1>3. IsFiniteSet(T)
  <2>1. T \subseteq 1 .. Len(pushed)
    BY <1>1
  <2> QED BY <1>2, <2>1, FS_Subset
<1>4. Cardinality(T) \in Nat
  BY <1>3, FS_CardinalityType
<1> QED BY <1>4 DEF Count

\* The program starts so.
LEMMA InitInv == Init => Inv
<1> SUFFICES ASSUME Init PROVE Inv
  OBVIOUS
<1>1. PICK order \in Opened :
         /\ streams = StreamsOf(order)
         /\ files = [t \in {order[i] : i \in DOMAIN order} |-> <<>>]
  BY DEF Init
<1>2. order \in Seq(Nat) /\ order # <<>> /\ IsInjective(order)
  BY LogAssumption
<1>3. queue = <<>> /\ remains = <<>> /\ pushed = <<>> /\ main = "run"
  BY DEF Init
<1>4. MessagesAreTyped
  BY <1>1, <1>3 DEF MessagesAreTyped
<1>5. StreamsAreSorted
  BY <1>1, <1>2, StreamsOfOrder DEF StreamsAreSorted
<1>6. ExitIsAlone
  BY <1>3 DEF ExitIsAlone
<1>7. NothingLost
  <2>1. \A t : For(t, <<>>) = <<>>
    BY ForEmpty
  <2>2. \A t \in DOMAIN files : files[t] = <<>>
    BY <1>1
  <2>3. <<>> \o <<>> \o <<>> = <<>>
    OBVIOUS
  <2> QED BY <1>3, <2>1, <2>2, <2>3 DEF NothingLost
<1> QED BY <1>4, <1>5, <1>6, <1>7 DEF Inv

\* One message more at the end of the last of three parts.
LEMMA AppendToParts ==
    ASSUME NEW M, NEW a \in Seq(M), NEW b \in Seq(M), NEW c \in Seq(M), NEW e \in M
    PROVE  a \o b \o Append(c, e) = Append(a \o b \o c, e)
<1> DEFINE d == a \o b
<1>1. d \in Seq(M) /\ <<e>> \in Seq(M)
  OBVIOUS
<1> HIDE DEF d
<1>2. d \o c \in Seq(M)
  BY <1>1
<1>3. Append(c, e) = c \o <<e>> /\ Append(d \o c, e) = (d \o c) \o <<e>>
  BY <1>2, AppendIsConcat
<1>4. (d \o c) \o <<e>> = d \o (c \o <<e>>)
  BY <1>1, ConcatAssociative
<1>5. d \o Append(c, e) = Append(d \o c, e)
  BY <1>3, <1>4
<1> QED BY <1>5 DEF d

\* The first message of the last part goes to the end of the part before.
LEMMA MoveBetweenParts ==
    ASSUME NEW M, NEW a \in Seq(M), NEW b \in Seq(M), NEW e \in M
    PROVE  Append(a, e) \o b = a \o (<<e>> \o b)
<1>1. Append(a, e) = a \o <<e>> /\ <<e>> \in Seq(M)
  BY AppendIsConcat
<1>2. (a \o <<e>>) \o b = a \o (<<e>> \o b)
  BY <1>1, ConcatAssociative
<1> QED BY <1>1, <1>2

\* A push puts its message at the end of the queue and of all messages.
LEMMA PushInv == ASSUME Inv, NEW w \in Writers, Push(w) PROVE Inv'
<1>1. PICK t \in Targets \intersect DOMAIN files :
         LET e == [by |-> w, no |-> Count(w), to |-> t]
         IN  queue' = Append(queue, e) /\ pushed' = Append(pushed, e)
  BY DEF Push
<1> DEFINE e == [by |-> w, no |-> Count(w), to |-> t]
<1>2. /\ queue \in Seq(Messages) /\ pushed \in Seq(Messages)
      /\ \A i \in 1 .. Len(queue) : queue[i].to \in DOMAIN files
  BY DEF Inv, MessagesAreTyped
<1>3. e \in Messages /\ e.to = t /\ t \in DOMAIN files
  BY <1>2, CountIsNat DEF Messages
<1>4. queue' = Append(queue, e) /\ pushed' = Append(pushed, e)
  BY <1>1
<1> HIDE DEF e
<1>5. /\ main \in {"run", "stopping", "join"} /\ worker' = Woken
      /\ files' = files /\ streams' = streams /\ remains' = remains /\ main' = main
  BY DEF Push
<1>6. MessagesAreTyped'
  <2>1. /\ queue' \in Seq(Messages) /\ pushed' \in Seq(Messages)
        /\ Len(queue') = Len(queue) + 1 /\ queue'[Len(queue) + 1] = e
        /\ \A i \in 1 .. Len(queue) : queue'[i] = queue[i]
    BY <1>2, <1>3, <1>4, AppendProperties
  <2>2. ASSUME NEW i \in 1 .. Len(queue') PROVE queue'[i].to \in DOMAIN files
    <3>1. i \in 1 .. Len(queue) \/ i = Len(queue) + 1
      BY <1>2, <2>1
    <3> QED BY <1>2, <1>3, <2>1, <3>1
  <2> QED BY <1>5, <2>1, <2>2 DEF Inv, MessagesAreTyped
<1>7. StreamsAreSorted'
  BY <1>5 DEF Inv, StreamsAreSorted
<1>8. ExitIsAlone'
  BY <1>5 DEF Inv, ExitIsAlone
<1>9. NothingLost'
  <2>1. ASSUME NEW u \in DOMAIN files
        PROVE  files[u] \o For(u, remains) \o For(u, queue') = For(u, pushed')
    <3>1. /\ files[u] \in Seq(Messages) /\ remains \in Seq(Messages)
          /\ files[u] \o For(u, remains) \o For(u, queue) = For(u, pushed)
      BY DEF Inv, MessagesAreTyped, NothingLost
    <3>2. /\ For(u, queue) \in Seq(Messages)
          /\ For(u, queue') = IF e.to = u THEN Append(For(u, queue), e) ELSE For(u, queue)
          /\ For(u, pushed') = IF e.to = u THEN Append(For(u, pushed), e) ELSE For(u, pushed)
      <4>1. /\ For(u, queue) \in Seq(Messages)
            /\ For(u, queue') = IF e.to = u THEN Append(For(u, queue), e) ELSE For(u, queue)
        BY <1>2, <1>3, <1>4, ForAppend
      <4>2. For(u, pushed') = IF e.to = u THEN Append(For(u, pushed), e) ELSE For(u, pushed)
        BY <1>2, <1>3, <1>4, ForAppend
      <4> QED BY <4>1, <4>2
    <3>3. For(u, remains) \in Seq(Messages)
      BY <1>3, <3>1, ForAppend
    <3>4. files[u] \o For(u, remains) \o Append(For(u, queue), e)
            = Append(files[u] \o For(u, remains) \o For(u, queue), e)
      <4> DEFINE a == files[u]
                 b == For(u, remains)
                 c == For(u, queue)
      <4>1. a \in Seq(Messages) /\ b \in Seq(Messages) /\ c \in Seq(Messages)
        BY <3>1, <3>2, <3>3
      <4> HIDE DEF a, b, c
      <4>2. a \o b \o Append(c, e) = Append(a \o b \o c, e)
        <5>1. e \in Messages
          BY <1>3
        <5> QED BY <4>1, <5>1, AppendToParts
      <4> QED BY <4>2 DEF a, b, c
    <3> QED BY <3>1, <3>2, <3>4
  <2> QED BY <1>5, <2>1 DEF NothingLost
<1> QED BY <1>6, <1>7, <1>8, <1>9 DEF Inv

\* The worker writes the front of the queue to the file of its target.
LEMMA WriteFrontInv == ASSUME Inv, WriteFront PROVE Inv'
<1>1. /\ worker = "write" /\ streams' = streams /\ main' = main
      /\ remains' = remains /\ pushed' = pushed
  BY DEF WriteFront, WorkerOnly
<1>2. main \notin {"remains", "exited"} /\ remains = <<>>
  BY <1>1 DEF Inv, ExitIsAlone
<1>3. CASE queue = <<>> /\ queue' = queue /\ files' = files
  BY <1>1, <1>2, <1>3
     DEF Inv, MessagesAreTyped, StreamsAreSorted, ExitIsAlone, NothingLost
<1>4. CASE queue # <<>> /\ UNCHANGED worker
           /\ queue' = Tail(queue)
           /\ files' = [files EXCEPT
                          ![streams.vals[TryFirst(streams, 1, Head(queue).to) + 1]] =
                             Append(@, Head(queue))]
  <2> DEFINE h == Head(queue)
             u == h.to
  <2>1. /\ files \in [DOMAIN files -> Seq(Messages)] /\ queue \in Seq(Messages)
        /\ \A i \in 1 .. Len(queue) : queue[i].to \in DOMAIN files
    BY DEF Inv, MessagesAreTyped
  <2>2. /\ h \in Messages /\ h = queue[1] /\ 1 \in 1 .. Len(queue)
        /\ Tail(queue) \in Seq(Messages) /\ Len(Tail(queue)) = Len(queue) - 1
        /\ \A i \in 1 .. Len(Tail(queue)) : Tail(queue)[i] = queue[i + 1]
    BY <1>4, <2>1, HeadTailProperties
  <2>3. u \in DOMAIN files
    BY <2>1, <2>2
  <2>4. streams.vals[TryFirst(streams, 1, u) + 1] = u
    <3>1. /\ streams \in Maps /\ streams.keys # <<>> /\ ToSet(streams.keys) = DOMAIN files
      BY DEF Inv, StreamsAreSorted
    <3>2. Sorted(streams) /\ streams.vals = streams.keys
      BY <3>1 DEF Maps, Increasing, Sorted
    <3>3. u \in ToSet(streams.keys) /\ u \in Nat
      BY <2>3, <3>1, <3>2 DEF Sorted, ToSet
    <3>4. TryFirst(streams, 1, u) = BinarySearch(streams, u)
      BY <3>2, <3>3, TryFirstSearches
    <3>5. streams.keys[BinarySearch(streams, u) + 1] = u
      BY <3>2, <3>3, SearchResult
    <3> QED BY <3>2, <3>4, <3>5
  <2> HIDE DEF h, u
  <2>5. files' = [files EXCEPT ![u] = Append(@, h)]
    BY <1>4, <2>4 DEF h, u
  <2>6. DOMAIN files' = DOMAIN files
    BY <2>5
  <2>7. MessagesAreTyped'
    <3>1. files[u] \in Seq(Messages) /\ Append(files[u], h) \in Seq(Messages)
      BY <2>1, <2>2, <2>3
    <3>2. files' \in [DOMAIN files -> Seq(Messages)]
      BY <2>1, <2>3, <2>5, <3>1
    <3>3. ASSUME NEW i \in 1 .. Len(queue') PROVE queue'[i].to \in DOMAIN files
      <4>1. i + 1 \in 1 .. Len(queue) /\ queue'[i] = queue[i + 1]
        BY <1>4, <2>1, <2>2
      <4> QED BY <2>1, <4>1
    <3> QED BY <1>1, <1>4, <2>2, <2>6, <3>2, <3>3 DEF Inv, MessagesAreTyped
  <2>8. StreamsAreSorted'
    BY <1>1, <2>6 DEF Inv, StreamsAreSorted
  <2>9. ExitIsAlone'
    BY <1>1, <1>2 DEF Inv, ExitIsAlone
  <2>10. NothingLost'
    <3>1. ASSUME NEW t \in DOMAIN files
          PROVE  files'[t] \o For(t, remains) \o For(t, queue') = For(t, pushed)
      <4>1. /\ files[t] \in Seq(Messages)
            /\ files[t] \o For(t, remains) \o For(t, queue) = For(t, pushed)
        BY <2>1 DEF Inv, NothingLost
      <4>2. For(t, remains) = <<>>
        BY <1>2, ForEmpty
      <4>3. For(t, queue) = IF u = t THEN <<h>> \o For(t, queue') ELSE For(t, queue')
        BY <1>4, <2>1, ForHead DEF h, u
      <4>4. For(t, queue') \in Seq(Messages)
        BY <1>4, <2>2, ForAppend
      <4>5. files[t] \o <<>> = files[t] /\ files'[t] \o <<>> = files'[t]
        <5>1. files'[t] \in Seq(Messages)
          BY <2>6, <2>7 DEF MessagesAreTyped
        <5> QED BY <4>1, <5>1, ConcatEmptySeq
      <4>6. CASE t = u
        <5>1. files'[t] = Append(files[t], h)
          BY <2>1, <2>5, <4>6
        <5>2. Append(files[t], h) \o For(t, queue') = files[t] \o (<<h>> \o For(t, queue'))
          BY <2>2, <4>1, <4>4, MoveBetweenParts
        <5> QED BY <4>1, <4>2, <4>3, <4>5, <4>6, <5>1, <5>2
      <4>7. CASE t # u
        <5>1. files'[t] = files[t]
          BY <2>1, <2>5, <4>7
        <5> QED BY <4>1, <4>2, <4>3, <4>5, <4>7, <5>1
      <4> QED BY <4>6, <4>7
    <3> QED BY <1>1, <1>2, <2>6, <3>1 DEF NothingLost
  <2> QED BY <2>7, <2>8, <2>9, <2>10 DEF Inv
<1>5. CASE queue # <<>> /\ worker' = "aborted" /\ queue' = queue /\ files' = files
  BY <1>1, <1>2, <1>5
     DEF Inv, MessagesAreTyped, StreamsAreSorted, ExitIsAlone, NothingLost
<1> QED BY <1>3, <1>4, <1>5 DEF WriteFront

\* exit() writes the front of the queue to the exit file.
LEMMA RemainsInv == ASSUME Inv, RemainsOnExit PROVE Inv'
<1>1. /\ main = "remains" /\ worker' = worker /\ streams' = streams
      /\ files' = files /\ pushed' = pushed
  BY DEF RemainsOnExit, MainOnly
<1>2. worker = "done"
  BY <1>1 DEF Inv, ExitIsAlone
<1>3. CASE queue = <<>> /\ main' = "exited" /\ UNCHANGED <<queue, remains>>
  BY <1>1, <1>2, <1>3
     DEF Inv, MessagesAreTyped, StreamsAreSorted, ExitIsAlone, NothingLost
<1>4. CASE queue # <<>> /\ remains' = Append(remains, Head(queue))
           /\ queue' = Tail(queue) /\ UNCHANGED main
  <2> DEFINE h == Head(queue)
  <2>1. /\ queue \in Seq(Messages) /\ remains \in Seq(Messages)
        /\ files \in [DOMAIN files -> Seq(Messages)]
        /\ \A i \in 1 .. Len(queue) : queue[i].to \in DOMAIN files
    BY DEF Inv, MessagesAreTyped
  <2>2. /\ h \in Messages
        /\ Tail(queue) \in Seq(Messages) /\ Len(Tail(queue)) = Len(queue) - 1
        /\ \A i \in 1 .. Len(Tail(queue)) : Tail(queue)[i] = queue[i + 1]
    BY <1>4, <2>1, HeadTailProperties
  <2> HIDE DEF h
  <2>3. remains' = Append(remains, h)
    BY <1>4 DEF h
  <2>4. MessagesAreTyped'
    <3>1. ASSUME NEW i \in 1 .. Len(queue') PROVE queue'[i].to \in DOMAIN files
      <4>1. i + 1 \in 1 .. Len(queue) /\ queue'[i] = queue[i + 1]
        BY <1>4, <2>1, <2>2
      <4> QED BY <2>1, <4>1
    <3>2. remains' \in Seq(Messages)
      BY <2>1, <2>2, <2>3
    <3> QED BY <1>1, <1>4, <2>2, <3>1, <3>2 DEF Inv, MessagesAreTyped
  <2>5. StreamsAreSorted'
    BY <1>1 DEF Inv, StreamsAreSorted
  <2>6. ExitIsAlone'
    BY <1>1, <1>2, <1>4 DEF ExitIsAlone
  <2>7. NothingLost'
    <3>1. ASSUME NEW t \in DOMAIN files
          PROVE  files[t] \o For(t, remains') \o For(t, queue') = For(t, pushed)
      <4> DEFINE a == files[t]
                 b == For(t, remains)
                 c == For(t, queue')
      <4>1. a \in Seq(Messages) /\ a \o b \o For(t, queue) = For(t, pushed)
        BY <2>1 DEF Inv, NothingLost
      <4>2. b \in Seq(Messages)
            /\ For(t, remains') = IF h.to = t THEN Append(b, h) ELSE b
        BY <2>1, <2>2, <2>3, ForAppend
      <4>3. For(t, queue) = IF h.to = t THEN <<h>> \o c ELSE c
        BY <1>4, <2>1, ForHead DEF h
      <4>4. c \in Seq(Messages)
        BY <1>4, <2>2, ForAppend
      <4> HIDE DEF a, b, c
      <4>5. CASE h.to = t
        <5>1. a \o b \in Seq(Messages)
          BY <4>1, <4>2
        <5>2. Append(a \o b, h) \o c = (a \o b) \o (<<h>> \o c)
          <6> DEFINE d == a \o b
          <6>1. d \in Seq(Messages)
            BY <5>1
          <6> HIDE DEF d
          <6>2. Append(d, h) \o c = d \o (<<h>> \o c)
            BY <2>2, <4>4, <6>1, MoveBetweenParts, Zenon
          <6> QED BY <6>2 DEF d
        <5>3. a \o Append(b, h) = Append(a \o b, h)
          <6>1. Append(b, h) = b \o <<h>> /\ Append(a \o b, h) = (a \o b) \o <<h>>
            BY <2>2, <4>2, <5>1, AppendIsConcat
          <6>2. <<h>> \in Seq(Messages)
            BY <2>2
          <6>3. (a \o b) \o <<h>> = a \o (b \o <<h>>)
            BY <4>1, <4>2, <6>2, ConcatAssociative
          <6> QED BY <6>1, <6>3
        <5>4. a \o For(t, remains') \o c = For(t, pushed)
          BY <4>1, <4>2, <4>3, <4>5, <5>2, <5>3
        <5> QED BY <5>4 DEF a, c
      <4>6. CASE h.to # t
        <5>1. a \o For(t, remains') \o c = For(t, pushed)
          BY <4>1, <4>2, <4>3, <4>6
        <5> QED BY <5>1 DEF a, c
      <4> QED BY <4>5, <4>6
    <3>2. main' # "exited"
      BY <1>1, <1>4
    <3> QED BY <1>1, <3>1, <3>2 DEF NothingLost
  <2> QED BY <2>4, <2>5, <2>6, <2>7 DEF Inv
<1> QED BY <1>3, <1>4 DEF RemainsOnExit

\* No other step moves a message.
LEMMA OtherInv ==
    ASSUME Inv, UNCHANGED <<streams, queue, files, remains, pushed>>,
           main' = "exited" => main = "exited",
           main' = "remains" => main = "remains" \/ (main = "join" /\ worker = "done"),
           main \in {"remains", "exited"} => main' = main,
           worker = "done" => worker' = "done"
    PROVE  Inv'
<1>1. MessagesAreTyped' /\ StreamsAreSorted' /\ ExitIsAlone'
  BY DEF Inv, MessagesAreTyped, StreamsAreSorted, ExitIsAlone
<1>2. NothingLost'
  BY DEF Inv, NothingLost
<1> QED BY <1>1, <1>2 DEF Inv

\* Every step of the program keeps it so.
LEMMA StepInv == ASSUME Inv, [Next]_vars PROVE Inv'
<1>1. ASSUME NEW w \in Writers, Push(w) PROVE Inv'
  BY <1>1, PushInv
<1>2. CASE Loop
  BY <1>2, OtherInv DEF Loop, WorkerOnly
<1>3. CASE Predicate
  BY <1>3, OtherInv DEF Predicate, WorkerOnly
<1>4. CASE Wait
  BY <1>4, OtherInv DEF Wait, WorkerOnly
<1>5. CASE SpuriousWake
  BY <1>5, OtherInv DEF SpuriousWake, WorkerOnly
<1>6. CASE WriteFront
  BY <1>6, WriteFrontInv
<1>7. CASE RequestStop
  BY <1>7, OtherInv DEF RequestStop, MainOnly
<1>8. CASE Notify
  BY <1>8, OtherInv DEF Notify, MainOnly, Woken
<1>9. CASE Joined
  BY <1>9, OtherInv DEF Joined, MainOnly
<1>10. CASE RemainsOnExit
  BY <1>10, RemainsInv
<1>11. CASE UNCHANGED vars
  BY <1>11, OtherInv DEF vars
<1> QED
  BY <1>1, <1>2, <1>3, <1>4, <1>5, <1>6, <1>7, <1>8, <1>9, <1>10, <1>11
     DEF Next, Work, End

\* It is so at all times.
LEMMA Invariance == Spec => []Inv
<1>1. Init => Inv
  BY InitInv
<1>2. Inv /\ [Next]_vars => Inv'
  BY StepInv
<1> QED BY <1>1, <1>2, PTL DEF Spec

\* log_impl::push, work and Logger::exit: for any number of threads and of
\* messages, what was pushed is, in this order, in the file of its target, in
\* the exit file or in the queue, each message in one of them; and when exit()
\* has returned the queue is empty.
THEOREM NothingIsLost == Spec => []NothingLost
<1>1. Inv => NothingLost
  BY DEF Inv
<1> QED BY <1>1, Invariance, PTL

\* cvk::flat_map: in a sorted map the bisection finds every key and no other,
\* and so does the search after the erasure of one key.
LEMMA SortedIsSearched ==
    ASSUME NEW m, Sorted(m), m.vals = m.keys, NEW k \in Nat
    PROVE  LET keys == ToSet(m.keys)
               i == BinarySearch(m, k)
               r == Removed(m, k)
           IN  /\ k \in keys => i # NotFound /\ m.vals[i + 1] = k /\ TryFirst(m, 1, k) = i
               /\ k \notin keys => i = NotFound
               /\ k \in keys /\ Len(m.keys) > 1 =>
                    \A j \in keys : BinarySearch(r, j) = NotFound <=> j = k
<1> DEFINE keys == ToSet(m.keys)
           i == BinarySearch(m, k)
           r == Removed(m, k)
<1>1. ASSUME k \in keys PROVE i # NotFound /\ m.vals[i + 1] = k /\ TryFirst(m, 1, k) = i
  <2>1. i \in 0 .. Len(m.keys) - 1 /\ m.keys[i + 1] = k
    BY <1>1, SearchResult
  <2>2. TryFirst(m, 1, k) = i
    BY <1>1, TryFirstSearches
  <2>3. i # NotFound
    BY <2>1 DEF NotFound, Sorted
  <2> QED BY <2>1, <2>2, <2>3
<1>2. k \notin keys => i = NotFound
  BY SearchResult
<1>3. ASSUME k \in keys, Len(m.keys) > 1, NEW j \in keys
      PROVE  BinarySearch(r, j) = NotFound <=> j = k
  <2>1. /\ Increasing(r.keys) /\ Len(r.keys) = Len(m.keys) - 1
        /\ ToSet(r.keys) = keys \ {k}
    BY <1>3, RemovedKeeps
  <2>2. Sorted(r)
    <3>1. Len(r.keys) > 0
      BY <1>3, <2>1 DEF Sorted
    <3> QED BY <2>1, <3>1 DEF Increasing, Sorted
  <2>3. j \in Nat
    BY DEF Sorted, ToSet
  <2> HIDE DEF r
  <2>4. CASE j = k
    <3>1. j \notin ToSet(r.keys)
      BY <2>1, <2>4
    <3> QED BY <2>2, <2>3, <2>4, <3>1, SearchResult
  <2>5. CASE j # k
    <3>1. j \in ToSet(r.keys)
      BY <2>1, <2>5
    <3>2. BinarySearch(r, j) \in 0 .. Len(r.keys) - 1
      BY <2>2, <2>3, <3>1, SearchResult
    <3>3. BinarySearch(r, j) # NotFound
      BY <2>2, <3>2 DEF NotFound, Sorted
    <3> QED BY <2>5, <3>3
  <2> QED BY <2>4, <2>5
<1> QED BY <1>1, <1>2, <1>3

\* Logger::init with any files in any order leaves a map in which the search is
\* right, whatever is logged.
THEOREM SearchIsRight == Spec => []SearchFinds
<1>1. Inv => SearchFinds
  <2> SUFFICES ASSUME Inv, NEW k \in 0 .. 9
               PROVE  LET keys == ToSet(streams.keys)
                          i == BinarySearch(streams, k)
                          r == Removed(streams, k)
                      IN  /\ k \in keys => /\ i # NotFound /\ streams.vals[i + 1] = k
                                           /\ TryFirst(streams, 1, k) = i
                          /\ k \notin keys => i = NotFound
                          /\ k \in keys /\ Len(streams.keys) > 1 =>
                               \A j \in keys : BinarySearch(r, j) = NotFound <=> j = k
    BY DEF SearchFinds
  <2>1. Sorted(streams) /\ streams.vals = streams.keys
    BY DEF Inv, StreamsAreSorted, Maps, Increasing, Sorted
  <2>2. k \in Nat
    OBVIOUS
  <2> QED BY <2>1, <2>2, SortedIsSearched
<1> QED BY <1>1, Invariance, PTL
=============================================================================
