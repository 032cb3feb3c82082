------------------------------ MODULE FlatMap ------------------------------
(* cvk::flat_map: two vectors, the keys sorted, searched by bisection.       *)
(* Positions count from 0, as in the code.                                   *)
EXTENDS Integers, Sequences, SequencesExt

NotFound == -1
EmptyMap == [keys |-> <<>>, vals |-> <<>>]
Key(m, i) == m.keys[i + 1]

\* Mutant of BinarySearch: the last candidate is not compared any more.
BinarySearchStops(m, key) ==
    LET find[range \in (0 .. Len(m.keys)) \X (-1 .. Len(m.keys) - 1)] ==
            LET lowId == range[1]
                highId == range[2]
                mid == lowId + (highId - lowId) \div 2
                low == IF Key(m, mid) < key THEN mid + 1 ELSE lowId
                high == IF Key(m, mid) < key THEN highId ELSE mid - 1
            IN  IF lowId > highId THEN NotFound
                ELSE IF Key(m, mid) = key THEN mid
                ELSE IF low >= high THEN NotFound
                ELSE find[<<low, high>>]
    IN  find[<<0, Len(m.keys) - 1>>]

\* The map is not empty.  mid - 1 with mid = 0 is 2^64 - 1 in the code, which
\* leaves the loop before it looks at it.
BinarySearch(m, key) ==
    LET find[range \in (0 .. Len(m.keys)) \X (-1 .. Len(m.keys) - 1)] ==
            LET lowId == range[1]
                highId == range[2]
                mid == lowId + (highId - lowId) \div 2
                low == IF Key(m, mid) < key THEN mid + 1 ELSE lowId
                high == IF Key(m, mid) < key THEN highId ELSE mid - 1
            IN  IF lowId > highId THEN NotFound
                ELSE IF Key(m, mid) = key THEN mid
                ELSE IF Key(m, mid) > key /\ mid = 0 THEN NotFound
                ELSE IF low = high
                     THEN IF Key(m, low) = key THEN low ELSE NotFound
                ELSE find[<<low, high>>]
    IN  find[<<0, Len(m.keys) - 1>>]

\* The position of the first key that is not smaller.
Place(m, key) ==
    CHOOSE i \in 0 .. Len(m.keys) :
        /\ \A j \in 0 .. i - 1 : Key(m, j) < key
        /\ i < Len(m.keys) => Key(m, i) >= key

\* A key that is there already is an exception.
Inserted(m, key, value) ==
    LET i == Place(m, key) + 1
    IN  [keys |-> InsertAt(m.keys, i, key), vals |-> InsertAt(m.vals, i, value)]

\* A key that is not there is an exception.
Removed(m, key) ==
    LET i == BinarySearch(m, key) + 1
    IN  [keys |-> RemoveAt(m.keys, i), vals |-> RemoveAt(m.vals, i)]

\* The first keys are compared one by one, then all are searched.
TryFirst(m, first, key) ==
    IF \E i \in 0 .. first - 1 : Key(m, i) = key
    THEN CHOOSE i \in 0 .. first - 1 : Key(m, i) = key
    ELSE BinarySearch(m, key)
=============================================================================
