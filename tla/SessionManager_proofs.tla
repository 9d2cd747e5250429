------------------------- MODULE SessionManager_proofs -------------------------
(* Proofs about SessionManager. *)
EXTENDS SessionManager, FiniteSetTheorems, WellFoundedInduction, TLAPS

\* The key that allocKey puts together from a row and a column has that row and
\* that column.
LEMMA SplitKey ==
    ASSUME NEW r \in Nat, NEW c \in Column
    PROVE  /\ Col * r + c \in Nat
           /\ RowOf(Col * r + c) = r
           /\ ColOf(Col * r + c) = c
BY ColAssumption DEF Column, RowOf, ColOf

\* A key is taken apart by / and % of eColPerRow into its row and its column.
LEMMA JoinKey ==
    ASSUME NEW k \in Nat
    PROVE  /\ RowOf(k) \in Nat
           /\ ColOf(k) \in Column
           /\ k = Col * RowOf(k) + ColOf(k)
BY ColAssumption DEF Column, RowOf, ColOf

\* A key that is built from a row below KeyRows fits uint16_t.
LEMMA KeyRange ==
    ASSUME NEW r \in 0 .. KeyRows - 1, NEW c \in Column
    PROVE  Col * r + c \in Key
BY ColAssumption, KeyRowsAssumption DEF Column, Key, KeyMod

\* The row of a key fits uint16_t.
LEMMA RowRange ==
    ASSUME NEW k \in Key
    PROVE  RowOf(k) \in 0 .. KeyRows - 1
BY ColAssumption, KeyRowsAssumption DEF Key, KeyMod, RowOf

\* A number below the modulus is its own remainder.
LEMMA ModSmall ==
    ASSUME NEW m \in Nat \ {0}, NEW x \in 0 .. m - 1
    PROVE  x % m = x
OBVIOUS

\* A remainder is below the modulus.
LEMMA ModRange ==
    ASSUME NEW m \in Nat \ {0}, NEW x \in Nat
    PROVE  x % m \in 0 .. m - 1
OBVIOUS

-------------------------------------------------------------------------------
(* The inductive invariant.  While the server is up the rows in use are those *)
(* whose keys fit mFreeList, the free list is exact, and the key held by      *)
(* onAccept and the keys of the sessions agree with their entries.            *)

RowsFit == \A r \in Row : mArray[r] # NULL => r \in 1 .. KeyRows - 1

FreeChain == \E f \in [1 .. mFreeCount -> Key] : FreeListIs(f)

PendingFree ==
    /\ \A p \in pending : PutAsserts(p[1], p[2])
    /\ \A p, q \in pending : p = q

SidsBound ==
    \A s \in Session : mSid[s] # NULL =>
        /\ Allocated(mSid[s][1])
        /\ At(mSid[s][1]).mSession = s
        /\ At(mSid[s][1]).mSeq = mSid[s][2]

Counted == IsFiniteSet(Registered) /\ mCount = Cardinality(Registered)

\* mSeq counts the removals of its key, in 16 bits.
SeqCounts ==
    /\ gen \in [Key -> 0 .. MaxGen]
    /\ \A k \in Key : IF Allocated(k) THEN At(k).mSeq = gen[k] % SeqMod ELSE gen[k] = 0

SeqTold == \A k \in Key : Allocated(k) => At(k).mSeq = gen[k] % SeqMod

UpInv == RowsFit /\ FreeChain /\ PendingFree /\ SidsBound /\ Counted /\ SeqCounts

IInv ==
    /\ TypeOK
    /\ AssertsHold
    /\ SeqTold
    /\ phase = "up" => UpInv

USE NullAssumption

\* Counting on, modulo the width of mSeq: what remove does to mSeq.
LEMMA ModSucc ==
    ASSUME NEW m \in Nat \ {0}, NEW n \in Nat
    PROVE  ((n % m) + 1) % m = (n + 1) % m
<1> DEFINE q == n \div m
<1> DEFINE r == n % m
<1>1. q \in Nat /\ r \in 0 .. m - 1 /\ n = m * q + r
  OBVIOUS
<1> HIDE DEF q, r
<1>2. CASE r + 1 < m
  BY <1>1, <1>2, SplitKey
<1>3. CASE r + 1 = m
  <2>1. n + 1 = m * (q + 1) + 0
    BY <1>1, <1>3
  <2>2. (n + 1) % m = 0
    BY <1>1, <2>1, SplitKey
  <2> QED
    BY <1>3, <2>2 DEF r
<1> QED
  BY <1>1, <1>2, <1>3

\* The range of uint16_t, in keys, is not empty.
LEMMA KeyModPos == KeyMod \in Nat \ {0}
BY ColAssumption, KeyRowsAssumption DEF KeyMod

\* The entry of an allocated key.
LEMMA AtType ==
    ASSUME TypeOK, NEW k \in Key, Allocated(k)
    PROVE  /\ At(k) \in Entry
           /\ RowOf(k) \in Row
           /\ ColOf(k) \in Column
           /\ mArray[RowOf(k)] \in [Column -> Entry]
<1>1. k \in Nat
  BY KeyModPos DEF Key
<1>2. ColOf(k) \in Column
  BY <1>1, JoinKey
<1> QED
  BY <1>2 DEF TypeOK, Allocated, At

\* Two keys with the same row and column are the same key.
LEMMA SameKey ==
    ASSUME NEW k \in Key, NEW l \in Key, RowOf(k) = RowOf(l), ColOf(k) = ColOf(l)
    PROVE  k = l
<1>1. k \in Nat /\ l \in Nat
  BY KeyModPos DEF Key
<1> QED
  BY <1>1, JoinKey

\* An allocated key is not 0, which ends the free list.
LEMMA AllocatedPositive ==
    ASSUME RowsFit, NEW k \in Key, Allocated(k)
    PROVE  k # 0
<1>1. RowOf(0) = 0
  BY ColAssumption DEF RowOf
<1>2. RowOf(k) # 0
  BY DEF RowsFit, Allocated
<1> QED
  BY <1>1, <1>2

\* A write to the entry of key changes that entry and no other.
LEMMA WriteEntry ==
    ASSUME TypeOK, NEW key \in Key, Allocated(key), NEW e \in Entry,
           mArray' = [mArray EXCEPT ![RowOf(key)][ColOf(key)] = e]
    PROVE  /\ mArray' \in [Row -> [Column -> Entry] \cup {NULL}]
           /\ \A r \in Row : mArray'[r] = NULL <=> mArray[r] = NULL
           /\ \A k \in Key : Allocated(k)' <=> Allocated(k)
           /\ At(key)' = e
           /\ \A k \in Key : Allocated(k) /\ k # key => At(k)' = At(k)
<1>1. /\ RowOf(key) \in Row
      /\ ColOf(key) \in Column
      /\ mArray[RowOf(key)] \in [Column -> Entry]
  BY AtType
<1> DEFINE row == [mArray[RowOf(key)] EXCEPT ![ColOf(key)] = e]
<1>2. row \in [Column -> Entry]
  BY <1>1
<1>3. mArray' = [mArray EXCEPT ![RowOf(key)] = row]
  OBVIOUS
<1>4. mArray \in [Row -> [Column -> Entry] \cup {NULL}]
  BY DEF TypeOK
<1>5. mArray' \in [Row -> [Column -> Entry] \cup {NULL}]
  BY <1>1, <1>2, <1>3, <1>4
<1>6. \A r \in Row : mArray'[r] = IF r = RowOf(key) THEN row ELSE mArray[r]
  BY <1>3, <1>4
<1> HIDE DEF row
<1>7. \A r \in Row : mArray'[r] = NULL <=> mArray[r] = NULL
  BY <1>1, <1>2, <1>6
<1>8. \A k \in Key : Allocated(k)' <=> Allocated(k)
  BY <1>7 DEF Allocated
<1>9. At(key)' = e
  BY <1>1, <1>6 DEF At, row
<1>10. ASSUME NEW k \in Key, Allocated(k), k # key
       PROVE  At(k)' = At(k)
  <2>1. RowOf(k) \in Row /\ ColOf(k) \in Column
    BY <1>10, AtType
  <2>2. CASE RowOf(k) # RowOf(key)
    BY <1>6, <2>1, <2>2 DEF At
  <2>3. CASE RowOf(k) = RowOf(key)
    <3>1. ColOf(k) # ColOf(key)
      BY <1>10, <2>3, SameKey
    <3> QED
      BY <1>1, <1>6, <2>1, <2>3, <3>1 DEF At, row
  <2> QED
    BY <2>2, <2>3
<1> QED
  BY <1>5, <1>7, <1>8, <1>9, <1>10

\* What Registered says of one key.
LEMMA RegisteredIs ==
    Registered = {k \in Key : Allocated(k) /\ At(k).mSession # NULL}
BY DEF Registered, Get

-------------------------------------------------------------------------------
\* The constructor establishes the inductive invariant.
LEMMA InitIInv == Init => IInv
<1> SUFFICES ASSUME Init PROVE IInv
  OBVIOUS
<1>1. \A k \in Key : ~Allocated(k)
  BY DEF Init, Allocated
<1>2. TypeOK
  <2>1. 0 \in Key
    BY KeyModPos DEF Key
  <2> QED
    BY <2>1, MaxGenAssumption DEF Init, TypeOK
<1>3. FreeChain
  <2> DEFINE f == [i \in 1 .. mFreeCount |-> 0]
  <2>1. 1 .. mFreeCount = {}
    BY DEF Init
  <2>2. f \in [1 .. mFreeCount -> Key]
    BY <2>1
  <2>3. FreeListIs(f)
    BY <2>1 DEF Init, FreeListIs
  <2> QED
    BY <2>2, <2>3 DEF FreeChain
<1>4. Counted
  <2>1. Registered = {}
    BY <1>1, RegisteredIs
  <2> QED
    BY <2>1, FS_EmptySet DEF Init, Counted
<1>5. SeqCounts
  BY <1>1, MaxGenAssumption DEF Init, SeqCounts
<1> QED
  BY <1>2, <1>3, <1>4, <1>5
  DEF Init, IInv, AssertsHold, UpInv, RowsFit, PendingFree, SidsBound, SeqCounts, SeqTold

-------------------------------------------------------------------------------
(* put *)

\* put preserves the inductive invariant.
LEMMA PutIInv == IInv /\ Put => IInv'
<1> SUFFICES ASSUME IInv, Put PROVE IInv'
  OBVIOUS
<1>1. TypeOK /\ UpInv
  BY DEF IInv, Put
<1>2. PICK p \in pending, s \in Session :
        /\ mSid[s] = NULL
        /\ phase' = IF PutAsserts(p[1], p[2]) THEN "up" ELSE "bad_put"
        /\ mArray' = [mArray EXCEPT ![RowOf(p[1])][ColOf(p[1])].mSession = s]
        /\ mSid' = [mSid EXCEPT ![s] = p]
  BY DEF Put
<1> DEFINE key == p[1]
<1> DEFINE e == [At(key) EXCEPT !.mSession = s]
<1>3. pending' = {} /\ mCount' = mCount + 1 /\ UNCHANGED <<mFreeCount, mFreeList, gen>>
  BY DEF Put
<1>4. p \in Key \X Seq16 /\ key \in Key
  BY <1>1 DEF TypeOK
<1>5. Allocated(key) /\ At(key).mSession = NULL /\ At(key).mSeq = p[2]
  BY <1>1 DEF UpInv, PendingFree, PutAsserts
<1>6. phase' = "up"
  BY <1>2, <1>5 DEF PutAsserts
<1>7. At(key) \in Entry
  BY <1>1, <1>4, <1>5, AtType
<1>8. e \in Entry /\ e.mSession = s /\ e.mSeq = At(key).mSeq /\ e.mNext = At(key).mNext
  BY <1>7 DEF Entry
<1>9. mArray' = [mArray EXCEPT ![RowOf(key)][ColOf(key)] = e]
  BY <1>2 DEF At
<1> HIDE DEF e, key
<1>10. /\ mArray' \in [Row -> [Column -> Entry] \cup {NULL}]
       /\ \A r \in Row : mArray'[r] = NULL <=> mArray[r] = NULL
       /\ \A k \in Key : Allocated(k)' <=> Allocated(k)
       /\ At(key)' = e
       /\ \A k \in Key : Allocated(k) /\ k # key => At(k)' = At(k)
  BY <1>1, <1>4, <1>5, <1>8, <1>9, WriteEntry
<1>11. TypeOK'
  BY <1>1, <1>2, <1>3, <1>4, <1>6, <1>10 DEF TypeOK
<1>12. RowsFit'
  BY <1>1, <1>10 DEF UpInv, RowsFit
<1>13. FreeChain'
  <2>1. PICK f \in [1 .. mFreeCount -> Key] : FreeListIs(f)
    BY <1>1 DEF UpInv, FreeChain
  <2>2. \A i \in 1 .. mFreeCount : f[i] # key
    BY <2>1 DEF FreeListIs, key
  <2>3. FreeListIs(f)'
    BY <1>3, <1>10, <2>1, <2>2 DEF FreeListIs
  <2> QED
    BY <1>3, <2>1, <2>3 DEF FreeChain
<1>14. PendingFree'
  BY <1>3 DEF PendingFree
<1>15. SidsBound'
  <2> SUFFICES ASSUME NEW t \in Session, NEW sid, sid = mSid'[t], sid # NULL
               PROVE  /\ Allocated(sid[1])'
                      /\ At(sid[1])'.mSession = t
                      /\ At(sid[1])'.mSeq = sid[2]
    BY DEF SidsBound, Allocated, At
  <2>1. CASE t = s
    <3>1. sid = p
      BY <1>1, <1>2, <2>1 DEF TypeOK
    <3> QED
      BY <1>4, <1>5, <1>8, <1>10, <2>1, <3>1 DEF key
  <2>2. CASE t # s
    <3>1. sid = mSid[t] /\ sid \in Key \X Seq16
      BY <1>1, <1>2, <2>2 DEF TypeOK
    <3>2. Allocated(sid[1]) /\ At(sid[1]).mSession = t /\ At(sid[1]).mSeq = sid[2]
      BY <1>1, <3>1 DEF UpInv, SidsBound
    <3>3. sid[1] # key /\ sid[1] \in Key
      BY <1>5, <3>1, <3>2
    <3> QED
      BY <1>10, <3>2, <3>3
  <2> QED
    BY <2>1, <2>2
<1>16. Counted'
  <2>1. Registered' = {k \in Key : Allocated(k)' /\ At(k)'.mSession # NULL}
    BY DEF Registered, Get
  <2>2. Registered' = Registered \cup {key}
    BY <1>4, <1>5, <1>8, <1>10, <2>1, RegisteredIs
  <2>3. key \notin Registered
    BY <1>5, RegisteredIs
  <2> QED
    BY <1>1, <1>3, <2>2, <2>3, FS_AddElement DEF UpInv, Counted
<1>17. SeqCounts'
  BY <1>1, <1>3, <1>5, <1>8, <1>10 DEF UpInv, SeqCounts
<1> QED
  BY <1>6, <1>11, <1>12, <1>13, <1>14, <1>15, <1>16, <1>17 DEF IInv, AssertsHold, UpInv, SeqCounts, SeqTold

-------------------------------------------------------------------------------
(* remove *)

\* remove preserves the inductive invariant.
LEMMA RemoveIInv == IInv /\ Remove => IInv'
<1> SUFFICES ASSUME IInv, Remove PROVE IInv'
  OBVIOUS
<1>1. TypeOK /\ UpInv
  BY DEF IInv, Remove
<1>2. PICK s \in Session :
        /\ mSid[s] # NULL
        /\ Allocated(mSid[s][1])
        /\ gen[mSid[s][1]] < MaxGen
        /\ phase' = IF At(mSid[s][1]).mSeq = mSid[s][2] THEN "up" ELSE "bad_remove"
        /\ mArray' = [mArray EXCEPT ![RowOf(mSid[s][1])][ColOf(mSid[s][1])] = FreedEntry(@)]
        /\ mFreeList' = mSid[s][1]
        /\ gen' = [gen EXCEPT ![mSid[s][1]] = @ + 1]
        /\ mSid' = [mSid EXCEPT ![s] = NULL]
  BY Zenon DEF Remove
<1>3. PICK key \in Key : key = mSid[s][1]
  BY <1>1, <1>2 DEF TypeOK
<1> DEFINE e == FreedEntry(At(key))
<1>4. /\ pending = {}
      /\ pending' = {}
      /\ mCount' = mCount - 1
      /\ mFreeCount' = mFreeCount + 1
  BY DEF Remove
<1>5. Allocated(key) /\ At(key).mSession = s /\ At(key).mSeq = mSid[s][2]
  BY <1>1, <1>2, <1>3 DEF UpInv, SidsBound
<1>6. phase' = "up"
  BY <1>2, <1>3, <1>5
<1>7. At(key) \in Entry
  BY <1>1, <1>5, AtType
<1>8. /\ e \in Entry
      /\ e.mSession = NULL
      /\ e.mNext = mFreeList
      /\ e.mSeq = (At(key).mSeq + 1) % SeqMod
  BY <1>1, <1>7, SeqModAssumption DEF Entry, FreedEntry, TypeOK, Seq16
<1>9. mArray' = [mArray EXCEPT ![RowOf(key)][ColOf(key)] = e]
  BY <1>2, <1>3 DEF At
<1> HIDE DEF e
<1>10. /\ mArray' \in [Row -> [Column -> Entry] \cup {NULL}]
       /\ \A r \in Row : mArray'[r] = NULL <=> mArray[r] = NULL
       /\ \A k \in Key : Allocated(k)' <=> Allocated(k)
       /\ At(key)' = e
       /\ \A k \in Key : Allocated(k) /\ k # key => At(k)' = At(k)
  BY <1>1, <1>5, <1>8, <1>9, WriteEntry
<1>11. Counted' /\ mCount' \in Nat
  <2>1. Registered' = {k \in Key : Allocated(k)' /\ At(k)'.mSession # NULL}
    BY DEF Registered, Get
  <2>2. Registered' = Registered \ {key}
    BY <1>8, <1>10, <2>1, RegisteredIs
  <2>3. key \in Registered
    BY <1>5, RegisteredIs
  <2>4. IsFiniteSet(Registered) /\ mCount = Cardinality(Registered)
    BY <1>1 DEF UpInv, Counted
  <2>5. /\ IsFiniteSet(Registered \ {key})
        /\ Cardinality(Registered \ {key}) = Cardinality(Registered) - 1
    BY <2>3, <2>4, FS_RemoveElement
  <2>6. Cardinality(Registered \ {key}) \in Nat
    BY <2>5, FS_CardinalityType
  <2> QED
    BY <1>4, <2>2, <2>4, <2>5, <2>6 DEF Counted
<1>12. gen' \in [Key -> 0 .. MaxGen]
  <2>1. gen \in [Key -> 0 .. MaxGen] /\ gen[key] < MaxGen
    BY <1>1, <1>2, <1>3 DEF UpInv, SeqCounts
  <2>2. gen[key] + 1 \in 0 .. MaxGen
    BY <2>1, MaxGenAssumption
  <2> QED
    BY <1>2, <1>3, <2>1, <2>2
<1>13. TypeOK'
  <2>1. gen' \in [Key -> 0 .. MaxGen + 1]
    BY <1>12, MaxGenAssumption
  <2> QED
    BY <1>1, <1>2, <1>3, <1>4, <1>6, <1>10, <1>11, <2>1 DEF TypeOK
<1>14. RowsFit'
  BY <1>1, <1>10 DEF UpInv, RowsFit
<1>15. FreeChain'
  <2>1. PICK f \in [1 .. mFreeCount -> Key] : FreeListIs(f)
    BY <1>1 DEF UpInv, FreeChain
  <2>2. mFreeCount \in Nat /\ mFreeCount' = mFreeCount + 1
    BY <1>1, <1>4 DEF TypeOK
  <2>3. PICK g \in [1 .. mFreeCount' -> Key] :
          \A i \in 1 .. mFreeCount' : g[i] = IF i = 1 THEN key ELSE f[i - 1]
    <3> DEFINE h == [i \in 1 .. mFreeCount' |-> IF i = 1 THEN key ELSE f[i - 1]]
    <3>1. h \in [1 .. mFreeCount' -> Key]
      BY <2>2
    <3> QED
      BY <3>1
  <2>4. \A i \in 1 .. mFreeCount :
          /\ f[i] \in Key /\ f[i] # key /\ f[i] # 0
          /\ Allocated(f[i]) /\ At(f[i]).mSession = NULL
          /\ At(f[i]).mNext = IF i = mFreeCount THEN 0 ELSE f[i + 1]
    BY <1>5, <2>1 DEF FreeListIs
  <2>5. key # 0
    BY <1>1, <1>5, AllocatedPositive DEF UpInv
  <2>6. mFreeList = IF mFreeCount = 0 THEN 0 ELSE f[1]
    BY <2>1 DEF FreeListIs
  <2>7. ASSUME NEW i \in 1 .. mFreeCount'
        PROVE  /\ g[i] # 0
               /\ Allocated(g[i])'
               /\ At(g[i])'.mSession = NULL
               /\ At(g[i])'.mNext = IF i = mFreeCount' THEN 0 ELSE g[i + 1]
    <3>1. CASE i = 1
      <4>1. g[i] = key /\ g[i + 1] = IF mFreeCount = 0 THEN g[i + 1] ELSE f[1]
        BY <2>2, <2>3, <3>1
      <4> QED
        BY <1>5, <1>8, <1>10, <2>2, <2>5, <2>6, <3>1, <4>1
    <3>2. CASE i # 1
      <4>1. /\ i - 1 \in 1 .. mFreeCount
            /\ g[i] = f[i - 1]
            /\ i # mFreeCount' => g[i + 1] = f[i - 1 + 1]
        BY <2>2, <2>3, <3>2
      <4>2. /\ f[i - 1] \in Key /\ f[i - 1] # key /\ f[i - 1] # 0
            /\ Allocated(f[i - 1]) /\ At(f[i - 1]).mSession = NULL
            /\ At(f[i - 1]).mNext = IF i - 1 = mFreeCount THEN 0 ELSE f[i - 1 + 1]
        BY <2>4, <4>1
      <4>3. i = mFreeCount' <=> i - 1 = mFreeCount
        BY <2>2
      <4> QED
        BY <1>10, <4>1, <4>2, <4>3
    <3> QED
      BY <3>1, <3>2
  <2>8. \A i, j \in 1 .. mFreeCount' : g[i] = g[j] => i = j
    <3>1. \A i, j \in 1 .. mFreeCount : f[i] = f[j] => i = j
      BY <2>1 DEF FreeListIs
    <3>2. \A i \in 1 .. mFreeCount' : i # 1 => i - 1 \in 1 .. mFreeCount /\ g[i] = f[i - 1]
      BY <2>2, <2>3
    <3>3. g[1] = key
      BY <2>2, <2>3
    <3> QED
      BY <2>4, <3>1, <3>2, <3>3
  <2>9. mFreeList' = g[1] /\ mFreeCount' # 0
    BY <1>2, <1>3, <2>2, <2>3
  <2>10. FreeListIs(g)'
    BY <1>4, <2>7, <2>8, <2>9 DEF FreeListIs
  <2> QED
    BY <2>3, <2>10 DEF FreeChain
<1>16. PendingFree'
  BY <1>4 DEF PendingFree
<1>17. SidsBound'
  <2> SUFFICES ASSUME NEW t \in Session, NEW sid, sid = mSid'[t], sid # NULL
               PROVE  /\ Allocated(sid[1])'
                      /\ At(sid[1])'.mSession = t
                      /\ At(sid[1])'.mSeq = sid[2]
    BY DEF SidsBound, Allocated, At
  <2>1. t # s /\ sid = mSid[t] /\ sid \in Key \X Seq16
    BY <1>1, <1>2 DEF TypeOK
  <2>2. Allocated(sid[1]) /\ At(sid[1]).mSession = t /\ At(sid[1]).mSeq = sid[2]
    BY <1>1, <2>1 DEF UpInv, SidsBound
  <2>3. sid[1] # key /\ sid[1] \in Key
    BY <1>5, <2>1, <2>2
  <2> QED
    BY <1>10, <2>2, <2>3
<1>18. SeqCounts'
  <2> SUFFICES ASSUME NEW k \in Key
               PROVE  IF Allocated(k)' THEN At(k)'.mSeq = gen'[k] % SeqMod ELSE gen'[k] = 0
    BY <1>12 DEF SeqCounts
  <2>1. IF Allocated(k) THEN At(k).mSeq = gen[k] % SeqMod ELSE gen[k] = 0
    BY <1>1 DEF UpInv, SeqCounts
  <2>2. gen \in [Key -> 0 .. MaxGen]
    BY <1>1 DEF UpInv, SeqCounts
  <2>3. CASE k = key
    <3>1. gen'[k] = gen[k] + 1 /\ gen[k] \in Nat
      BY <1>2, <1>3, <2>2, <2>3, MaxGenAssumption
    <3>2. ((gen[k] % SeqMod) + 1) % SeqMod = (gen[k] + 1) % SeqMod
      BY <3>1, SeqModAssumption, ModSucc
    <3> QED
      BY <1>5, <1>8, <1>10, <2>1, <2>3, <3>1, <3>2
  <2>4. CASE k # key
    BY <1>2, <1>3, <1>10, <2>1, <2>2, <2>4
  <2> QED
    BY <2>3, <2>4
<1> QED
  BY <1>6, <1>11, <1>13, <1>14, <1>15, <1>16, <1>17, <1>18 DEF IInv, AssertsHold, UpInv, SeqCounts, SeqTold

-------------------------------------------------------------------------------
(* allocKey *)

\* The loop over mArray finds the first row that is not allocated.
LEMMA AvailIsFirst ==
    ASSUME NullRows # {}
    PROVE  Avail \in NullRows /\ \A q \in NullRows : Avail <= q
<1>1. NullRows \subseteq Nat
  BY RowNumAssumption DEF NullRows, Row
<1>2. PICK x \in NullRows : \A y \in NullRows : ~(<<y, x>> \in OpToRel(<, Nat))
  BY <1>1, NatLessThanWellFounded, WFMin
<1>3. ASSUME NEW y \in NullRows PROVE x <= y
  <2>1. x \in Nat /\ y \in Nat /\ <<y, x>> \in Nat \X Nat
    BY <1>1
  <2>2. ~(y < x)
    BY <1>2, <2>1 DEF OpToRel
  <2> QED
    BY <2>1, <2>2
<1> QED
  BY <1>3 DEF Avail

\* A new row adds its own keys to the allocated ones.
LEMMA AddRow ==
    ASSUME TypeOK, NEW r \in Row, mArray[r] = NULL, NEW row \in [Column -> Entry],
           mArray' = [mArray EXCEPT ![r] = row]
    PROVE  /\ mArray' \in [Row -> [Column -> Entry] \cup {NULL}]
           /\ \A q \in Row : mArray'[q] # NULL <=> mArray[q] # NULL \/ q = r
           /\ \A k \in Key : Allocated(k)' <=> Allocated(k) \/ RowOf(k) = r
           /\ \A k \in Key : Allocated(k) => RowOf(k) # r /\ At(k)' = At(k)
           /\ \A k \in Key : RowOf(k) = r => At(k)' = row[ColOf(k)]
<1>1. mArray \in [Row -> [Column -> Entry] \cup {NULL}]
  BY DEF TypeOK
<1>2. mArray' \in [Row -> [Column -> Entry] \cup {NULL}]
  BY <1>1
<1>3. \A q \in Row : mArray'[q] = IF q = r THEN row ELSE mArray[q]
  BY <1>1
<1>4. \A q \in Row : mArray'[q] # NULL <=> mArray[q] # NULL \/ q = r
  BY <1>3
<1> QED
  BY <1>2, <1>3, <1>4 DEF Allocated, At

\* The row that allocKey has just chained has the type of a row.
LEMMA NewRowType ==
    ASSUME TypeOK, NEW r \in Nat
    PROVE  NewRow(r) \in [Column -> Entry]
<1> SUFFICES ASSUME NEW c \in Column
             PROVE  [mSeq |-> 0,
                     mNext |-> IF c = Col - 1 THEN mFreeList ELSE (Col * r + c + 1) % KeyMod,
                     mSession |-> NULL] \in Entry
  BY DEF NewRow
<1>1. Col * r + c + 1 \in Nat
  BY ColAssumption DEF Column
<1>2. (Col * r + c + 1) % KeyMod \in Key
  BY <1>1, KeyModPos, ModRange DEF Key
<1>3. 0 \in Seq16
  BY SeqModAssumption DEF Seq16
<1> QED
  BY <1>2, <1>3 DEF Entry, TypeOK

\* The free list is not empty: its head is taken.
LEMMA TakeHead ==
    ASSUME IInv, phase = "up", pending = {}, mFreeList > 0, phase' = "up",
           pending' = {<<mFreeList, At(mFreeList).mSeq>>},
           mFreeList' = At(mFreeList).mNext,
           mFreeCount' = mFreeCount - 1,
           UNCHANGED <<mArray, mCount, mSid, gen>>
    PROVE  IInv'
<1>1. TypeOK /\ UpInv
  BY DEF IInv
<1>2. PICK f \in [1 .. mFreeCount -> Key] : FreeListIs(f)
  BY <1>1 DEF UpInv, FreeChain
<1>3. mFreeCount \in Nat /\ mFreeCount # 0 /\ mFreeList = f[1] /\ mFreeList \in Key
  BY <1>1, <1>2 DEF FreeListIs, TypeOK
<1>4. \A i \in 1 .. mFreeCount :
        /\ f[i] # 0
        /\ Allocated(f[i])
        /\ At(f[i]).mSession = NULL
        /\ At(f[i]).mNext = IF i = mFreeCount THEN 0 ELSE f[i + 1]
  BY <1>2 DEF FreeListIs
<1>5. \A i, j \in 1 .. mFreeCount : f[i] = f[j] => i = j
  BY <1>2 DEF FreeListIs
<1>6. /\ Allocated(mFreeList)
      /\ At(mFreeList).mSession = NULL
      /\ At(mFreeList).mNext = IF 1 = mFreeCount THEN 0 ELSE f[2]
  BY <1>3, <1>4
<1>7. At(mFreeList) \in Entry
  BY <1>1, <1>3, <1>6, AtType
<1>8. /\ \A k \in Key : Allocated(k)' <=> Allocated(k)
      /\ \A k \in Key : At(k)' = At(k)
  BY DEF Allocated, At
<1>9. TypeOK'
  BY <1>1, <1>3, <1>7 DEF TypeOK, Entry
<1>10. FreeChain'
  <2>1. PICK g \in [1 .. mFreeCount' -> Key] : \A i \in 1 .. mFreeCount' : g[i] = f[i + 1]
    <3> DEFINE h == [i \in 1 .. mFreeCount' |-> f[i + 1]]
    <3>1. h \in [1 .. mFreeCount' -> Key]
      BY <1>3
    <3> QED
      BY <3>1
  <2>2. \A i \in 1 .. mFreeCount' :
          i + 1 \in 1 .. mFreeCount /\ (i + 1 = mFreeCount <=> i = mFreeCount')
    BY <1>3
  <2>3. ASSUME NEW i \in 1 .. mFreeCount'
        PROVE  /\ g[i] # 0
               /\ Allocated(g[i])'
               /\ At(g[i])'.mSession = NULL
               /\ At(g[i])'.mNext = IF i = mFreeCount' THEN 0 ELSE g[i + 1]
    <3>1. g[i] = f[i + 1] /\ g[i] \in Key /\ i + 1 \in 1 .. mFreeCount
      BY <2>1, <2>2
    <3>2. i # mFreeCount' => g[i + 1] = f[i + 1 + 1]
      BY <1>3, <2>1
    <3> QED
      BY <1>4, <1>8, <2>2, <3>1, <3>2
  <2>4. \A i, j \in 1 .. mFreeCount' : g[i] = g[j] => i = j
    BY <1>3, <1>5, <2>1, <2>2
  <2>5. \A i \in 1 .. mFreeCount', p \in pending' : g[i] # p[1]
    <3>1. \A i \in 1 .. mFreeCount' : g[i] # f[1]
      BY <1>3, <1>5, <2>1, <2>2
    <3> QED
      BY <1>3, <3>1
  <2>6. mFreeList' = IF mFreeCount' = 0 THEN 0 ELSE g[1]
    BY <1>3, <1>6, <2>1
  <2>7. FreeListIs(g)'
    BY <2>3, <2>4, <2>5, <2>6 DEF FreeListIs
  <2> QED
    BY <2>7 DEF FreeChain
<1>11. PendingFree'
  <2>1. PutAsserts(mFreeList, At(mFreeList).mSeq)
    BY <1>6 DEF PutAsserts
  <2>2. ASSUME NEW p \in pending' PROVE PutAsserts(p[1], p[2])'
    BY <2>1 DEF PutAsserts, Allocated, At
  <2> QED
    BY <2>2 DEF PendingFree, PutAsserts, Allocated, At
<1>12. RowsFit' /\ SidsBound' /\ Counted' /\ SeqCounts'
  BY <1>1 DEF UpInv, RowsFit, SidsBound, Counted, SeqCounts, Registered, Get, Allocated, At
<1> QED
  BY <1>9, <1>10, <1>11, <1>12 DEF IInv, AssertsHold, UpInv, SeqCounts, SeqTold

\* The first row that is not allocated is one whose keys fit mFreeList, or the
\* one after it, whose first key is cut to 0.
LEMMA AvailFits ==
    ASSUME RowsFit, NullRows # {}
    PROVE  /\ Avail \in Row \ {0} /\ mArray[Avail] = NULL
           /\ Avail \in 1 .. KeyRows
           /\ Avail = KeyRows => (Col * Avail) % KeyMod = 0
<1>1. Avail \in NullRows /\ \A q \in NullRows : Avail <= q
  BY AvailIsFirst
<1>2. Avail \in Row \ {0} /\ mArray[Avail] = NULL
  BY <1>1 DEF NullRows
<1>3. CASE KeyRows \in Row
  <2>1. KeyRows \in NullRows
    BY <1>3, KeyRowsAssumption DEF RowsFit, NullRows
  <2> QED
    BY <1>1, <1>2, <2>1, ColAssumption, KeyRowsAssumption, RowNumAssumption DEF Row, KeyMod
<1>4. CASE KeyRows \notin Row
  BY <1>2, <1>4, KeyRowsAssumption, RowNumAssumption DEF Row
<1> QED
  BY <1>2, <1>3, <1>4

\* The free list is empty and a row whose keys fit is added: its first key is
\* taken and the others are the free list.
LEMMA TakeFromNewRow ==
    ASSUME IInv, phase = "up", pending = {}, mFreeList = 0, phase' = "up",
           NEW r \in Row, r \in 1 .. KeyRows - 1, mArray[r] = NULL,
           mArray' = [mArray EXCEPT ![r] = NewRow(r)],
           pending' = {<<Col * r, 0>>},
           mFreeList' = NewRow(r)[0].mNext,
           mFreeCount' = (mFreeCount + Col) - 1,
           UNCHANGED <<mCount, mSid, gen>>
    PROVE  IInv'
<1>1. TypeOK /\ UpInv
  BY DEF IInv
<1>2. mFreeCount = 0
  <2>1. PICK f \in [1 .. mFreeCount -> Key] : FreeListIs(f)
    BY <1>1 DEF UpInv, FreeChain
  <2> QED
    BY <1>1, <2>1 DEF FreeListIs, TypeOK
<1>3. r \in Nat /\ r \in 0 .. KeyRows - 1
  BY KeyRowsAssumption
<1>4. NewRow(r) \in [Column -> Entry]
  BY <1>1, <1>3, NewRowType
<1>5. /\ mArray' \in [Row -> [Column -> Entry] \cup {NULL}]
      /\ \A q \in Row : mArray'[q] # NULL <=> mArray[q] # NULL \/ q = r
      /\ \A k \in Key : Allocated(k)' <=> Allocated(k) \/ RowOf(k) = r
      /\ \A k \in Key : Allocated(k) => RowOf(k) # r /\ At(k)' = At(k)
      /\ \A k \in Key : RowOf(k) = r => At(k)' = NewRow(r)[ColOf(k)]
  BY <1>1, <1>4, AddRow
<1>6. ASSUME NEW c \in Column
      PROVE  /\ NewRow(r)[c].mSeq = 0
             /\ NewRow(r)[c].mSession = NULL
             /\ NewRow(r)[c].mNext = IF c = Col - 1 THEN 0 ELSE Col * r + (c + 1)
  <2>1. (c + 1 \in Column /\ Col * r + c + 1 = Col * r + (c + 1)) \/ c = Col - 1
    BY <1>3, ColAssumption DEF Column
  <2>2. CASE c # Col - 1
    <3>1. Col * r + (c + 1) \in Key
      BY <1>3, <2>1, <2>2, KeyRange
    <3>2. (Col * r + c + 1) % KeyMod = Col * r + (c + 1)
      BY <2>1, <2>2, <3>1, KeyModPos, ModSmall DEF Key
    <3> QED
      BY <2>2, <3>2 DEF NewRow
  <2>3. CASE c = Col - 1
    BY <2>3 DEF NewRow
  <2> QED
    BY <2>2, <2>3
<1>7. ASSUME NEW c \in Column
      PROVE  /\ Col * r + c \in Key
             /\ Col * r + c # 0
             /\ Allocated(Col * r + c)'
             /\ At(Col * r + c)' = NewRow(r)[c]
  <2>1. Col * r + c \in Key
    BY <1>3, KeyRange
  <2>2. RowOf(Col * r + c) = r /\ ColOf(Col * r + c) = c
    BY <1>3, SplitKey
  <2>3. Col * r + c # 0
    BY <1>3, ColAssumption DEF Column
  <2> QED
    BY <1>5, <2>1, <2>2, <2>3
<1>8. 0 \in Column /\ Col * r + 0 = Col * r
  BY <1>3, ColAssumption DEF Column
<1>9. Col * r \in Key /\ Allocated(Col * r)' /\ At(Col * r)' = NewRow(r)[0]
  BY <1>7, <1>8
<1>10. mFreeCount' \in Nat /\ mFreeCount' = Col - 1
  BY <1>2, ColAssumption
<1>11. TypeOK'
  <2>1. NewRow(r)[0].mNext \in Key /\ 0 \in Seq16
    BY <1>4, <1>8, SeqModAssumption DEF Entry, Seq16
  <2> QED
    BY <1>1, <1>5, <1>9, <1>10, <2>1 DEF TypeOK
<1>12. RowsFit'
  BY <1>1, <1>5 DEF UpInv, RowsFit
<1>13. FreeChain'
  <2>1. \A i \in 1 .. mFreeCount' : i \in Column /\ (i = Col - 1 <=> i = mFreeCount')
    BY <1>10, ColAssumption DEF Column
  <2>2. PICK g \in [1 .. mFreeCount' -> Key] : \A i \in 1 .. mFreeCount' : g[i] = Col * r + i
    <3> DEFINE h == [i \in 1 .. mFreeCount' |-> Col * r + i]
    <3>1. h \in [1 .. mFreeCount' -> Key]
      BY <1>7, <2>1
    <3> QED
      BY <3>1
  <2>3. ASSUME NEW i \in 1 .. mFreeCount'
        PROVE  /\ g[i] # 0
               /\ Allocated(g[i])'
               /\ At(g[i])'.mSession = NULL
               /\ At(g[i])'.mNext = IF i = mFreeCount' THEN 0 ELSE g[i + 1]
    <3>1. g[i] = Col * r + i /\ i \in Column
      BY <2>1, <2>2
    <3>2. i # mFreeCount' => g[i + 1] = Col * r + (i + 1)
      BY <1>10, <2>2
    <3>3. Col * r + i # 0 /\ Allocated(Col * r + i)' /\ At(Col * r + i)' = NewRow(r)[i]
      BY <1>7, <3>1
    <3> QED
      BY <1>6, <2>1, <3>1, <3>2, <3>3
  <2>4. \A i, j \in 1 .. mFreeCount' : g[i] = g[j] => i = j
    <3>1. Col * r \in Int
      BY <1>3, ColAssumption
    <3> QED
      BY <1>10, <2>2, <3>1
  <2>5. \A i \in 1 .. mFreeCount', p \in pending' : g[i] # p[1]
    <3>1. Col * r \in Int
      BY <1>3, ColAssumption
    <3> QED
      BY <1>10, <2>2, <3>1
  <2>6. mFreeList' = IF mFreeCount' = 0 THEN 0 ELSE g[1]
    <3>1. mFreeList' = IF 0 = Col - 1 THEN 0 ELSE Col * r + (0 + 1)
      BY <1>6, <1>8
    <3>2. mFreeCount' # 0 => 1 \in 1 .. mFreeCount' /\ 0 + 1 = 1
      BY <1>2, <1>10, ColAssumption
    <3> QED
      BY <1>2, <1>10, <2>2, <3>1, <3>2, ColAssumption
  <2>7. FreeListIs(g)'
    BY <2>3, <2>4, <2>5, <2>6 DEF FreeListIs
  <2> QED
    BY <2>7 DEF FreeChain
<1>14. PendingFree'
  <2>1. At(Col * r)'.mSession = NULL /\ At(Col * r)'.mSeq = 0
    BY <1>6, <1>8, <1>9
  <2>2. \A p \in pending' : p[1] = Col * r /\ p[2] = 0
    OBVIOUS
  <2>3. ASSUME NEW p \in pending'
        PROVE  Allocated(p[1])' /\ At(p[1])'.mSession = NULL /\ At(p[1])'.mSeq = p[2]
    BY <1>9, <2>1, <2>2
  <2>4. \A p, q \in pending' : p = q
    OBVIOUS
  <2> QED
    BY <2>3, <2>4 DEF PendingFree, PutAsserts
<1>15. SidsBound'
  <2> SUFFICES ASSUME NEW t \in Session, NEW sid, sid = mSid[t], sid # NULL
               PROVE  /\ Allocated(sid[1])'
                      /\ At(sid[1])'.mSession = t
                      /\ At(sid[1])'.mSeq = sid[2]
    BY DEF SidsBound, Allocated, At
  <2>1. sid \in Key \X Seq16
    BY <1>1 DEF TypeOK
  <2> QED
    BY <1>1, <1>5, <2>1 DEF UpInv, SidsBound
<1>16. ASSUME NEW k \in Key, RowOf(k) = r
       PROVE  Allocated(k)' /\ At(k)'.mSession = NULL /\ At(k)'.mSeq = 0 /\ ~Allocated(k)
  <2>1. ColOf(k) \in Column
    BY JoinKey, KeyModPos DEF Key
  <2> QED
    BY <1>5, <1>6, <1>16, <2>1
<1>17. Counted'
  <2>1. Registered' = {k \in Key : Allocated(k)' /\ At(k)'.mSession # NULL}
    BY DEF Registered, Get
  <2>2. Registered' = Registered
    BY <1>5, <1>16, <2>1, RegisteredIs
  <2> QED
    BY <1>1, <2>2 DEF UpInv, Counted
<1>18. SeqCounts'
  <2>1. 0 % SeqMod = 0
    BY SeqModAssumption
  <2> QED
    BY <1>1, <1>5, <1>16, <2>1 DEF UpInv, SeqCounts
<1> QED
  BY <1>11, <1>12, <1>13, <1>14, <1>15, <1>17, <1>18 DEF IInv, AssertsHold, UpInv, SeqCounts, SeqTold

\* allocKey preserves the inductive invariant, with and without a new row.
LEMMA AllocKeyIInv == IInv /\ AllocKey => IInv'
<1> SUFFICES ASSUME IInv, AllocKey PROVE IInv'
  OBVIOUS
<1>1. TypeOK /\ UpInv /\ phase = "up" /\ pending = {} /\ UNCHANGED <<mCount, mSid, gen>>
  BY DEF IInv, AllocKey
<1>2. CASE ~Grows
  <2>1. /\ mArray' = mArray
        /\ \/ /\ mFreeList > 0
              /\ pending' = {<<mFreeList, At(mFreeList).mSeq>>}
              /\ mFreeList' = At(mFreeList).mNext
              /\ mFreeCount' = mFreeCount - 1
              /\ phase' = phase
           \/ /\ phase' = "no_key"
              /\ mFreeList' = mFreeList
              /\ mFreeCount' = mFreeCount
              /\ pending' = pending
    BY <1>2 DEF AllocKey, TakeKey, At
  <2>2. CASE phase' = "no_key"
    BY <1>1, <2>1, <2>2 DEF IInv, TypeOK, AssertsHold, SeqTold, Allocated, At
  <2>3. CASE phase' # "no_key"
    BY <1>1, <2>1, <2>3, TakeHead
  <2> QED
    BY <2>2, <2>3
<1>3. CASE Grows
  <2> DEFINE list == (Col * Avail) % KeyMod
  <2>1. mFreeList = 0 /\ NullRows # {}
    BY <1>3 DEF Grows
  <2>2. /\ Avail \in Row \ {0} /\ mArray[Avail] = NULL
        /\ Avail \in 1 .. KeyRows
        /\ Avail = KeyRows => list = 0
    BY <1>1, <2>1, AvailFits DEF UpInv
  <2>3. PICK r \in Row : r = Avail
    BY <2>2
  <2>4. PICK array : array = [mArray EXCEPT ![Avail] = NewRow(Avail)]
    OBVIOUS
  <2>5. /\ mArray' = array
        /\ \/ /\ list > 0
              /\ pending' = {<<list, array[RowOf(list)][ColOf(list)].mSeq>>}
              /\ mFreeList' = array[RowOf(list)][ColOf(list)].mNext
              /\ mFreeCount' = (mFreeCount + Col) - 1
              /\ phase' = phase
           \/ /\ phase' = "no_key"
              /\ list = 0
              /\ mFreeList' = list
              /\ mFreeCount' = mFreeCount + Col
              /\ pending' = pending
    <3>1. TakeKey(array, list, mFreeCount + Col)
      BY <1>3, <2>4 DEF AllocKey
    <3> HIDE DEF list
    <3> QED
      BY <3>1 DEF TakeKey
  <2>6. r \in Nat /\ r \in 1 .. KeyRows /\ Col * r \in Nat
    BY <2>2, <2>3, ColAssumption, KeyRowsAssumption
  <2>7. NewRow(r) \in [Column -> Entry]
    BY <1>1, <2>6, NewRowType
  <2>8. CASE phase' = "no_key"
    <3>1. mArray' \in [Row -> [Column -> Entry] \cup {NULL}]
      BY <1>1, <2>3, <2>4, <2>5, <2>7 DEF TypeOK
    <3>2. list \in Key
      BY <2>3, <2>6, KeyModPos, ModRange DEF Key
    <3>3. mFreeCount' \in Nat /\ mFreeList' \in Key /\ pending' = pending
      BY <1>1, <2>5, <2>8, <3>2, ColAssumption DEF TypeOK
    <3>4. r = KeyRows
      <4> SUFFICES ASSUME r \in 0 .. KeyRows - 1, list = 0 PROVE FALSE
        BY <1>1, <2>5, <2>6, <2>8, KeyRowsAssumption
      <4>1. Col * r + 0 \in Key
        BY ColAssumption, KeyRange DEF Column
      <4>2. Col * r \in 0 .. KeyMod - 1
        BY <2>6, <4>1 DEF Key
      <4>3. (Col * r) % KeyMod = Col * r
        BY <4>2, KeyModPos, ModSmall
      <4>4. Col * r = 0
        BY <2>3, <4>3
      <4> QED
        BY <2>3, <2>6, <4>4, ColAssumption
    <3>5. SeqTold'
      <4>1. \A k \in Key : RowOf(k) # r
        BY <3>4, RowRange, KeyRowsAssumption
      <4>2. \A k \in Key : Allocated(k)' <=> Allocated(k) \/ RowOf(k) = r
        BY <1>1, <2>2, <2>3, <2>4, <2>5, <2>7, AddRow
      <4>3. \A k \in Key : Allocated(k) => At(k)' = At(k)
        BY <1>1, <2>2, <2>3, <2>4, <2>5, <2>7, AddRow
      <4> QED
        BY <1>1, <4>1, <4>2, <4>3 DEF SeqTold, IInv
    <3> QED
      BY <1>1, <2>8, <3>1, <3>3, <3>5 DEF IInv, TypeOK, AssertsHold
  <2>9. CASE phase' # "no_key"
    <3>1. list > 0
      BY <2>5, <2>9
    <3>2. r \in 1 .. KeyRows - 1
      BY <2>2, <2>3, <2>6, <3>1, KeyRowsAssumption
    <3>3. 0 \in Column /\ Col * r + 0 = Col * r
      BY <2>6, ColAssumption DEF Column
    <3>4. Col * r \in Key /\ RowOf(Col * r) = r /\ ColOf(Col * r) = 0
      <4>1. r \in 0 .. KeyRows - 1
        BY <3>2
      <4> QED
        BY <2>6, <3>3, <4>1, KeyRange, SplitKey
    <3>5. list = Col * r
      BY <2>3, <3>4, KeyModPos, ModSmall DEF Key
    <3> HIDE DEF list
    <3>6. array[r] = NewRow(r)
      BY <1>1, <2>3, <2>4 DEF TypeOK
    <3>7. NewRow(r)[0].mSeq = 0
      BY <3>3 DEF NewRow
    <3>8. /\ pending' = {<<Col * r, 0>>}
          /\ mFreeList' = NewRow(r)[0].mNext
          /\ mFreeCount' = (mFreeCount + Col) - 1
          /\ phase' = "up"
      BY <1>1, <2>5, <2>9, <3>4, <3>5, <3>6, <3>7
    <3> QED
      BY <1>1, <2>1, <2>2, <2>3, <2>4, <2>5, <3>2, <3>8, TakeFromNewRow
  <2> QED
    BY <2>8, <2>9
<1> QED
  BY <1>2, <1>3

-------------------------------------------------------------------------------
\* The destructor preserves the inductive invariant.
LEMMA DestroyIInv == IInv /\ Destroy => IInv'
<1> SUFFICES ASSUME IInv, Destroy PROVE IInv'
  OBVIOUS
<1>1. TypeOK /\ UpInv
  BY DEF IInv, Destroy
<1>2. gen' \in [Key -> 0 .. MaxGen + 1]
  <2>1. gen \in [Key -> 0 .. MaxGen]
    BY <1>1 DEF UpInv, SeqCounts
  <2>2. \A k \in Key : gen[k] \in 0 .. MaxGen + 1 /\ gen[k] + 1 \in 0 .. MaxGen + 1
    BY <2>1, MaxGenAssumption
  <2> QED
    BY <2>2 DEF Destroy
<1>3. SeqTold'
  BY DEF Destroy, SeqTold, Allocated
<1> QED
  BY <1>1, <1>2, <1>3 DEF IInv, Destroy, TypeOK, AssertsHold

\* A step that leaves the table alone preserves the inductive invariant.
LEMMA StutterIInv == IInv /\ UNCHANGED vars => IInv'
<1> SUFFICES ASSUME IInv, UNCHANGED vars PROVE IInv'
  OBVIOUS
<1> USE DEF vars
<1>1. TypeOK' /\ AssertsHold' /\ SeqTold' /\ phase' = phase
  BY DEF IInv, TypeOK, AssertsHold, SeqTold, Allocated, At
<1>2. UpInv => RowsFit' /\ PendingFree' /\ SidsBound' /\ Counted' /\ SeqCounts'
  BY DEF UpInv, RowsFit, PendingFree, SidsBound, Counted, SeqCounts,
         PutAsserts, Registered, Get, Allocated, At
<1>3. UpInv => FreeChain'
  <2> SUFFICES ASSUME NEW f \in [1 .. mFreeCount -> Key], FreeListIs(f)
               PROVE  FreeListIs(f)'
    BY DEF UpInv, FreeChain
  <2> QED
    BY DEF FreeListIs, Allocated, At
<1> QED
  BY <1>1, <1>2, <1>3 DEF IInv, UpInv

\* The inductive invariant holds in every reachable state of the table.
THEOREM Invariant == Spec => []IInv
<1>1. IInv /\ [Next]_vars => IInv'
  BY AllocKeyIInv, PutIInv, RemoveIInv, DestroyIInv, StutterIInv DEF Next
<1> QED
  BY InitIInv, <1>1, PTL DEF Spec

\* Every field keeps its type: in particular mCount never goes below 0 and a
\* key or an mNext never leaves the range of its uint16_t.
THEOREM TypeCorrect == Spec => []TypeOK
<1>1. IInv => TypeOK
  BY DEF IInv
<1> QED
  BY Invariant, <1>1, PTL

\* For a table of any size, the free list threaded through the entries by
\* allocKey and remove is a chain of exactly mFreeCount distinct unbound keys.
THEOREM FreeListCorrect == Spec => []FreeListExact
<1>1. IInv => FreeListExact
  BY DEF IInv, UpInv, FreeChain, FreeListExact
<1> QED
  BY Invariant, <1>1, PTL

\* For a table of any size, getCount is the number of registered sessions.
THEOREM CountCorrect == Spec => []CountExact
<1>1. IInv => CountExact
  BY DEF IInv, UpInv, Counted, CountExact
<1> QED
  BY Invariant, <1>1, PTL

\* For a table of any size, the asserts in put and remove can not fail.
THEOREM AssertsCorrect == Spec => []AssertsHold
<1>1. IInv => AssertsHold
  BY DEF IInv
<1> QED
  BY Invariant, <1>1, PTL

\* Two counts with the same remainder are a full turn of mSeq apart.
LEMMA ModEqual ==
    ASSUME NEW m \in Nat \ {0}, NEW x \in Nat, NEW y \in Nat, x < y, x % m = y % m
    PROVE  y - x >= m
<1> DEFINE q == x \div m
<1> DEFINE t == y \div m
<1> DEFINE z == x % m
<1>1. q \in Nat /\ t \in Nat /\ z \in 0 .. m - 1 /\ x = m * q + z /\ y = m * t + z
  OBVIOUS
<1> HIDE DEF q, t, z
<1>2. CASE t <= q
  <2>1. m * t <= m * q
    BY <1>1, <1>2
  <2> QED
    BY <1>1, <2>1
<1>3. CASE t > q
  <2>1. PICK d \in Nat : t = q + 1 + d
    <3>1. t - q - 1 \in Nat /\ t = q + 1 + (t - q - 1)
      BY <1>1, <1>3
    <3> QED
      BY <3>1
  <2>2. m * t = m * q + m + m * d /\ m * d \in Nat
    BY <1>1, <2>1
  <2>3. m * q \in Int
    BY <1>1
  <2> QED
    BY <1>1, <2>2, <2>3
<1> QED
  BY <1>1, <1>2, <1>3

\* For a table of any size, the check of mSeq in onResponse is fooled by a
\* recycled key only after a full turn of the 16-bit counter.
THEOREM StaleSidCorrect == Spec => []StaleSidIgnored
<1>1. IInv => StaleSidIgnored
  <2> SUFFICES ASSUME IInv, NEW k \in Key, NEW g \in 0 .. MaxGen,
                      g < gen[k], Resolves(k, g % SeqMod)
               PROVE  gen[k] - g >= SeqMod
    BY DEF StaleSidIgnored
  <2>1. Allocated(k) /\ At(k).mSeq = g % SeqMod
    BY DEF Resolves, Get
  <2>2. At(k).mSeq = gen[k] % SeqMod /\ gen[k] \in 0 .. MaxGen + 1
    BY <2>1 DEF IInv, SeqTold, TypeOK
  <2>3. g \in Nat /\ gen[k] \in Nat
    BY <2>2, MaxGenAssumption
  <2> QED
    BY <2>1, <2>2, <2>3, SeqModAssumption, ModEqual
<1> QED
  BY Invariant, <1>1, PTL
===============================================================================
