---------------------------- MODULE SessionManager ----------------------------
(***************************************************************************)
(* SP_SessionManager (spserver/spsession.cpp): the table from session keys *)
(* to session objects.  A table row is allocated when the free list is     *)
(* empty; the entries of a row are chained into the free list by their     *)
(* mNext fields; remove recycles an entry and advances its mSeq, so that a *)
(* session identifier kept by a handler is recognised as stale.            *)
(*                                                                         *)
(* The manager is called by one thread only (the event loop).  Its caller, *)
(* onAccept, calls allocKey, asserts that the key is positive and calls    *)
(* put; the table's own asserts and that one end the process.              *)
(***************************************************************************)
EXTENDS Naturals, FiniteSets

CONSTANTS
    RowNum,    \* eRowNum: rows of mArray
    Col,       \* eColPerRow: entries of a row
    KeyRows,   \* rows whose keys fit the type of mFreeList: 2^16 / eColPerRow
    SeqMod,    \* 2^16: mSeq is a uint16_t
    Session,   \* session objects
    NULL,
    MaxGen     \* bound: how often one key is recycled

ASSUME RowNumAssumption == RowNum \in Nat \ {0}
ASSUME ColAssumption == Col \in Nat \ {0}
ASSUME KeyRowsAssumption == KeyRows \in Nat \ {0}
ASSUME SeqModAssumption == SeqMod \in Nat \ {0}
ASSUME MaxGenAssumption == MaxGen \in Nat

VARIABLES
    mCount, mFreeCount, mFreeList,
    mArray,    \* row -> NULL (not allocated) or column -> entry
    pending,   \* the {<<key, seq>>} between allocKey and put in onAccept
    mSid,      \* the <<key, seq>> each bound session object carries
    phase,     \* "up", "destroyed", or the assert that ended the process
    gen        \* history: how often each key was removed

vars == <<mCount, mFreeCount, mFreeList, mArray, pending, mSid, phase, gen>>

KeyMod == KeyRows * Col

Row == 0 .. RowNum - 1
Column == 0 .. Col - 1
Key == 0 .. KeyMod - 1
Seq16 == 0 .. SeqMod - 1

Entry == [mSeq : Seq16, mNext : Key, mSession : Session \cup {NULL}]

ASSUME NullAssumption ==
    NULL \notin Session /\ NULL \notin [Column -> Entry] /\ NULL \notin Key \X Seq16

RowOf(key) == key \div Col
ColOf(key) == key % Col

Allocated(key) == RowOf(key) \in Row /\ mArray[RowOf(key)] # NULL

At(key) == mArray[RowOf(key)][ColOf(key)]

\* get: the session bound to the key, and the sequence number of its entry.
Get(key) ==
    IF Allocated(key) THEN <<At(key).mSession, At(key).mSeq>> ELSE <<NULL, 0>>

\* onResponse accepts an identifier when get finds a session with its mSeq.
Resolves(key, seq) == Get(key)[1] # NULL /\ Get(key)[2] = seq

Registered == {k \in Key : Get(k)[1] # NULL}

Init ==
    /\ mCount = 0
    /\ mFreeCount = 0
    /\ mFreeList = 0
    /\ mArray = [r \in Row |-> NULL]
    /\ pending = {}
    /\ mSid = [s \in Session |-> NULL]
    /\ phase = "up"
    /\ gen = [k \in Key |-> 0]

NullRows == {r \in Row \ {0} : mArray[r] = NULL}

\* Row 0 is never used, so that key 0 can mean "none".
Avail == CHOOSE r \in NullRows : \A q \in NullRows : r <= q

\* NewRow, wrongly: the keys of a row are not cut to the type of mNext.
NewRow_Wide(r) ==
    [c \in Column |->
        [mSeq |-> 0,
         mNext |-> IF c = Col - 1 THEN mFreeList ELSE Col * r + c + 1,
         mSession |-> NULL]]

\* NewRow, wrongly: an entry is chained to itself.
NewRow_SelfChained(r) ==
    [c \in Column |->
        [mSeq |-> 0,
         mNext |-> IF c = Col - 1 THEN mFreeList ELSE (Col * r + c) % KeyMod,
         mSession |-> NULL]]

\* The loop chains the row from its last entry to its first, in uint16_t.
NewRow(r) ==
    [c \in Column |->
        [mSeq |-> 0,
         mNext |-> IF c = Col - 1 THEN mFreeList ELSE (Col * r + c + 1) % KeyMod,
         mSession |-> NULL]]

Grows == mFreeList = 0 /\ NullRows # {}

\* The head of the free list is taken off it; onAccept asserts that there is one.
TakeKey(array, list, free) ==
    LET entry == array[RowOf(list)][ColOf(list)]
    IN /\ mArray' = array
       /\ \/ /\ list > 0
             /\ pending' = {<<list, entry.mSeq>>}
             /\ mFreeList' = entry.mNext
             /\ mFreeCount' = free - 1
             /\ UNCHANGED phase
          \/ /\ list = 0
             /\ phase' = "no_key"
             /\ mFreeList' = list
             /\ mFreeCount' = free
             /\ UNCHANGED pending

\* allocKey, called by onAccept.
AllocKey ==
    /\ phase = "up" /\ pending = {}
    /\ \/ /\ Grows
          /\ TakeKey([mArray EXCEPT ![Avail] = NewRow(Avail)],
                     (Col * Avail) % KeyMod, mFreeCount + Col)
       \/ /\ ~Grows
          /\ TakeKey(mArray, mFreeList, mFreeCount)
    /\ UNCHANGED <<mCount, mSid, gen>>

\* put, with its three asserts, for the session object onAccept created.
PutAsserts(key, seq) ==
    Allocated(key) /\ At(key).mSession = NULL /\ At(key).mSeq = seq

Put ==
    /\ phase = "up"
    /\ \E p \in pending, s \in Session :
        /\ mSid[s] = NULL
        /\ phase' = IF PutAsserts(p[1], p[2]) THEN "up" ELSE "bad_put"
        /\ mArray' = [mArray EXCEPT ![RowOf(p[1])][ColOf(p[1])].mSession = s]
        /\ mSid' = [mSid EXCEPT ![s] = p]
    /\ pending' = {}
    /\ mCount' = mCount + 1
    /\ UNCHANGED <<mFreeCount, mFreeList, gen>>

\* FreedEntry, wrongly: mNext is not set.
FreedEntry_Unchained(e) ==
    [e EXCEPT !.mSeq = (@ + 1) % SeqMod, !.mSession = NULL]

\* FreedEntry, wrongly: mSeq is not advanced.
FreedEntry_SameSeq(e) ==
    [e EXCEPT !.mNext = mFreeList, !.mSession = NULL]

\* FreedEntry, wrongly: the session stays in the entry.
FreedEntry_KeepsSession(e) ==
    [e EXCEPT !.mSeq = (@ + 1) % SeqMod, !.mNext = mFreeList]

\* remove leaves the entry free, behind the old head of the free list.
FreedEntry(e) ==
    [mSeq |-> (e.mSeq + 1) % SeqMod, mNext |-> mFreeList, mSession |-> NULL]

\* remove: doError, doTimeout and doClose call it with the session's own
\* identifier, and the session object is deleted afterwards.  It does nothing
\* when the key's row is not allocated.
Remove ==
    /\ phase = "up" /\ pending = {}
    /\ \E s \in Session :
        /\ mSid[s] # NULL
        /\ LET key == mSid[s][1]
               seq == mSid[s][2]
           IN /\ Allocated(key)
              /\ gen[key] < MaxGen
              /\ phase' = IF At(key).mSeq = seq THEN "up" ELSE "bad_remove"
              /\ mArray' = [mArray EXCEPT ![RowOf(key)][ColOf(key)] = FreedEntry(@)]
              /\ mFreeList' = key
              /\ gen' = [gen EXCEPT ![key] = @ + 1]
              /\ mSid' = [mSid EXCEPT ![s] = NULL]
    /\ mFreeCount' = mFreeCount + 1
    /\ mCount' = mCount - 1
    /\ UNCHANGED pending

\* The destructor deletes every session and frees every row.
Destroy ==
    /\ phase = "up" /\ pending = {}
    /\ phase' = "destroyed"
    /\ mArray' = [r \in Row |-> NULL]
    /\ mSid' = [s \in Session |-> NULL]
    /\ gen' = [k \in Key |-> IF k \in Registered THEN gen[k] + 1 ELSE gen[k]]
    /\ UNCHANGED <<mCount, mFreeCount, mFreeList, pending>>

Next == AllocKey \/ Put \/ Remove \/ Destroy

Spec == Init /\ [][Next]_vars
-------------------------------------------------------------------------------
\* Type invariant of the table and of its caller's state.
TypeOK ==
    /\ mCount \in Nat
    /\ mFreeCount \in Nat
    /\ mFreeList \in Key
    /\ mArray \in [Row -> [Column -> Entry] \cup {NULL}]
    /\ pending \in SUBSET (Key \X Seq16)
    /\ mSid \in [Session -> (Key \X Seq16) \cup {NULL}]
    /\ phase \in {"up", "no_key", "bad_put", "bad_remove", "destroyed"}
    /\ gen \in [Key -> 0 .. MaxGen + 1]

\* f lists the free list from its head: mFreeList is its first key, each
\* mNext the key after it, and 0 ends it.
FreeListIs(f) ==
    /\ mFreeList = IF mFreeCount = 0 THEN 0 ELSE f[1]
    /\ \A i \in 1 .. mFreeCount :
        /\ f[i] # 0
        /\ Allocated(f[i])
        /\ At(f[i]).mSession = NULL
        /\ At(f[i]).mNext = IF i = mFreeCount THEN 0 ELSE f[i + 1]
    /\ \A i, j \in 1 .. mFreeCount : f[i] = f[j] => i = j
    /\ \A i \in 1 .. mFreeCount, p \in pending : f[i] # p[1]

\* While the server is up the free list is a chain of exactly mFreeCount
\* distinct keys, none of them bound to a session or held by onAccept: an
\* entry can not be handed out twice, and getFreeCount tells the truth.
FreeListExact ==
    phase = "up" => \E f \in [1 .. mFreeCount -> Key] : FreeListIs(f)

\* getCount, which onAccept compares with mMaxConnections, is the number of
\* sessions in the table.
CountExact == phase = "up" => mCount = Cardinality(Registered)

\* The asserts of put and remove never fail: the key that allocKey returned is
\* in an allocated row, is bound to no session and carries the entry's mSeq,
\* and a bound session's own mSeq is the entry's until it is removed.
AssertsHold == phase \notin {"bad_put", "bad_remove"}

\* A stale identifier is ignored: the sequence number that a key carried in
\* an earlier life resolves to the session of a later one only when the key
\* was recycled a multiple of SeqMod times in between.
StaleSidIgnored ==
    \A k \in Key : \A g \in 0 .. MaxGen :
        (g < gen[k] /\ Resolves(k, g % SeqMod)) => gen[k] - g >= SeqMod

\* spsession.hpp: allocKey returns "> 0 : OK, 0 : out of memory", so it
\* returns 0 only when every row of the table is allocated.
ZeroOnlyWhenFull == phase = "no_key" => NullRows = {}

\* SessionManager implements the registry of identities that are used once.
Registry ==
    INSTANCE SidRegistry WITH
        Gen <- 0 .. MaxGen,
        issued <- {id \in Key \X (0 .. MaxGen) :
                     \/ id[2] < gen[id[1]]
                     \/ id[2] = gen[id[1]] /\ id[1] \in Registered
                     \/ id[2] = gen[id[1]] /\ \E p \in pending : p[1] = id[1]},
        pending <- {<<p[1], gen[p[1]]>> : p \in pending},
        live <- {<<<<k, gen[k]>>, At(k).mSession>> : k \in Registered}

\* Every behaviour of the table is one of the registry: no identity, a key
\* and its recycling count, is ever bound twice.
RefinesRegistry == Registry!Spec
===============================================================================
