------------------------------ MODULE LocalIHT ------------------------------
(***************************************************************************)
(* iht_carumap, the interlocked hash table every node keeps its keys in.   *)
(*                                                                         *)
(* A P-List is named by the bucket indices that lead to it from the root;  *)
(* its depth and its size follow from the length of that path.  A bucket   *)
(* is a lock and a pointer to an E-List, which only the holder of the lock *)
(* touches, or, once calcified, to a P-List twice the size.                *)
(***************************************************************************)
EXTENDS Integers, Sequences, FiniteSets

CONSTANTS
    Thread, Key, Val,
    None,        \* no value: std::nullopt, or false
    ELIST_SIZE,  \* pairs in an E-List
    PLIST_SIZE,  \* buckets in the root P-List
    Hash,        \* Hash[k][level]: the mixed hash of a key at a level
    MaxDepth,    \* bound: depth of the tree
    MaxOps       \* bound: operations of one thread

ASSUME LocalIHTAssumption ==
    /\ ELIST_SIZE \in Nat \ {0}
    /\ PLIST_SIZE \in Nat \ {0}
    /\ MaxDepth \in Nat \ {0}
    /\ MaxOps \in Nat
    /\ Hash \in [Key -> [2 .. MaxDepth + 1 -> Nat]]
    /\ Key # {} /\ None \notin Val

\* Arithmetic that the proofs rely on: the P-Lists of every depth have buckets.
ASSUME PowersOfTwo == \A n \in 0..MaxDepth : 2^n \in Nat \ {0}

VARIABLES
    lock,  \* lock of every bucket that exists
    base,  \* what it points at
    pc,    \* where a thread is in its operation
    req,   \* the operation: op, key and val
    path,  \* the P-List it has descended to (curr)
    ret,   \* the result
    ops    \* operations started

vars == <<lock, base, pc, req, path, ret, ops>>

Request == [op : {"insert"}, key : Key, val : Val]
             \cup [op : {"get", "remove"}, key : Key, val : {None}]

\* The number of buckets of a P-List, and the depth a traversal counts for it.
Count(p) == PLIST_SIZE * 2 ^ Len(p)
Depth(p) == Len(p) + 1

level_hash(k, level, count) == Hash[k][level] % count

\* Buckets of a P-List, all of them empty and unlocked when it is made.
Buckets(p) == {p} \X (0 .. Count(p) - 1)
Null == [kind |-> "null", pairs |-> <<>>]
EList(pairs) == [kind |-> "elist", pairs |-> pairs]
PList == [kind |-> "plist", pairs |-> <<>>]

\* The bucket a traversal for k locks or passes through in P-List p.
BucketOf(k, p) == <<p, level_hash(k, Depth(p) + 1, Count(p))>>
At(t) == BucketOf(req[t].key, path[t])

Init ==
    /\ lock = [b \in Buckets(<<>>) |-> "E_UNLOCKED"]
    /\ base = [b \in Buckets(<<>>) |-> Null]
    /\ pc = [t \in Thread |-> "idle"]
    /\ req = [t \in Thread |-> CHOOSE r \in Request : TRUE]
    /\ path = [t \in Thread |-> <<>>]
    /\ ret = [t \in Thread |-> None]
    /\ ops = [t \in Thread |-> 0]

Go(t, label) == pc' = [pc EXCEPT ![t] = label]

Call(t, r) ==
    /\ pc[t] = "idle"
    /\ ops[t] < MaxOps
    /\ ops' = [ops EXCEPT ![t] = @ + 1]
    /\ req' = [req EXCEPT ![t] = r]
    /\ path' = [path EXCEPT ![t] = <<>>]
    /\ Go(t, "acquire")
    /\ UNCHANGED <<lock, base, ret>>

\* Mutant: the lock is taken without looking whether it is free.
AcquireBlindly(t) ==
    /\ pc[t] = "acquire"
    /\ lock[At(t)] # "P_UNLOCKED"
    /\ lock' = [lock EXCEPT ![At(t)] = "E_LOCKED"]
    /\ Go(t, "locked")
    /\ UNCHANGED <<base, req, path, ret, ops>>

\* acquire returns true: the load and the compare-exchange that succeeds on the
\* value loaded.  While another thread holds the lock the loop spins (no step).
Acquire(t) ==
    /\ pc[t] = "acquire"
    /\ lock[At(t)] = "E_UNLOCKED"
    /\ lock' = [lock EXCEPT ![At(t)] = "E_LOCKED"]
    /\ Go(t, "locked")
    /\ UNCHANGED <<base, req, path, ret, ops>>

\* acquire returns false: the bucket has become a P-List, go down.
Descend(t) ==
    /\ pc[t] = "acquire"
    /\ lock[At(t)] = "P_UNLOCKED"
    /\ path' = [path EXCEPT ![t] = Append(@, At(t)[2])]
    /\ UNCHANGED <<lock, base, pc, req, ret, ops>>

\* Linear search of an E-List: the position of a key, 0 when it is not there.
Position(pairs, k) ==
    IF \E i \in 1..Len(pairs) : pairs[i].key = k
      THEN CHOOSE i \in 1..Len(pairs) : pairs[i].key = k /\ \A j \in 1 .. i - 1 : pairs[j].key # k
      ELSE 0
Lookup(pairs, k) == LET i == Position(pairs, k) IN IF i = 0 THEN None ELSE pairs[i].val
Found(t) == Lookup(base[At(t)].pairs, req[t].key)

Result(t) == ret' = [ret EXCEPT ![t] = Found(t)]

\* Mutant: a failed search returns without unlocking.
GetMissLocked(t) ==
    /\ pc[t] = "locked"
    /\ req[t].op = "get"
    /\ Result(t)
    /\ Go(t, IF Found(t) = None THEN "idle" ELSE "unlock")
    /\ UNCHANGED <<lock, base, req, path, ops>>

Get(t) ==
    /\ pc[t] = "locked"
    /\ req[t].op = "get"
    /\ Result(t)
    /\ Go(t, "unlock")
    /\ UNCHANGED <<lock, base, req, path, ops>>

\* Mutant: the last pair goes whichever was found.
WithoutLast(pairs, i) == SubSeq(pairs, 1, Len(pairs) - 1)

\* The last pair takes the place of the one removed.
Without(pairs, i) == SubSeq([pairs EXCEPT ![i] = pairs[Len(pairs)]], 1, Len(pairs) - 1)

Remove(t) ==
    LET i == Position(base[At(t)].pairs, req[t].key) IN
    /\ pc[t] = "locked"
    /\ req[t].op = "remove"
    /\ Result(t)
    /\ base' = IF i = 0 THEN base ELSE [base EXCEPT ![At(t)].pairs = Without(@, i)]
    /\ Go(t, "unlock")
    /\ UNCHANGED <<lock, req, path, ops>>

\* Mutant: one pair more than there is room for.
HasRoomLate(pairs) == Len(pairs) <= ELIST_SIZE

HasRoom(pairs) == Len(pairs) < ELIST_SIZE

\* The key is present, or there is room for it (a new E-List when there is none).
Insert(t) ==
    LET r == req[t] IN
    /\ pc[t] = "locked"
    /\ r.op = "insert"
    /\ \/ /\ Found(t) # None
          /\ UNCHANGED base
       \/ /\ Found(t) = None
          /\ HasRoom(base[At(t)].pairs)
          /\ base' = [base EXCEPT ![At(t)] = EList(Append(@.pairs, [key |-> r.key, val |-> r.val]))]
    /\ Result(t)
    /\ Go(t, "unlock")
    /\ UNCHANGED <<lock, req, path, ops>>

\* The elements of s at the positions in I, in their order.
InOrder(s, I) ==
    [n \in 1..Cardinality(I) |-> s[CHOOSE j \in I : Cardinality({i \in I : i <= j}) = n]]

\* No room: rehash makes a P-List twice the size and puts the pairs into it, at
\* the buckets level_hash names for the depth and the size of the parent.
Rehash(t) ==
    LET source == base[At(t)].pairs
        p      == path[t]
        new    == Buckets(Append(p, At(t)[2]))
        Goes(i) == {j \in 1..Len(source) :
                      level_hash(source[j].key, Depth(p) + 1, Count(p)) = i}
        Dest(i) == InOrder(source, Goes(i))
    IN
    /\ pc[t] = "locked"
    /\ req[t].op = "insert"
    /\ Found(t) = None
    /\ ~ HasRoom(source)
    /\ Depth(p) < MaxDepth
    /\ base' = [b \in DOMAIN base \cup new |->
                  IF b = At(t) THEN PList
                  ELSE IF b \notin new THEN base[b]
                  ELSE IF Dest(b[2]) = <<>> THEN Null ELSE EList(Dest(b[2]))]
    /\ lock' = [b \in DOMAIN lock \cup new |->
                  IF b \in new THEN "E_UNLOCKED" ELSE lock[b]]
    /\ Go(t, "calcify")
    /\ UNCHANGED <<req, path, ret, ops>>

Calcify(t) ==
    /\ pc[t] = "calcify"
    /\ lock' = [lock EXCEPT ![At(t)] = "P_UNLOCKED"]
    /\ Go(t, "acquire")
    /\ UNCHANGED <<base, req, path, ret, ops>>

Unlock(t) ==
    /\ pc[t] = "unlock"
    /\ lock' = [lock EXCEPT ![At(t)] = "E_UNLOCKED"]
    /\ Go(t, "idle")
    /\ UNCHANGED <<base, req, path, ret, ops>>

Step(t) == \/ Acquire(t) \/ Descend(t)
           \/ Get(t) \/ Remove(t) \/ Insert(t) \/ Rehash(t)
           \/ Calcify(t) \/ Unlock(t)

Terminated ==
    /\ \A t \in Thread : pc[t] = "idle" /\ ops[t] = MaxOps
    /\ UNCHANGED vars

Next == \/ \E t \in Thread : Step(t) \/ \E r \in Request : Call(t, r)
        \/ Terminated

Spec == Init /\ [][Next]_vars

\* A thread inside an operation keeps running.
FairSpec == Spec /\ \A t \in Thread : WF_vars(Step(t))

-----------------------------------------------------------------------------
\* The type of every variable.
TypeOK ==
    /\ \A b \in DOMAIN lock : lock[b] \in {"E_LOCKED", "E_UNLOCKED", "P_UNLOCKED"}
    /\ DOMAIN base = DOMAIN lock
    /\ \A b \in DOMAIN base :
         /\ base[b].kind \in {"null", "elist", "plist"}
         /\ base[b].pairs \in Seq([key : Key, val : Val])
    /\ pc \in [Thread -> {"idle", "acquire", "locked", "unlock", "calcify"}]
    /\ req \in [Thread -> Request]
    /\ \A t \in Thread : At(t) \in DOMAIN lock
    /\ ret \in [Thread -> Val \cup {None}]
    /\ ops \in [Thread -> 0..MaxOps]

\* The threads that are between acquire and the unlocking store of a bucket.
Inside(b) == {t \in Thread : pc[t] \in {"locked", "unlock", "calcify"} /\ At(t) = b}

\* A bucket is E_LOCKED exactly while one thread is inside: no two threads touch
\* an E-List together, rehash reclaims one nobody reads, and no return of get,
\* insert or remove leaves a bucket locked.
OneInside ==
    \A b \in DOMAIN lock :
        /\ lock[b] = "E_LOCKED" <=> Inside(b) # {}
        /\ \A t, u \in Inside(b) : t = u

\* The lock word tells the type of the pointer: a bucket that may be passed
\* without locking points at a P-List, and one that may be locked does not.
LockTellsType ==
    \A b \in DOMAIN lock :
        /\ lock[b] = "P_UNLOCKED" => base[b].kind = "plist"
        /\ lock[b] = "E_UNLOCKED" => base[b].kind # "plist"

\* unchecked_insert never writes behind an E-List, from insert or from rehash.
EListFits == \A b \in DOMAIN base : Len(base[b].pairs) <= ELIST_SIZE

\* The tree is well formed at every step of every thread: lock words and pointers
\* fit together, no E-List is longer than its array, and no thread is at a bucket
\* that a P-List of its depth does not have.
TreeOK == TypeOK /\ LockTellsType /\ EListFits

\* Until a bucket has to be rehashed the table implements a map whose operations
\* are atomic: each step is one of the map's, or a bucket is calcified by now.
\* (rehash places pairs by the size and the depth of the parent, a search looks by
\* those of the child, so afterwards a stored key may be missed.)
Content == [k \in Key |-> Lookup(base[BucketOf(k, <<>>)].pairs, k)]
Status == [t \in Thread |-> CASE pc[t] = "idle" -> "idle"
                              [] pc[t] = "unlock" -> "applied"
                              [] OTHER -> "called"]
Map == INSTANCE KeyValueMap WITH content <- Content, status <- Status, request <- req
Grown == \E b \in DOMAIN base : base[b].kind = "plist"
ImplementsMap ==
    /\ Map!Init
    /\ [][Grown' \/ Map!Next]_<<Content, Status, req, ret>>

\* Every operation returns once the others stop calling: no early return of get,
\* insert or remove leaves a bucket locked, and the loop of insert ends however
\* often it has to rehash.
OperationsReturn == \A t \in Thread : pc[t] # "idle" ~> pc[t] = "idle"
=============================================================================
