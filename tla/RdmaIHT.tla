------------------------------ MODULE RdmaIHT ------------------------------
(***************************************************************************)
(* RdmaIHT, the hash table in remote memory.  Each client has an object of *)
(* its own, with a cache of P-Lists, and shares only the tree.             *)
(*                                                                         *)
(* A P-List is named by the bucket indices that lead to it from the root.  *)
(* A client looks at the bucket as it was when the P-List was read, and    *)
(* that may be before it had the lock.  Only this bucket of the P-List it  *)
(* has read matters to it, so that is all of curr the model keeps.         *)
(*                                                                         *)
(* An operation on remote memory that is waited for is one step, because   *)
(* it returns after its completion (MemoryPool).  The write that unlocks a *)
(* bucket is not waited for: the adapter executes it later, and fetches    *)
(* what it writes, from the one buffer a client has for lock words, only   *)
(* then.  The operations of a client on one node are executed in order, so *)
(* that one that is waited for comes after all earlier ones to its node.   *)
(* Whoever holds the lock of a bucket is alone with its E-List, in place   *)
(* or as a copy that is written back.                                      *)
(*                                                                         *)
(* Three things in the code can go wrong and are recorded when they do, in *)
(* mishap: "unlock", a lock word was written that is not the one unlock    *)
(* was called with; "cache", the cache returned the P-List of another      *)
(* path; "count", rehash made an E-List in memory that was not zero.  The  *)
(* first two steps are modelled to the end.  A client whose behaviour is   *)
(* undefined goes astray: nothing more is said of it.                      *)
(***************************************************************************)
EXTENDS Integers, Sequences, FiniteSets

CONSTANTS
    Client, Key, Val,
    None,         \* std::nullopt
    ELIST_SIZE,   \* pairs in an E-List
    PLIST_SIZE,   \* buckets in the root P-List
    Hash,         \* Hash[k][level]: the mixed hash of a key at a level
    cache_depth,  \* CacheDepth
    NodeOf,       \* the node of a client, self_
    RootNode,     \* the node that called InitAsFirst
    MaxDepth,     \* bound: depth of the tree
    MaxOps        \* bound: operations of one client

ASSUME RdmaIHTAssumption ==
    /\ ELIST_SIZE \in Nat \ {0}
    /\ PLIST_SIZE \in Nat \ {0, 1}
    /\ cache_depth \in 0..3
    /\ MaxDepth \in 1..8
    /\ MaxOps \in Nat
    /\ Hash \in [Key -> [1..MaxDepth -> Nat]]
    /\ Key # {} /\ None \notin Val

\* Arithmetic that the proofs rely on: the P-Lists of every depth have buckets.
ASSUME PowersOfTwo == \A n \in 0..MaxDepth : 2^n \in Nat \ {0}

VARIABLES
    lock,    \* the lock word of every bucket
    base,    \* its pointer
    elists,  \* the E-Lists allocated so far
    home,    \* the node of every P-List
    posted,  \* the unlocking writes of a client that are not executed yet
    temp_lock, \* the buffer they are made from
    mishap,  \* history: what has gone wrong
    pc,      \* where a client is in its operation
    req,     \* the operation: op, key and val
    parent,  \* the P-List it has descended to (parent_ptr)
    bpath,   \* the buckets it has come through (bucket_path)
    seen,    \* its bucket of curr: lock and base as they were read
    cache,   \* the P-Lists it has cached, with (history) which ones these are
    ret,     \* the result
    ops      \* operations started

tree == <<lock, base, elists, home>>
late == <<posted, temp_lock>>
call == <<req, ret, ops>>
vars == <<tree, late, mishap, pc, parent, bpath, seen, cache, call>>

Request == [op : {"insert"}, key : Key, val : Val]
             \cup [op : {"contains", "remove"}, key : Key, val : {None}]

Null == [kind |-> "null", at |-> <<>>]
EPtr(i) == [kind |-> "elist", at |-> <<i>>]
PPtr(p) == [kind |-> "plist", at |-> p]

\* The size of the P-List below a path of buckets.
Count(p) == PLIST_SIZE * 2 ^ Len(p)

\* The last bucket of a P-List is never used.
level_hash(k, level, count) == Hash[k][level] % (count - 1)

Buckets(p) == {p} \X (0 .. Count(p) - 1)

\* The bucket a search for k looks at in P-List p; ctx.bucket; its place in the tree.
SearchBucket(k, p) == level_hash(k, Len(p) + 1, Count(p))
Bucket(c) == SearchBucket(req[c].key, bpath[c])
At(c) == <<parent[c], Bucket(c)>>

Word(b) == [lock |-> lock[b], base |-> base[b]]
Unread == [lock |-> "E_UNLOCKED", base |-> Null]

Init ==
    /\ lock = [b \in Buckets(<<>>) |-> "E_UNLOCKED"]
    /\ base = [b \in Buckets(<<>>) |-> Null]
    /\ elists = <<>>
    /\ home = [p \in {<<>>} |-> RootNode]
    /\ posted = [c \in Client |-> {}]
    /\ temp_lock = [c \in Client |-> "unset"]
    /\ mishap = {}
    /\ pc = [c \in Client |-> "idle"]
    /\ req = [c \in Client |-> CHOOSE r \in Request : TRUE]
    /\ parent = [c \in Client |-> <<>>]
    /\ bpath = [c \in Client |-> <<>>]
    /\ seen = [c \in Client |-> Unread]
    /\ cache = [c \in Client |-> <<>>]
    /\ ret = [c \in Client |-> None]
    /\ ops = [c \in Client |-> 0]

Go(c, label) == pc' = [pc EXCEPT ![c] = label]

\* An operation of c on the P-List it is at is executed when its earlier ones on
\* the same node are.
InOrderAt(c) == \A w \in posted[c] : home[w.at[1]] # home[parent[c]]

\* contains, insert or remove is called and do_with starts at the root.
Call(c, r) ==
    /\ pc[c] = "idle"
    /\ ops[c] < MaxOps
    /\ ops' = [ops EXCEPT ![c] = @ + 1]
    /\ req' = [req EXCEPT ![c] = r]
    /\ Go(c, "read")
    /\ UNCHANGED <<tree, late, mishap, parent, bpath, seen, cache, ret>>

-----------------------------------------------------------------------------
(* The descent.                                                             *)

\* bucket_of_cache in the layer of the path.  The stride of the third layer is
\* the size of the root, although the P-Lists above it are twice that size.
CacheSlot(p) == <<Len(p), CASE Len(p) = 0 -> 0
                            [] Len(p) = 1 -> p[1]
                            [] OTHER -> p[1] * PLIST_SIZE + p[2]>>
Hit(c) == Len(bpath[c]) < cache_depth /\ CacheSlot(bpath[c]) \in DOMAIN cache[c]

Fetched(c) == cache[c][CacheSlot(bpath[c])]

\* fetch_cache finds a P-List.
ReadCached(c) ==
    /\ pc[c] = "read"
    /\ Hit(c)
    /\ seen' = [seen EXCEPT ![c] = Fetched(c).words[Bucket(c)]]
    /\ mishap' = IF Fetched(c).of = parent[c] THEN mishap ELSE mishap \cup {"cache"}
    /\ Go(c, "look")
    /\ UNCHANGED <<tree, late, parent, bpath, cache, call>>

\* A P-List may be cached when all buckets that are in use are calcified.
Cacheable(p) ==
    /\ Len(p) < cache_depth
    /\ \A i \in 0 .. Count(p) - 2 : lock[<<p, i>>] = "P_UNLOCKED"

\* fetch_cache does not: read it, and try_cache.
ReadRemote(c) ==
    LET p    == parent[c]
        copy == [i \in 0 .. Count(p) - 1 |-> Word(<<p, i>>)]
        slot == CacheSlot(bpath[c])
    IN
    /\ pc[c] = "read"
    /\ ~ Hit(c)
    /\ InOrderAt(c)
    /\ seen' = [seen EXCEPT ![c] = copy[Bucket(c)]]
    /\ cache' = IF Cacheable(p)
                  THEN [cache EXCEPT ![c] =
                          [s \in DOMAIN @ \cup {slot} |->
                             IF s = slot THEN [of |-> p, words |-> copy] ELSE @[s]]]
                  ELSE cache
    /\ Go(c, "look")
    /\ UNCHANGED <<tree, late, mishap, parent, bpath, call>>

\* The bucket points at a P-List: go down.
Descend(c) ==
    /\ pc[c] = "look"
    /\ seen[c].lock = "P_UNLOCKED"
    /\ seen[c].base.kind = "plist"
    /\ parent' = [parent EXCEPT ![c] = seen[c].base.at]
    /\ bpath' = [bpath EXCEPT ![c] = Append(@, Bucket(c))]
    /\ Go(c, "read")
    /\ UNCHANGED <<tree, late, mishap, seen, cache, call>>

\* acquire returns true.  While the bucket is locked it spins (no step).
Acquire(c) ==
    /\ pc[c] = "look"
    /\ seen[c].lock # "P_UNLOCKED"
    /\ InOrderAt(c)
    /\ lock[At(c)] = "E_UNLOCKED"
    /\ lock' = [lock EXCEPT ![At(c)] = "E_LOCKED"]
    /\ Go(c, "locked")
    /\ UNCHANGED <<base, elists, home, late, mishap, parent, bpath, seen, cache, call>>

\* acquire returns false: the bucket was calcified after it was read.
AcquireFails(c) ==
    /\ pc[c] = "look"
    /\ seen[c].lock # "P_UNLOCKED"
    /\ InOrderAt(c)
    /\ lock[At(c)] = "P_UNLOCKED"
    /\ Go(c, "refetch")
    /\ UNCHANGED <<tree, late, mishap, parent, bpath, seen, cache, call>>

\* Mutant: the client goes on with the P-List it has.
RefetchNot(c) ==
    /\ pc[c] = "refetch"
    /\ Go(c, "look")
    /\ UNCHANGED <<tree, late, mishap, parent, bpath, seen, cache, call>>

Refetch(c) ==
    /\ pc[c] = "refetch"
    /\ seen' = [seen EXCEPT ![c] = Word(At(c))]
    /\ Go(c, "look")
    /\ UNCHANGED <<tree, late, mishap, parent, bpath, cache, call>>

\* What the client takes for a P-List is none, or it is about to use a P-List as
\* an E-List.
GoAstray(c) ==
    /\ \/ pc[c] = "look" /\ seen[c].lock = "P_UNLOCKED" /\ seen[c].base.kind # "plist"
       \/ pc[c] = "locked" /\ seen[c].base.kind = "plist"
    /\ Go(c, "astray")
    /\ UNCHANGED <<tree, late, mishap, parent, bpath, seen, cache, call>>

-----------------------------------------------------------------------------
(* The lambdas, with the bucket locked.                                     *)

Contents(ptr) == IF ptr.kind = "elist" THEN elists[ptr.at[1]] ELSE <<>>
Pairs(c) == Contents(seen[c].base)

\* The pairs of an E-List with a given key (one at most).
Positions(pairs, k) == {i \in 1..Len(pairs) : pairs[i].key = k}
Lookup(pairs, k) ==
    IF Positions(pairs, k) = {} THEN None
    ELSE pairs[CHOOSE i \in Positions(pairs, k) : TRUE].val
Found(c) == Lookup(Pairs(c), req[c].key)

Return(c, op) ==
    /\ pc[c] = "locked"
    /\ seen[c].base.kind # "plist"
    /\ req[c].op = op
    /\ ret' = [ret EXCEPT ![c] = Found(c)]
    /\ Go(c, "unlock")
    /\ UNCHANGED <<lock, home, late, mishap, parent, bpath, seen, cache, req, ops>>

\* Write the E-List.
Put(c, pairs) == elists' = [elists EXCEPT ![seen[c].base.at[1]] = pairs]

Contains(c) == Return(c, "contains") /\ UNCHANGED <<base, elists>>

\* Mutant: the copy that was changed is not written back.
RemoveUnwritten(c) == Return(c, "remove") /\ UNCHANGED <<base, elists>>

\* The last pair takes the place of the one removed.
Remove(c) ==
    /\ Return(c, "remove")
    /\ UNCHANGED base
    /\ \/ /\ Found(c) = None
          /\ UNCHANGED elists
       \/ \E i \in Positions(Pairs(c), req[c].key) :
              LET n == Len(Pairs(c))
              IN  Put(c, SubSeq([Pairs(c) EXCEPT ![i] = Pairs(c)[n]], 1, n - 1))

NewPair(c) == [key |-> req[c].key, val |-> req[c].val]

\* An E-List is allocated, the key is there already, or there is room for it.
Insert(c) ==
    /\ Return(c, "insert")
    /\ \/ /\ seen[c].base = Null
          /\ elists' = Append(elists, <<NewPair(c)>>)
          /\ base' = [base EXCEPT ![At(c)] = EPtr(Len(elists'))]
       \/ /\ Found(c) # None
          /\ UNCHANGED <<base, elists>>
       \/ /\ seen[c].base # Null
          /\ Found(c) = None
          /\ Len(Pairs(c)) < ELIST_SIZE
          /\ Put(c, Append(Pairs(c), NewPair(c)))
          /\ UNCHANGED base

\* Mutant: the pairs are distributed as if the new P-List had the parent's size.
ChildBucketOfParent(k, p) == level_hash(k, Len(p), Count(p) \div 2)

\* Where rehash puts a key in P-List p.
ChildBucket(k, p) == level_hash(k, Len(p) + 1, Count(p))

\* The n-th number of a set I, and the elements of s at the positions in I, in order.
Rank(I, j) == Cardinality({i \in I : i <= j})
Nth(I, n) == CHOOSE j \in I : Rank(I, j) = n
InOrder(s, I) == [n \in 1..Cardinality(I) |-> s[Nth(I, n)]]

\* There is no room for the pair.
Full(c) ==
    /\ pc[c] = "locked"
    /\ req[c].op = "insert"
    /\ seen[c].base.kind = "elist"
    /\ Found(c) = None
    /\ Len(Pairs(c)) >= ELIST_SIZE
    /\ Len(parent[c]) + 1 < MaxDepth

\* rehash makes a P-List of twice the size, in the memory of its own node, with an
\* E-List in each bucket that a pair goes to, and the bucket is made to point at it.
\* The counts of the E-Lists are what the allocated memory holds: zero here.
Rehash(c) ==
    LET p    == Append(parent[c], Bucket(c))
        new  == Buckets(p)
        Goes(i) == {j \in 1..Len(Pairs(c)) : ChildBucket(Pairs(c)[j].key, p) = i}
        used == {i \in 0 .. Count(p) - 1 : Goes(i) # {}}
    IN
    /\ Full(c)
    \* The E-Lists are numbered in the order of their buckets.
    /\ elists' = elists \o [n \in 1..Cardinality(used) |->
                               InOrder(Pairs(c), Goes(Nth(used, n)))]
    /\ base' = [b \in DOMAIN base \cup new |->
                  IF b = At(c) THEN PPtr(p)
                  ELSE IF b \notin new THEN base[b]
                  ELSE IF b[2] \in used THEN EPtr(Len(elists) + Rank(used, b[2])) ELSE Null]
    /\ lock' = [b \in DOMAIN lock \cup new |->
                  IF b \in new THEN "E_UNLOCKED" ELSE lock[b]]
    /\ home' = [q \in DOMAIN home \cup {p} |-> IF q = p THEN NodeOf[c] ELSE home[q]]
    /\ seen' = [seen EXCEPT ![c] = [lock |-> "P_UNLOCKED", base |-> PPtr(p)]]
    /\ Go(c, "calcify")
    /\ UNCHANGED <<late, mishap, parent, bpath, cache, call>>

\* It is not, which memory of the system allocator does not exclude: the pairs are
\* put after as many as there are said to be, in the E-List or behind it.
RehashUnset(c) ==
    /\ Full(c)
    /\ mishap' = mishap \cup {"count"}
    /\ Go(c, "astray")
    /\ UNCHANGED <<tree, late, parent, bpath, seen, cache, call>>

-----------------------------------------------------------------------------
\* Mutant: the bucket that has been rehashed is unlocked like any other.
PostUnlocked(c, status) ==
    /\ posted' = [posted EXCEPT ![c] = @ \cup {[at |-> At(c), status |-> "E_UNLOCKED"]}]
    /\ temp_lock' = [temp_lock EXCEPT ![c] = "E_UNLOCKED"]

\* unlock: the status is put into the buffer and the write is posted.
Post(c, status) ==
    /\ posted' = [posted EXCEPT ![c] = @ \cup {[at |-> At(c), status |-> status]}]
    /\ temp_lock' = [temp_lock EXCEPT ![c] = status]

\* unlock with P_UNLOCKED, and the loop of do_with goes on.
Calcify(c) ==
    /\ pc[c] = "calcify"
    /\ Post(c, "P_UNLOCKED")
    /\ Go(c, "look")
    /\ UNCHANGED <<tree, mishap, parent, bpath, seen, cache, call>>

\* unlock with E_UNLOCKED, and the operation returns; the next one has a new
\* descent_context.
Unlock(c) ==
    /\ pc[c] = "unlock"
    /\ Post(c, "E_UNLOCKED")
    /\ parent' = [parent EXCEPT ![c] = <<>>]
    /\ bpath' = [bpath EXCEPT ![c] = <<>>]
    /\ seen' = [seen EXCEPT ![c] = Unread]
    /\ Go(c, "idle")
    /\ UNCHANGED <<tree, mishap, cache, call>>

\* The adapter executes an unlocking write, with what the buffer holds now.  There
\* is one at most to each node: acquire came after those before it.
Execute(c, w) ==
    /\ w \in posted[c]
    /\ lock' = [lock EXCEPT ![w.at] = temp_lock[c]]
    /\ posted' = [posted EXCEPT ![c] = @ \ {w}]
    /\ mishap' = IF temp_lock[c] = w.status THEN mishap ELSE mishap \cup {"unlock"}
    /\ UNCHANGED <<base, elists, home, temp_lock, pc, parent, bpath, seen, cache, call>>

Step(c) == \/ ReadCached(c) \/ ReadRemote(c) \/ Descend(c)
           \/ Acquire(c) \/ AcquireFails(c) \/ Refetch(c) \/ GoAstray(c)
           \/ Contains(c) \/ Remove(c) \/ Insert(c) \/ Rehash(c) \/ RehashUnset(c)
           \/ Calcify(c) \/ Unlock(c)

Adapter(c) == \E w \in posted[c] : Execute(c, w)

Terminated ==
    /\ \A c \in Client : posted[c] = {} /\ (pc[c] = "idle" => ops[c] = MaxOps)
    /\ mishap # {} \/ \A c \in Client : pc[c] = "idle"
    /\ UNCHANGED vars

Next == \/ \E c \in Client : Step(c) \/ Adapter(c) \/ \E r \in Request : Call(c, r)
        \/ Terminated

Spec == Init /\ [][Next]_vars

\* A client inside an operation keeps running, and a write is executed at last.
FairSpec == Spec /\ \A c \in Client : WF_vars(Step(c)) /\ WF_vars(Adapter(c))

-----------------------------------------------------------------------------
\* The type of every variable; a client is always at a bucket that exists.
LockWords == {"E_LOCKED", "E_UNLOCKED", "P_UNLOCKED"}
TypeOK ==
    /\ lock \in [DOMAIN base -> LockWords]
    /\ \A b \in DOMAIN base : base[b].kind \in {"null", "elist", "plist"}
    /\ elists \in Seq(Seq([key : Key, val : Val]))
    /\ posted \in [Client -> SUBSET [at : DOMAIN base, status : LockWords]]
    /\ temp_lock \in [Client -> LockWords \cup {"unset"}]
    /\ pc \in [Client -> {"idle", "read", "look", "refetch", "locked", "unlock", "calcify"}]
    /\ req \in [Client -> Request]
    /\ \A c \in Client : At(c) \in DOMAIN base
    /\ \A c \in Client : seen[c].lock \in LockWords
    /\ ret \in [Client -> Val \cup {None}]
    /\ ops \in [Client -> 0..MaxOps]

\* The clients between acquire and unlock of a bucket, and those whose unlocking
\* write to it is on its way.
Inside(b) == {c \in Client : pc[c] \in {"locked", "unlock", "calcify"} /\ At(c) = b}
Leaving(b) == {c \in Client : \E w \in posted[c] : w.at = b}

\* A bucket is E_LOCKED exactly while one client is between acquire and unlock of
\* it or its unlocking write is on its way: no two clients change an E-List or a
\* pointer together, and no return of contains, insert or remove leaves a bucket
\* locked for good.
OneInside ==
    \A b \in DOMAIN lock :
        /\ lock[b] = "E_LOCKED" <=> Inside(b) \cup Leaving(b) # {}
        /\ \A c, d \in Inside(b) \cup Leaving(b) : c = d
        /\ Inside(b) \cap Leaving(b) = {}
        /\ \A c \in Client : \A w, v \in posted[c] : w.at = b /\ v.at = b => w = v

\* "E_UNLOCKED - [...] The bucket baseptr points to an EList.  P_UNLOCKED - The
\* bucket will always be free for manipulation because it points to a PList."
LockTellsType ==
    \A b \in DOMAIN base :
        /\ lock[b] = "P_UNLOCKED" => base[b].kind = "plist"
        /\ lock[b] = "E_UNLOCKED" => base[b].kind # "plist"

\* Whoever has locked a bucket takes its pointer for an E-List or null, and who
\* read P_UNLOCKED for a P-List, and it is, although the pointer may have been read
\* earlier: do_with never takes the memory of one for the other.
NeverMistaken ==
    \A c \in Client :
        /\ pc[c] = "locked" => seen[c].base.kind # "plist"
        /\ pc[c] = "look" /\ seen[c].lock = "P_UNLOCKED" => seen[c].base.kind = "plist"

\* What a client has in its cache is still the P-List it was made from.
CacheFresh ==
    \A c \in Client : \A s \in DOMAIN cache[c] :
        LET p == cache[c][s].of
        IN \A i \in 0 .. Count(p) - 2 : cache[c][s].words[i] = Word(<<p, i>>)

\* Until something has gone wrong, what a client holds agrees with the tree: its
\* lock excludes others, a lock word tells what the pointer is, the client uses it
\* as what it is, and what is cached has not changed.  With up to two layers cached
\* it is never the cache where things first go wrong.
ClientsOK ==
    /\ mishap = {} => TypeOK /\ OneInside /\ LockTellsType /\ NeverMistaken /\ CacheFresh
    /\ cache_depth <= 2 => mishap # {"cache"}

\* Where a search for k ends: the bucket it looks at in one of the P-Lists.
PLists == {b[1] : b \in DOMAIN base}
Reached(k) ==
    CHOOSE b \in {<<p, SearchBucket(k, p)>> : p \in PLists} :
        /\ base[b].kind # "plist"
        /\ \A n \in 1..Len(b[1]) : b[1][n] = SearchBucket(k, SubSeq(b[1], 1, n - 1))

\* A pair in the tree lies where a search for its key ends, also after "hash[ing]
\* everything from the full elist into" a P-List, until something has gone wrong.
StoredIsFound ==
    mishap = {} =>
        \A b \in DOMAIN base : \A i \in 1..Len(Contents(base[b])) :
            Reached(Contents(base[b])[i].key) = b

\* A client that has locked a bucket whose pointer has changed since it read it.
Stale(c) == pc[c] = "locked" /\ seen[c].base # base[At(c)]

\* "We locked an elist, we can read the baseptr and progress": the pointer that a
\* client uses under the lock is the pointer of the bucket.
LockedIsFresh == \A c \in Client : ~ Stale(c)

\* Until something has gone wrong, the operations are those of an atomic map, except
\* for the steps of clients that use a stale pointer: each step is one of the map's,
\* or such a client's.
Content == [k \in Key |-> Lookup(Contents(base[Reached(k)]), k)]
Status == [c \in Client |-> CASE pc[c] = "idle" -> "idle"
                              [] pc[c] = "unlock" -> "applied"
                              [] OTHER -> "called"]
Asked == [c \in Client |-> [req[c] EXCEPT !.op = IF @ = "contains" THEN "get" ELSE @]]
Map == INSTANCE KeyValueMap WITH Thread <- Client, content <- Content,
                                 status <- Status, request <- Asked
AtomicUnlessStale ==
    /\ Map!Init
    /\ [][\/ mishap' # {}
          \/ \E c \in Client : Stale(c) /\ pc'[c] # pc[c]
          \/ Map!Next]_<<Content, Status, Asked, ret>>

\* Every operation returns once the others stop calling, unless something has gone
\* wrong: no path through do_with leaves a bucket locked or descends again and again.
OperationsReturn == \A c \in Client : pc[c] # "idle" ~> pc[c] = "idle" \/ mishap # {}
=============================================================================
