--------------------------- MODULE RdmaIHTProofs ---------------------------
(***************************************************************************)
(* Theorems about RdmaIHT, for any number of clients, keys and operations, *)
(* any hash function and any sizes and depth of the tree.                  *)
(*                                                                         *)
(* The tree only grows: a bucket that points at a P-List points at it for  *)
(* ever.  So a client that has read such a pointer, from the P-List or     *)
(* from its cache, can rely on it without a lock, and one that has read    *)
(* anything else has to find out with acquire whether it still may use it. *)
(* What acquire does not tell it is whether an E-List it has read is still *)
(* the one of the bucket; but it was the bucket's own, and no other's.     *)
(*                                                                         *)
(* All this holds as long as nothing has gone wrong: no lock word but the  *)
(* intended one was written, the cache has returned the P-List that was    *)
(* meant, and the memory of new E-Lists was zero.  The invariant is proved *)
(* for the behaviours up to that point, with any number of cached layers.  *)
(* With two of them at most, it follows that the cache is not the first    *)
(* thing to go wrong: two paths share an entry in the third layer only.    *)
(***************************************************************************)
EXTENDS RdmaIHT, TLAPS, SequenceTheorems, FiniteSetTheorems, WellFoundedInduction

Pair == [key : Key, val : Val]
Pointer == [kind : {"null", "elist", "plist"}, at : Seq(Nat)]
Label == {"idle", "read", "look", "refetch", "locked", "unlock", "calcify"}

Types ==
    /\ base \in [DOMAIN base -> Pointer]
    /\ lock \in [DOMAIN base -> LockWords]
    /\ elists \in Seq(Seq(Pair))
    /\ posted \in [Client -> SUBSET [at : DOMAIN base, status : LockWords]]
    /\ temp_lock \in [Client -> LockWords \cup {"unset"}]
    /\ pc \in [Client -> Label]
    /\ req \in [Client -> Request]
    /\ parent \in [Client -> Seq(Nat)]
    /\ bpath \in [Client -> Seq(Nat)]
    /\ seen \in [Client -> [lock : LockWords, base : Pointer]]
    /\ cache = [c \in Client |-> cache[c]]
    /\ ret \in [Client -> Val \cup {None}]
    /\ ops \in [Client -> 0..MaxOps]

\* A P-List that exists with all its buckets; the P-List below a bucket; the bucket
\* on level n of the way to P-List p.
Exists(p) == p \in Seq(Nat) /\ Len(p) < MaxDepth /\ Buckets(p) \subseteq DOMAIN base
Below(b) == Append(b[1], b[2])
Above(p, n) == <<SubSeq(p, 1, n - 1), p[n]>>

\* A pointer to nothing, to an E-List that has been allocated, or to a P-List.
Leads(x) == x = Null \/ (\E j \in 1..Len(elists) : x = EPtr(j)) \/ x.kind = "plist"

Tree ==
    /\ \A b \in DOMAIN base : b \in Buckets(b[1]) /\ Exists(b[1]) /\ Leads(base[b])
    /\ Exists(<<>>)
    /\ \A b \in DOMAIN base :
         base[b].kind = "plist" => base[b] = PPtr(Below(b)) /\ Exists(Below(b))
    /\ \A b \in DOMAIN base : \A n \in 1..Len(b[1]) :
         Above(b[1], n) \in DOMAIN base /\ base[Above(b[1], n)].kind = "plist"

\* Where a client is.
Placed(c) ==
    /\ Exists(parent[c]) /\ bpath[c] = parent[c]
    /\ pc[c] = "idle" => parent[c] = <<>>
Positioned == \A c \in Client : Placed(c)

\* What a client that holds a lock finds, or leaves, behind it.
Holds(c) == pc[c] \in {"locked", "unlock", "calcify"}
HeldBy(c) ==
    /\ pc[c] \in {"locked", "unlock"} => base[At(c)].kind # "plist"
    /\ pc[c] = "calcify" => base[At(c)].kind = "plist" /\ seen[c].lock = "P_UNLOCKED"
    /\ pc[c] = "locked" => seen[c].lock # "P_UNLOCKED"
Held == \A c \in Client : HeldBy(c)

\* A write that is on its way is to say what the pointer is.
LateBy(c) ==
    \A w \in posted[c] :
        /\ w.status \in {"E_UNLOCKED", "P_UNLOCKED"}
        /\ w.status = "P_UNLOCKED" <=> base[w.at].kind = "plist"
Late == \A c \in Client : LateBy(c)

\* What a client knows from the bucket it has read: a P-List is there for good, and
\* a pointer to a P-List that was read before the lock word was set is one, too.
Looking(c) == pc[c] \in {"look", "locked", "calcify"}
SeenBy(c) ==
    /\ Leads(seen[c].base)
    /\ seen[c].lock = "P_UNLOCKED" =>
         /\ Exists(seen[c].base.at) /\ seen[c].base.kind = "plist"
         /\ seen[c].base.at = Below(At(c))
    /\ seen[c].lock # "P_UNLOCKED" /\ seen[c].base.kind = "plist" =>
         base[At(c)].kind = "plist"
Saw == \A c \in Client : Looking(c) => SeenBy(c)

\* Entry s of the cache of c is P-List q, which is calcified.
Copied(c, s, q) ==
    /\ s = CacheSlot(q) /\ cache[c][s].of = q
    /\ \A i \in 0 .. Count(q) - 2 :
         lock[<<q, i>>] = "P_UNLOCKED" /\ cache[c][s].words[i] = Word(<<q, i>>)
CachedBy(c) == \A s \in DOMAIN cache[c] : \E q \in PLists : Copied(c, s, q)
Cached == \A c \in Client : CachedBy(c)

\* E-List j is the one of bucket b, or it was when a client that will use it read b.
Claim(j, b) ==
    \/ b \in DOMAIN base /\ base[b] = EPtr(j)
    \/ \E c \in Client : Looking(c) /\ At(c) = b /\ seen[c].base = EPtr(j)
Owned == \A j \in 1..Len(elists) : \A b, d \in DOMAIN base : Claim(j, b) /\ Claim(j, d) => b = d

\* No key is in an E-List twice.
Unique(pairs) == \A i, j \in 1..Len(pairs) : pairs[i].key = pairs[j].key => i = j
KeysUnique == \A j \in 1..Len(elists) : Unique(elists[j])

\* A search for k passes through bucket b, or ends there.
OnPath(k, b) ==
    /\ b[2] = SearchBucket(k, b[1])
    /\ \A n \in 1..Len(b[1]) : b[1][n] = SearchBucket(k, SubSeq(b[1], 1, n - 1))
KeysOnPath ==
    /\ \A c \in Client : OnPath(req[c].key, At(c))
    /\ \A j \in 1..Len(elists) : \A b \in DOMAIN base : Claim(j, b) =>
         \A i \in 1..Len(elists[j]) : OnPath(elists[j][i].key, b)

IInv == /\ Types /\ Tree /\ LockTellsType /\ Positioned /\ Held /\ Late /\ Saw /\ Cached
        /\ OneInside /\ Owned /\ KeysUnique /\ KeysOnPath

-----------------------------------------------------------------------------
LEMMA Constants ==
    /\ ELIST_SIZE \in Nat \ {0} /\ PLIST_SIZE \in Nat \ {0, 1} /\ MaxDepth \in Nat \ {0}
    /\ cache_depth \in 0..3 /\ MaxOps \in Nat /\ Key # {} /\ None \notin Val
    /\ Hash \in [Key -> [1..MaxDepth -> Nat]]
  BY RdmaIHTAssumption DEF RdmaIHTAssumption

LEMMA RequestFields ==
    ASSUME NEW r \in Request
    PROVE  /\ r.key \in Key /\ r.op \in {"insert", "contains", "remove"}
           /\ r.op = "insert" => r.val \in Val
  BY DEF Request

LEMMA PointerKinds ==
    /\ Null \in Pointer /\ Null.kind = "null"
    /\ \A j \in Nat : EPtr(j) \in Pointer /\ EPtr(j).kind = "elist" /\ EPtr(j).at[1] = j
    /\ \A p \in Seq(Nat) : PPtr(p) \in Pointer /\ PPtr(p).kind = "plist" /\ PPtr(p).at = p
<1>1. <<>> \in Seq(Nat)
  OBVIOUS
<1>2. \A j \in Nat : <<j>> \in Seq(Nat) /\ <<j>>[1] = j
  OBVIOUS
<1>3. Null \in Pointer /\ Null.kind = "null"
  BY <1>1 DEF Null, Pointer
<1>4. \A j \in Nat : EPtr(j) \in Pointer /\ EPtr(j).kind = "elist" /\ EPtr(j).at[1] = j
  BY <1>2 DEF EPtr, Pointer
<1>5. \A p \in Seq(Nat) : PPtr(p) \in Pointer /\ PPtr(p).kind = "plist" /\ PPtr(p).at = p
  BY DEF PPtr, Pointer
<1>6. QED
  BY <1>3, <1>4, <1>5

LEMMA EPtrUnique ==
    ASSUME NEW i \in Nat, NEW j \in Nat, EPtr(i) = EPtr(j)
    PROVE  i = j
  BY PointerKinds

\* A P-List within the depth has a bucket for every key, and it is not the last.
LEMMA BucketType ==
    ASSUME NEW p \in Seq(Nat), Len(p) < MaxDepth
    PROVE  /\ Count(p) \in Nat /\ Count(p) >= 2
           /\ \A k \in Key : /\ SearchBucket(k, p) \in 0 .. Count(p) - 2
                             /\ SearchBucket(k, p) \in 0 .. Count(p) - 1
                             /\ SearchBucket(k, p) \in Nat
                             /\ <<p, SearchBucket(k, p)>> \in Buckets(p)
<1>1. Len(p) \in Nat /\ MaxDepth \in Nat /\ PLIST_SIZE \in Nat /\ PLIST_SIZE >= 2
  BY Constants
<1>2. Len(p) \in 0..MaxDepth /\ Len(p) + 1 \in 1..MaxDepth
  BY <1>1
<1>3. 2 ^ Len(p) \in Nat \ {0}
  BY <1>2, PowersOfTwo
<1>4. Count(p) \in Nat /\ Count(p) >= 2
  <2>1. \A a \in Nat, b \in Nat \ {0} : a >= 2 => a * b \in Nat /\ a * b >= 2
    OBVIOUS
  <2>2. QED
    BY <2>1, <1>1, <1>3 DEF Count
<1>5. ASSUME NEW k \in Key
      PROVE  /\ SearchBucket(k, p) \in 0 .. Count(p) - 2
             /\ SearchBucket(k, p) \in 0 .. Count(p) - 1
             /\ SearchBucket(k, p) \in Nat
             /\ <<p, SearchBucket(k, p)>> \in Buckets(p)
  <2>1. Hash[k][Len(p) + 1] \in Nat
    BY <1>2, Constants
  <2>2. \A n \in Nat, m \in Nat : m >= 2 =>
            /\ n % (m - 1) \in 0 .. m - 2 /\ n % (m - 1) \in 0 .. m - 1 /\ n % (m - 1) \in Nat
    OBVIOUS
  <2>3. SearchBucket(k, p) = Hash[k][Len(p) + 1] % (Count(p) - 1)
    BY DEF SearchBucket, level_hash
  <2>4. /\ SearchBucket(k, p) \in 0 .. Count(p) - 2
        /\ SearchBucket(k, p) \in 0 .. Count(p) - 1
        /\ SearchBucket(k, p) \in Nat
    BY <2>1, <2>2, <2>3, <1>4
  <2>5. QED
    BY <2>4 DEF Buckets
<1>6. QED
  BY <1>4, <1>5

\* The bucket depends on the level only.
LEMMA SameLevel ==
    ASSUME NEW p, NEW q, Len(p) = Len(q)
    PROVE  Count(p) = Count(q) /\ \A k : SearchBucket(k, p) = SearchBucket(k, q)
  BY DEF Count, SearchBucket

LEMMA BucketsAre ==
    ASSUME NEW p, NEW b \in Buckets(p)
    PROVE  b[1] = p /\ b[2] \in 0 .. Count(p) - 1 /\ b[2] \in Nat /\ b = <<b[1], b[2]>>
<1>1. PICK i \in 0 .. Count(p) - 1 : b = <<p, i>>
  BY DEF Buckets
<1>2. i \in Nat
  OBVIOUS
<1>3. QED
  BY <1>1, <1>2

LEMMA AppendIs ==
    ASSUME NEW p \in Seq(Nat), NEW i \in Nat
    PROVE  /\ Append(p, i) \in Seq(Nat) /\ Len(Append(p, i)) = Len(p) + 1
           /\ Append(p, i)[Len(p) + 1] = i
           /\ \A n \in 1..Len(p) : Append(p, i)[n] = p[n]
           /\ \A n \in 0..Len(p) : SubSeq(Append(p, i), 1, n) = SubSeq(p, 1, n)
           /\ SubSeq(p, 1, Len(p)) = p
<1>1. Append(p, i) \in Seq(Nat) /\ Len(Append(p, i)) = Len(p) + 1 /\ Len(p) \in Nat
      /\ Append(p, i)[Len(p) + 1] = i
  OBVIOUS
<1>2. \A n \in 1..Len(p) : Append(p, i)[n] = p[n]
  BY SMTT(30)
<1> DEFINE q == Append(p, i)
<1> HIDE DEF q
<1>3. ASSUME NEW n \in 0..Len(p)
      PROVE  SubSeq(q, 1, n) = SubSeq(p, 1, n)
  <2>1. \A m \in 1..n : q[m] = p[m]
    BY <1>1, <1>2 DEF q
  <2>2. SubSeq(q, 1, n) = [m \in 1..n |-> q[m]] /\ SubSeq(p, 1, n) = [m \in 1..n |-> p[m]]
    BY <1>1 DEF q
  <2>3. QED
    BY <2>1, <2>2
<1>4. SubSeq(p, 1, Len(p)) = p
  OBVIOUS
<1>5. QED
  BY <1>1, <1>2, <1>3, <1>4 DEF q

\* Where the buckets and the clients are.
Located(c) ==
    /\ At(c) = <<parent[c], SearchBucket(req[c].key, parent[c])>>
    /\ At(c) \in DOMAIN base /\ At(c)[1] = parent[c] /\ At(c)[2] = Bucket(c)
    /\ Bucket(c) = SearchBucket(req[c].key, parent[c]) /\ Bucket(c) \in Nat
    /\ Bucket(c) \in 0 .. Count(parent[c]) - 2 /\ Bucket(c) \in 0 .. Count(parent[c]) - 1
    /\ Below(At(c)) = Append(parent[c], Bucket(c)) /\ req[c].key \in Key

LEMMA Places ==
    Types /\ Tree /\ Positioned => \A c \in Client : Located(c)
<1> SUFFICES ASSUME Types, Tree, Positioned, NEW c \in Client
             PROVE  Located(c)
  OBVIOUS
<1>1. req[c].key \in Key
  BY RequestFields DEF Types
<1>2. parent[c] \in Seq(Nat) /\ Len(parent[c]) < MaxDepth /\ bpath[c] = parent[c]
      /\ Buckets(parent[c]) \subseteq DOMAIN base
  BY DEF Positioned, Placed, Exists
<1>3. Bucket(c) = SearchBucket(req[c].key, parent[c])
  BY <1>2 DEF Bucket
<1>4. At(c) = <<parent[c], Bucket(c)>>
  BY DEF At
<1>5. /\ Bucket(c) \in Nat /\ Bucket(c) \in 0 .. Count(parent[c]) - 2
      /\ Bucket(c) \in 0 .. Count(parent[c]) - 1 /\ At(c) \in Buckets(parent[c])
  BY <1>1, <1>2, <1>3, <1>4, BucketType
<1>6. QED
  BY <1>1, <1>2, <1>3, <1>4, <1>5 DEF Below, Located

LEMMA BucketsLie ==
    Tree => \A b \in DOMAIN base :
              /\ b[1] \in Seq(Nat) /\ Len(b[1]) < MaxDepth /\ Exists(b[1]) /\ b \in Buckets(b[1])
              /\ b[2] \in Nat /\ b[2] \in 0 .. Count(b[1]) - 1 /\ b = <<b[1], b[2]>>
<1> SUFFICES ASSUME Tree, NEW b \in DOMAIN base
             PROVE  /\ b[1] \in Seq(Nat) /\ Len(b[1]) < MaxDepth /\ Exists(b[1]) /\ b \in Buckets(b[1])
                    /\ b[2] \in Nat /\ b[2] \in 0 .. Count(b[1]) - 1 /\ b = <<b[1], b[2]>>
  OBVIOUS
<1>1. b \in Buckets(b[1]) /\ Exists(b[1])
  BY DEF Tree
<1>2. QED
  BY <1>1, BucketsAre DEF Exists

\* OneInside, without the sets.
In(c, b) == Holds(c) /\ At(c) = b
Out(c, b) == \E w \in posted[c] : w.at = b
Has(c, b) == In(c, b) \/ Out(c, b)
OneHolder ==
    \A b \in DOMAIN base :
        /\ lock[b] = "E_LOCKED" <=> \E c \in Client : Has(c, b)
        /\ \A c, d \in Client : Has(c, b) /\ Has(d, b) => c = d
        /\ \A c \in Client : ~ (In(c, b) /\ Out(c, b))
        /\ \A c \in Client : \A w, v \in posted[c] : w.at = b /\ v.at = b => w = v

LEMMA InsideIsHolder == Types => (OneInside <=> OneHolder)
<1> SUFFICES ASSUME Types
             PROVE  OneInside <=> OneHolder
  OBVIOUS
<1>1. DOMAIN lock = DOMAIN base
  BY DEF Types
<1>2. \A b : \A c \in Client : /\ c \in Inside(b) <=> In(c, b)
                               /\ c \in Leaving(b) <=> Out(c, b)
  BY DEF Inside, Leaving, In, Out, Holds
<1>3. \A b : Inside(b) \subseteq Client /\ Leaving(b) \subseteq Client
  BY DEF Inside, Leaving
<1>4. ASSUME NEW b
      PROVE  /\ Inside(b) \cup Leaving(b) # {} <=> \E c \in Client : Has(c, b)
             /\ (\A c, d \in Inside(b) \cup Leaving(b) : c = d)
                  <=> \A c, d \in Client : Has(c, b) /\ Has(d, b) => c = d
             /\ Inside(b) \cap Leaving(b) = {} <=> \A c \in Client : ~ (In(c, b) /\ Out(c, b))
  BY <1>2, <1>3, Zenon DEF Has
<1>5. QED
  BY <1>1, <1>4, Zenon DEF OneInside, OneHolder

\* A step after which everyone has what it had.
LEMMA HoldersKept ==
    ASSUME OneHolder, DOMAIN base' = DOMAIN base,
           \A b \in DOMAIN base : lock'[b] = "E_LOCKED" <=> lock[b] = "E_LOCKED",
           posted' = posted, \A c \in Client, b \in DOMAIN base : In(c, b)' <=> In(c, b)
    PROVE  OneHolder'
<1>1. \A c \in Client : \A b : Out(c, b)' <=> Out(c, b)
  BY DEF Out
<1>2. \A c \in Client, b \in DOMAIN base : Has(c, b)' <=> Has(c, b)
  BY <1>1 DEF Has
<1>3. QED
  BY <1>1, <1>2 DEF OneHolder

LEMMA InitInv == Init => IInv
<1> SUFFICES ASSUME Init
             PROVE  IInv
  OBVIOUS
<1>1. <<>> \in Seq(Nat) /\ Len(<<>>) = 0 /\ Len(<<>>) < MaxDepth
  BY Constants
<1>2. DOMAIN lock = Buckets(<<>>) /\ DOMAIN base = Buckets(<<>>)
      /\ \A b \in Buckets(<<>>) : lock[b] = "E_UNLOCKED" /\ base[b] = Null
  BY DEF Init
<1>3. Null \in Pointer /\ Null.kind = "null"
  BY PointerKinds
<1>4. Types
  <2>1. (CHOOSE r \in Request : TRUE) \in Request
    <3>1. PICK k \in Key : TRUE
      BY Constants
    <3>2. [op |-> "contains", key |-> k, val |-> None] \in Request
      BY <3>1 DEF Request
    <3>3. QED
      BY <3>2
  <2>2. 0 \in 0..MaxOps
    BY Constants
  <2>3. lock \in [DOMAIN base -> LockWords] /\ base \in [DOMAIN base -> Pointer]
    BY <1>2, <1>3 DEF Init, LockWords
  <2>4. pc \in [Client -> Label] /\ req \in [Client -> Request]
        /\ ret \in [Client -> Val \cup {None}] /\ ops \in [Client -> 0..MaxOps]
    BY <2>1, <2>2 DEF Init, Label
  <2>5. parent \in [Client -> Seq(Nat)] /\ bpath \in [Client -> Seq(Nat)]
        /\ cache = [c \in Client |-> cache[c]]
    BY <1>1 DEF Init
  <2>6. seen \in [Client -> [lock : LockWords, base : Pointer]]
    BY <1>3 DEF Init, Unread, LockWords
  <2>7. elists \in Seq(Seq(Pair))
    BY DEF Init
  <2>8. posted \in [Client -> SUBSET [at : DOMAIN base, status : LockWords]]
        /\ temp_lock \in [Client -> LockWords \cup {"unset"}]
    BY DEF Init
  <2>9. QED
    BY <2>3, <2>4, <2>5, <2>6, <2>7, <2>8 DEF Types
<1>5. Exists(<<>>)
  BY <1>1, <1>2 DEF Exists
<1>6. Tree
  <2>1. ASSUME NEW b \in DOMAIN base
        PROVE  b[1] = <<>> /\ b \in Buckets(b[1]) /\ Leads(base[b]) /\ base[b].kind # "plist"
    BY <1>2, <1>3, BucketsAre DEF Leads
  <2>2. \A b \in DOMAIN base : \A n \in 1..Len(b[1]) : FALSE
    BY <2>1, <1>1
  <2>3. QED
    BY <2>1, <2>2, <1>5 DEF Tree
<1>7. \A c \in Client : pc[c] = "idle" /\ parent[c] = <<>> /\ bpath[c] = <<>>
                        /\ cache[c] = <<>> /\ ~ Looking(c) /\ ~ Holds(c) /\ posted[c] = {}
  BY DEF Init, Looking, Holds
<1>8. LockTellsType /\ Positioned /\ Held /\ Late /\ Saw
  <2>1. LockTellsType
    BY <1>2, <1>3 DEF LockTellsType
  <2>2. Positioned
    BY <1>5, <1>7 DEF Positioned, Placed
  <2>3. Held /\ Late /\ Saw
    BY <1>7 DEF Held, HeldBy, Late, LateBy, Saw
  <2>4. QED
    BY <2>1, <2>2, <2>3
<1>9. Cached
  BY <1>7 DEF Cached, CachedBy
<1>10. OneInside
  <2>1. \A c \in Client : \A b : ~ In(c, b) /\ ~ Out(c, b) /\ ~ Has(c, b)
    BY <1>7 DEF In, Out, Has
  <2>2. OneHolder
    BY <1>2, <1>7, <2>1 DEF OneHolder
  <2>3. QED
    BY <1>4, <2>2, InsideIsHolder
<1>11. Len(elists) = 0
  BY DEF Init
<1>12. Owned /\ KeysUnique
  BY <1>11 DEF Owned, KeysUnique
<1>13. KeysOnPath
  <2>1. ASSUME NEW c \in Client
        PROVE  OnPath(req[c].key, At(c))
    <3>1. Located(c) /\ parent[c] = <<>>
      BY <1>4, <1>6, <1>7, <1>8, Places
    <3>2. At(c)[1] = <<>> /\ At(c)[2] = SearchBucket(req[c].key, <<>>)
      BY <3>1 DEF Located
    <3>3. QED
      BY <3>2, <1>1 DEF OnPath
  <2>2. QED
    BY <2>1, <1>11 DEF KeysOnPath
<1>14. QED
  BY <1>4, <1>6, <1>8, <1>9, <1>10, <1>12, <1>13 DEF IInv

-----------------------------------------------------------------------------
(* The tree only grows, and what a client knows of it stays true.           *)

Grows ==
    /\ DOMAIN base \subseteq DOMAIN base' /\ Len(elists) <= Len(elists')
    /\ \A b \in DOMAIN base : base[b].kind = "plist" => base'[b] = base[b]
    /\ \A b \in DOMAIN base : lock[b] = "P_UNLOCKED" => lock'[b] = "P_UNLOCKED"

LEMMA ExistsKept ==
    ASSUME Grows
    PROVE  \A p : Exists(p) => Exists(p)'
  BY DEF Grows, Exists

LEMMA LeadsKept ==
    ASSUME Types, Types', Grows
    PROVE  \A x : Leads(x) => Leads(x)'
<1>1. Len(elists) \in Nat /\ Len(elists') \in Nat /\ Len(elists) <= Len(elists')
  BY DEF Types, Grows
<1>2. \A j \in 1..Len(elists) : j \in 1..Len(elists')
  BY <1>1
<1>3. QED
  BY <1>2 DEF Leads

LEMMA CacheKept ==
    ASSUME Types, Tree, LockTellsType, Grows, NEW c \in Client, cache'[c] = cache[c], CachedBy(c)
    PROVE  CachedBy(c)'
<1> SUFFICES ASSUME NEW s \in DOMAIN cache[c]
             PROVE  \E q \in PLists' : Copied(c, s, q)'
  BY DEF CachedBy
<1>1. PICK q \in PLists : Copied(c, s, q)
  BY DEF CachedBy
<1>2. PICK b \in DOMAIN base : q = b[1]
  BY DEF PLists
<1>3. q \in PLists' /\ Exists(q)
  BY <1>2 DEF PLists, Grows, Tree
<1>4. s = CacheSlot(q) /\ cache[c][s].of = q
  BY <1>1 DEF Copied
<1>5. ASSUME NEW i \in 0 .. Count(q) - 2
      PROVE  lock'[<<q, i>>] = "P_UNLOCKED" /\ cache'[c][s].words[i] = Word(<<q, i>>)'
  <2>1. lock[<<q, i>>] = "P_UNLOCKED" /\ cache[c][s].words[i] = Word(<<q, i>>)
    BY <1>1 DEF Copied
  <2>2. <<q, i>> \in DOMAIN base
    <3>1. q \in Seq(Nat) /\ Len(q) < MaxDepth /\ Buckets(q) \subseteq DOMAIN base
      BY <1>3 DEF Exists
    <3>2. Count(q) \in Nat
      BY <3>1, BucketType
    <3>3. i \in 0 .. Count(q) - 1
      BY <3>2
    <3>4. QED
      BY <3>1, <3>3 DEF Buckets
  <2>3. lock'[<<q, i>>] = "P_UNLOCKED" /\ base'[<<q, i>>] = base[<<q, i>>]
    BY <2>1, <2>2 DEF Grows, LockTellsType
  <2>4. QED
    BY <2>1, <2>3 DEF Word
<1>6. Copied(c, s, q)'
  BY <1>4, <1>5 DEF Copied
<1>7. QED
  BY <1>3, <1>6

\* A client that does not move.
Rests(c) ==
    /\ pc'[c] = pc[c] /\ req'[c] = req[c] /\ parent'[c] = parent[c] /\ bpath'[c] = bpath[c]
    /\ seen'[c] = seen[c] /\ cache'[c] = cache[c] /\ posted'[c] = posted[c]

\* A step that does not change what client c has locked.
Spared(c) ==
    \A b \in DOMAIN base :
        Has(c, b) => (base'[b].kind = "plist" <=> base[b].kind = "plist")

LEMMA RestsInPlace ==
    ASSUME NEW c \in Client, req'[c] = req[c], parent'[c] = parent[c], bpath'[c] = bpath[c]
    PROVE  At(c)' = At(c) /\ Bucket(c)' = Bucket(c)
  BY DEF At, Bucket

LEMMA OtherClient ==
    ASSUME IInv, Types', Grows, NEW c \in Client, Rests(c), Spared(c)
    PROVE  /\ Placed(c)' /\ HeldBy(c)' /\ LateBy(c)'
           /\ (Looking(c)' => SeenBy(c)') /\ CachedBy(c)'
<1>1. Types /\ Tree /\ LockTellsType /\ Placed(c) /\ HeldBy(c) /\ (Looking(c) => SeenBy(c))
      /\ CachedBy(c) /\ Located(c) /\ LateBy(c)
  BY Places DEF IInv, Positioned, Held, Late, Saw, Cached
<1>2. At(c)' = At(c) /\ (Looking(c)' <=> Looking(c)) /\ At(c) \in DOMAIN base
  BY <1>1, RestsInPlace DEF Rests, Looking, Located
<1>3. Placed(c)'
  BY <1>1, ExistsKept DEF Rests, Placed
<1>4. base[At(c)].kind = "plist" => base'[At(c)].kind = "plist"
  BY <1>2 DEF Grows
<1>5. HeldBy(c)'
  <2>1. pc[c] \in {"locked", "unlock"} => base'[At(c)].kind # "plist"
    BY <1>1, <1>2 DEF HeldBy, Spared, Has, In, Holds
  <2>2. QED
    BY <1>1, <1>2, <1>4, <2>1 DEF HeldBy, Rests
<1>6. ASSUME Looking(c)
      PROVE  SeenBy(c)'
  <2>1. SeenBy(c)
    BY <1>1, <1>6
  <2>2. Leads(seen[c].base)'
    BY <1>1, <2>1, LeadsKept DEF SeenBy, Rests
  <2>3. seen[c].lock = "P_UNLOCKED" => Exists(seen[c].base.at)'
    BY <2>1, ExistsKept DEF SeenBy, Rests
  <2>4. Below(At(c))' = Below(At(c))
    BY <1>2 DEF Below
  <2>5. seen'[c] = seen[c] /\ parent'[c] = parent[c]
    BY DEF Rests
  <2>6. QED
    BY <2>1, <2>2, <2>3, <2>4, <2>5, <1>2, <1>4 DEF SeenBy
<1>7. CachedBy(c)'
  BY <1>1, CacheKept DEF Rests
<1>8. LateBy(c)'
  <2>1. ASSUME NEW w \in posted[c]
        PROVE  /\ w.status \in {"E_UNLOCKED", "P_UNLOCKED"}
               /\ w.status = "P_UNLOCKED" <=> base'[w.at].kind = "plist"
    <3>1. w.at \in DOMAIN base
      BY <1>1 DEF Types
    <3>2. Has(c, w.at)
      BY DEF Has, Out
    <3>3. QED
      BY <1>1, <3>1, <3>2 DEF LateBy, Spared
  <2>2. QED
    BY <2>1 DEF LateBy, Rests
<1>9. QED
  BY <1>2, <1>3, <1>5, <1>6, <1>7, <1>8

-----------------------------------------------------------------------------
(* Steps that leave the pointers and the E-Lists alone.                     *)

\* A step makes no claims to the E-Lists there were.
LEMMA ClaimsKept ==
    ASSUME NEW c \in Client, \A d \in Client \ {c} : Rests(d), NEW j, NEW b,
           b \in DOMAIN base' /\ base'[b] = EPtr(j) => Claim(j, b),
           Looking(c)' /\ At(c)' = b /\ seen'[c].base = EPtr(j) => Claim(j, b)
    PROVE  Claim(j, b)' => Claim(j, b)
<1> SUFFICES ASSUME Claim(j, b)'
             PROVE  Claim(j, b)
  OBVIOUS
<1>1. CASE b \in DOMAIN base' /\ base'[b] = EPtr(j)
  BY <1>1
<1>2. CASE \E d \in Client : Looking(d)' /\ At(d)' = b /\ seen'[d].base = EPtr(j)
  <2>1. PICK d \in Client : Looking(d)' /\ At(d)' = b /\ seen'[d].base = EPtr(j)
    BY <1>2
  <2>2. CASE d = c
    BY <2>1, <2>2
  <2>3. CASE d # c
    <3>1. Rests(d) /\ At(d)' = At(d)
      BY <2>3, RestsInPlace DEF Rests
    <3>2. Looking(d) /\ seen[d].base = EPtr(j) /\ At(d) = b
      BY <2>1, <3>1 DEF Rests, Looking
    <3>3. QED
      BY <3>2 DEF Claim
  <2>4. QED
    BY <2>2, <2>3
<1>3. QED
  BY <1>1, <1>2 DEF Claim

\* All that a step of c has to keep, when the others rest.
LEMMA StepInv ==
    ASSUME IInv, NEW c \in Client, \A d \in Client \ {c} : Rests(d), Grows,
           \A d \in Client \ {c} : Spared(d),
           Types', Tree', LockTellsType', OneHolder', Owned', KeysUnique', KeysOnPath',
           Placed(c)', HeldBy(c)', LateBy(c)', Looking(c)' => SeenBy(c)', CachedBy(c)'
    PROVE  IInv'
<1>1. ASSUME NEW d \in Client
      PROVE  /\ Placed(d)' /\ HeldBy(d)' /\ LateBy(d)'
             /\ (Looking(d)' => SeenBy(d)') /\ CachedBy(d)'
  <2>1. CASE d = c
    BY <2>1
  <2>2. CASE d # c
    BY <2>2, OtherClient
  <2>3. QED
    BY <2>1, <2>2
<1>2. Positioned' /\ Held' /\ Late' /\ Saw' /\ Cached'
  BY <1>1 DEF Positioned, Held, Late, Saw, Cached
<1>3. OneInside'
  BY InsideIsHolder, PTL
<1>4. QED
  BY <1>2, <1>3 DEF IInv

LEMMA QuietInv ==
    ASSUME IInv, NEW c \in Client, \A d \in Client \ {c} : Rests(d),
           base' = base, elists' = elists, Types', LockTellsType', OneHolder',
           \A b \in DOMAIN base : lock[b] = "P_UNLOCKED" => lock'[b] = "P_UNLOCKED",
           Placed(c)', HeldBy(c)', LateBy(c)', Looking(c)' => SeenBy(c)', CachedBy(c)',
           \A j : Looking(c)' /\ seen'[c].base = EPtr(j) => Claim(j, At(c)'),
           OnPath(req'[c].key, At(c)')
    PROVE  IInv'
<1>1. Types /\ Tree /\ Held /\ Owned /\ KeysUnique /\ KeysOnPath
  BY DEF IInv
<1>2. Grows
  <2>1. Len(elists) \in Nat
    BY <1>1 DEF Types
  <2>2. QED
    BY <2>1 DEF Grows
<1>3. Tree'
  <2>1. \A p : Exists(p)' <=> Exists(p)
    BY DEF Exists
  <2>2. \A x : Leads(x)' <=> Leads(x)
    BY DEF Leads
  <2>3. QED
    BY <1>1, <2>1, <2>2 DEF Tree
<1>4. \A d \in Client \ {c} : Spared(d)
  BY DEF Spared
<1>5. ASSUME NEW j, NEW b
      PROVE  Claim(j, b)' => Claim(j, b)
  BY ClaimsKept DEF Claim
<1>6. Owned'
  BY <1>1, <1>5 DEF Owned
<1>7. KeysUnique'
  BY <1>1 DEF KeysUnique
<1>8. KeysOnPath'
  <2> SUFFICES /\ \A d \in Client : OnPath(req'[d].key, At(d)')
               /\ \A j \in 1..Len(elists) : \A b \in DOMAIN base : Claim(j, b)' =>
                      \A i \in 1..Len(elists[j]) : OnPath(elists[j][i].key, b)
    BY DEF KeysOnPath, OnPath, SearchBucket
  <2>1. ASSUME NEW d \in Client
        PROVE  OnPath(req'[d].key, At(d)')
    <3>1. CASE d = c
      BY <3>1
    <3>2. CASE d # c
      <4>1. req'[d].key = req[d].key /\ At(d)' = At(d)
        BY <3>2, RestsInPlace DEF Rests
      <4>2. OnPath(req[d].key, At(d))
        BY <1>1 DEF KeysOnPath
      <4>3. QED
        BY <4>1, <4>2
    <3>3. QED
      BY <3>1, <3>2
  <2>2. ASSUME NEW j \in 1..Len(elists), NEW b \in DOMAIN base, Claim(j, b)',
               NEW i \in 1..Len(elists[j])
        PROVE  OnPath(elists[j][i].key, b)
    BY <2>2, <1>1, <1>5 DEF KeysOnPath
  <2>3. QED
    BY <2>1, <2>2
<1>9. QED
  BY <1>2, <1>3, <1>4, <1>6, <1>7, <1>8, StepInv

\* A step of the descent: it leaves the whole tree alone.
LEMMA MoveInv ==
    ASSUME IInv, NEW c \in Client, \A d \in Client \ {c} : Rests(d), UNCHANGED tree, Types',
           ~ Holds(c), pc'[c] \in {"read", "look", "refetch"}, posted'= posted,
           Placed(c)', Looking(c)' => SeenBy(c)', CachedBy(c)',
           \A j : Looking(c)' /\ seen'[c].base = EPtr(j) => Claim(j, At(c)'),
           OnPath(req'[c].key, At(c)')
    PROVE  IInv'
<1>1. base' = base /\ elists' = elists /\ lock' = lock /\ Types /\ LockTellsType /\ OneInside
      /\ LateBy(c)'
  BY DEF tree, IInv, Late, LateBy
<1>2. LockTellsType'
  BY <1>1 DEF LockTellsType
<1>3. HeldBy(c)' /\ ~ Holds(c)'
  BY DEF HeldBy, Holds
<1>4. OneHolder'
  <2>1. OneHolder
    BY <1>1, InsideIsHolder
  <2>2. ASSUME NEW d \in Client
        PROVE  Holds(d)' <=> Holds(d)
    BY <1>3 DEF Rests, Holds
  <2>3. ASSUME NEW d \in Client, Holds(d)
        PROVE  At(d)' = At(d)
    BY <2>3, RestsInPlace DEF Rests
  <2>4. \A d \in Client, b \in DOMAIN base : In(d, b)' <=> In(d, b)
    BY <2>2, <2>3 DEF In
  <2>5. QED
    BY <1>1, <2>1, <2>4, HoldersKept
<1>5. QED
  BY <1>1, <1>2, <1>3, <1>4, QuietInv

LEMMA CallInv ==
    ASSUME IInv, NEW c \in Client, NEW r \in Request, Call(c, r)
    PROVE  IInv'
<1>1. Types /\ Tree /\ LockTellsType /\ Placed(c) /\ CachedBy(c)
  BY DEF IInv, Positioned, Cached
<1>2. /\ pc[c] = "idle" /\ ops[c] < MaxOps /\ ops' = [ops EXCEPT ![c] = @ + 1]
      /\ req' = [req EXCEPT ![c] = r] /\ pc' = [pc EXCEPT ![c] = "read"] /\ UNCHANGED tree
      /\ parent' = parent /\ bpath' = bpath /\ seen' = seen /\ cache' = cache /\ ret' = ret
      /\ base' = base /\ lock' = lock /\ elists' = elists
      /\ posted' = posted /\ temp_lock' = temp_lock
  BY DEF Call, Go, tree, late
<1>3. Types'
  <2>1. pc' \in [Client -> Label] /\ req' \in [Client -> Request]
    BY <1>1, <1>2 DEF Types, Label
  <2>2. ops' \in [Client -> 0..MaxOps]
    <3>1. ops \in [Client -> 0..MaxOps] /\ MaxOps \in Nat
      BY <1>1, Constants DEF Types
    <3>2. ops[c] + 1 \in 0..MaxOps
      BY <3>1, <1>2
    <3>3. QED
      BY <3>1, <3>2, <1>2
  <2>3. QED
    BY <1>1, <1>2, <2>1, <2>2 DEF Types
<1>4. \A d \in Client \ {c} : Rests(d)
  BY <1>1, <1>2 DEF Rests, Types
<1>5. pc'[c] = "read" /\ req'[c] = r /\ ~ Looking(c)' /\ ~ Holds(c)
  BY <1>1, <1>2 DEF Types, Looking, Holds
<1>6. Placed(c)' /\ CachedBy(c)'
  <2>1. Exists(parent[c])'
    BY <1>1, <1>2 DEF Placed, Exists
  <2>2. Placed(c)'
    BY <1>1, <1>2, <1>5, <2>1 DEF Placed
  <2>3. CachedBy(c)'
    BY <1>1, <1>2, CacheKept DEF Types, Grows
  <2>4. QED
    BY <2>2, <2>3
<1>7. OnPath(req'[c].key, At(c)')
  <2>1. parent[c] = <<>> /\ Len(bpath[c]) = Len(<<>>)
    BY <1>1, <1>2 DEF Placed
  <2>2. At(c)' = <<<<>>, SearchBucket(r.key, <<>>)>>
    BY <2>1, <1>2, <1>5, SameLevel DEF At, Bucket
  <2>3. QED
    BY <2>2, <1>5 DEF OnPath
<1>8. QED
  BY <1>2, <1>3, <1>4, <1>5, <1>6, <1>7, MoveInv

\* What a client sees that reads its bucket in the tree.
LEMMA FreshWord ==
    ASSUME IInv, NEW c \in Client, UNCHANGED tree, At(c)' = At(c), parent'[c] = parent[c],
           seen'[c] = Word(At(c))
    PROVE  /\ SeenBy(c)' /\ Word(At(c)) \in [lock : LockWords, base : Pointer]
           /\ \A j : seen'[c].base = EPtr(j) => Claim(j, At(c)')
<1>1. Types /\ Tree /\ LockTellsType /\ Located(c)
  BY Places DEF IInv
<1>2. base' = base /\ elists' = elists /\ lock' = lock
  BY DEF tree
<1> DEFINE a == At(c)
<1>3. a \in DOMAIN base /\ a[1] = parent[c] /\ a[2] = Bucket(c) /\ Bucket(c) \in Nat
      /\ lock[a] \in LockWords /\ base[a] \in Pointer
  BY <1>1 DEF Located, Types
<1>4. seen'[c].lock = lock[a] /\ seen'[c].base = base[a]
      /\ Word(At(c)) \in [lock : LockWords, base : Pointer]
  BY <1>3 DEF Word
<1>5. Leads(base[a]) /\ (base[a].kind = "plist" => base[a] = PPtr(Below(a)) /\ Exists(Below(a)))
      /\ parent[c] \in Seq(Nat) /\ (lock[a] = "P_UNLOCKED" => base[a].kind = "plist")
  BY <1>1, <1>3 DEF Tree, LockTellsType, Exists
<1>6. Below(a) \in Seq(Nat) /\ Len(Below(a)) = Len(parent[c]) + 1 /\ PPtr(Below(a)).at = Below(a)
  <2>1. Below(a) = Append(parent[c], Bucket(c))
    BY <1>1 DEF Located
  <2>2. Below(a) \in Seq(Nat) /\ Len(Below(a)) = Len(parent[c]) + 1
    BY <2>1, <1>3, <1>5, AppendIs
  <2>3. QED
    BY <2>2, PointerKinds
<1>7. (Below(At(c)))' = Below(a)
  BY DEF Below
<1>8. Leads(seen[c].base)'
  BY <1>2, <1>4, <1>5 DEF Leads
<1>9. SeenBy(c)'
  <2>1. seen'[c].lock = "P_UNLOCKED" =>
          seen'[c].base = PPtr(Below(a)) /\ seen'[c].base.kind = "plist"
          /\ seen'[c].base.at = Below(a) /\ Exists(Below(a))
    BY <1>4, <1>5, <1>6
  <2>2. seen'[c].lock = "P_UNLOCKED" => Exists(seen[c].base.at)'
    BY <2>1, <1>2 DEF Exists
  <2>3. QED
    BY <2>1, <2>2, <1>2, <1>4, <1>6, <1>7, <1>8 DEF SeenBy
<1>10. ASSUME NEW j, seen'[c].base = EPtr(j)
       PROVE  Claim(j, At(c)')
  BY <1>10, <1>3, <1>4 DEF Claim
<1>11. QED
  BY <1>4, <1>9, <1>10

\* Two paths of one layer share an entry of the cache in the third layer only.
LEMMA SlotIs ==
    ASSUME NEW p \in Seq(Nat), NEW q \in Seq(Nat)
    PROVE  /\ CacheSlot(p)[1] = Len(p)
           /\ Len(p) < 2 /\ CacheSlot(p) = CacheSlot(q) => p = q
<1>1. CacheSlot(p)[1] = Len(p) /\ CacheSlot(q)[1] = Len(q) /\ Len(p) \in Nat /\ Len(q) \in Nat
  BY DEF CacheSlot
<1>2. ASSUME Len(p) < 2, CacheSlot(p) = CacheSlot(q)
      PROVE  p = q
  <2>1. Len(p) = Len(q) /\ Len(p) \in {0, 1}
    <3>1. Len(p) = Len(q)
      BY <1>1, <1>2, Zenon
    <3>2. \A n \in Nat : n < 2 => n \in {0, 1}
      OBVIOUS
    <3>3. Len(p) \in {0, 1}
      BY <3>2, <1>1, <1>2, Zenon
    <3>4. QED
      BY <3>1, <3>3
  <2>2. Len(p) = 1 => p[1] = q[1]
    <3> SUFFICES ASSUME Len(p) = 1
                 PROVE  p[1] = q[1]
      OBVIOUS
    <3>1. ASSUME NEW r \in Seq(Nat), Len(r) = 1
          PROVE  CacheSlot(r)[2] = r[1]
      <4>1. CacheSlot(r)[2] = CASE 1 = 0 -> 0 [] 1 = 1 -> r[1]
                                [] OTHER -> r[1] * PLIST_SIZE + r[2]
        BY <3>1, Zenon DEF CacheSlot
      <4>2. QED
        BY <4>1
    <3>2. CacheSlot(p)[2] = p[1] /\ CacheSlot(q)[2] = q[1]
      BY <3>1, <2>1
    <3>3. QED
      BY <3>2, <1>2, Zenon
  <2>3. \A n \in 1..Len(p) : p[n] = q[n]
    <3>1. \A m \in {0, 1} : \A n \in 1..m : m = 1 /\ n = 1
      OBVIOUS
    <3>2. QED
      BY <2>1, <2>2, <3>1, Zenon
  <2>4. QED
    BY <2>1, <2>3, SeqEqual
<1>3. QED
  BY <1>1, <1>2

\* What a client sees that reads its bucket in the cache.
LEMMA CachedWord ==
    ASSUME IInv, NEW c \in Client, Hit(c), Fetched(c).of = parent[c]
    PROVE  \E q \in Seq(Nat) :
             LET w == Fetched(c).words[Bucket(c)] IN
             /\ w \in [lock : LockWords, base : Pointer] /\ w.lock = "P_UNLOCKED"
             /\ w.base = PPtr(q) /\ Exists(q) /\ q = Below(At(c))
<1>1. Types /\ Tree /\ LockTellsType /\ Located(c) /\ Placed(c) /\ CachedBy(c)
  BY Places DEF IInv, Positioned, Cached
<1> DEFINE s == CacheSlot(bpath[c])
           i == Bucket(c)
<1>2. PICK p \in PLists : Copied(c, s, p)
  BY <1>1 DEF Hit, CachedBy
<1>3. Exists(p) /\ p \in Seq(Nat) /\ Len(p) < MaxDepth
  BY <1>1, <1>2 DEF PLists, Tree, Exists
<1>4. bpath[c] \in Seq(Nat) /\ parent[c] \in Seq(Nat)
  BY <1>1 DEF Types
<1>5. p = parent[c]
  BY <1>2 DEF Copied, Fetched
<1>6. i \in 0 .. Count(p) - 2 /\ i \in 0 .. Count(p) - 1 /\ i \in Nat
  BY <1>1, <1>5 DEF Located
<1>7. lock[<<p, i>>] = "P_UNLOCKED" /\ Fetched(c).words[i] = Word(<<p, i>>)
  BY <1>2, <1>6 DEF Copied, Fetched
<1> DEFINE b == <<p, i>>
<1>8. b \in DOMAIN base
  BY <1>3, <1>6 DEF Exists, Buckets
<1>9. base[b] = PPtr(Below(b)) /\ Exists(Below(b)) /\ base[b] \in Pointer /\ lock[b] \in LockWords
  BY <1>1, <1>7, <1>8 DEF LockTellsType, Tree, Types
<1>10. Below(b) \in Seq(Nat) /\ Below(b) = Append(p, i)
  BY <1>3, <1>6, AppendIs DEF Below
<1>11. Below(b) = Below(At(c))
  BY <1>1, <1>5, <1>10 DEF Located
<1>12. Word(b) \in [lock : LockWords, base : Pointer] /\ Word(b).lock = "P_UNLOCKED"
       /\ Word(b).base = PPtr(Below(b))
  BY <1>7, <1>9 DEF Word
<1> HIDE DEF b, s, i
<1>13. QED
  BY <1>7, <1>9, <1>10, <1>11, <1>12 DEF s, i, b

\* A step of the descent changes only what the client has read and where it is.
LEMMA DescentTypes ==
    ASSUME Types, NEW c \in Client, UNCHANGED <<tree, late, call>>, NEW l \in Label,
           pc' = [pc EXCEPT ![c] = l],
           parent' \in [Client -> Seq(Nat)], bpath' \in [Client -> Seq(Nat)],
           seen' \in [Client -> [lock : LockWords, base : Pointer]],
           cache' = [d \in Client |-> cache'[d]]
    PROVE  Types'
<1>1. base' = base /\ elists' = elists /\ lock' = lock /\ req' = req /\ ret' = ret /\ ops' = ops
      /\ posted' = posted /\ temp_lock' = temp_lock
  BY DEF tree, late, call
<1>2. pc' \in [Client -> Label]
  BY DEF Types
<1>3. QED
  BY <1>1, <1>2 DEF Types

LEMMA ReadCachedInv ==
    ASSUME IInv, NEW c \in Client, ReadCached(c), mishap' = {}
    PROVE  IInv'
<1>1. Types /\ Tree /\ LockTellsType /\ Located(c) /\ Placed(c) /\ CachedBy(c) /\ KeysOnPath
  BY Places DEF IInv, Positioned, Cached
<1> DEFINE w == Fetched(c).words[Bucket(c)]
<1>2. /\ pc[c] = "read" /\ Hit(c) /\ pc' = [pc EXCEPT ![c] = "look"]
      /\ seen' = [seen EXCEPT ![c] = w] /\ UNCHANGED <<tree, late, call>> /\ UNCHANGED tree
      /\ parent' = parent /\ bpath' = bpath /\ cache' = cache /\ posted' = posted
      /\ base' = base /\ lock' = lock /\ elists' = elists /\ req' = req
      /\ Fetched(c).of = parent[c]
  BY DEF ReadCached, Go, tree, late, call
<1>3. PICK q \in Seq(Nat) :
             /\ w \in [lock : LockWords, base : Pointer] /\ w.lock = "P_UNLOCKED"
             /\ w.base = PPtr(q) /\ Exists(q) /\ q = Below(At(c))
  BY <1>2, CachedWord
<1> HIDE DEF w
<1>4. Types'
  <2>1. seen' \in [Client -> [lock : LockWords, base : Pointer]]
    BY <1>1, <1>2, <1>3 DEF Types
  <2>2. parent' \in [Client -> Seq(Nat)] /\ bpath' \in [Client -> Seq(Nat)]
        /\ cache' = [d \in Client |-> cache'[d]] /\ "look" \in Label
    BY <1>1, <1>2 DEF Types, Label
  <2>3. QED
    BY <1>1, <1>2, <2>1, <2>2, DescentTypes
<1>5. \A d \in Client \ {c} : Rests(d)
  BY <1>1, <1>2 DEF Rests, Types
<1>6. pc'[c] = "look" /\ ~ Holds(c) /\ seen'[c] = w
  BY <1>1, <1>2 DEF Types, Holds
<1>7. At(c)' = At(c) /\ Below(At(c))' = Below(At(c))
  BY <1>2, RestsInPlace DEF Below
<1>8. Placed(c)'
  BY <1>1, <1>2, <1>6 DEF Placed, Exists
<1>9. CachedBy(c)'
  BY <1>1, <1>2, CacheKept DEF Types, Grows
<1>10. PPtr(q).kind = "plist" /\ PPtr(q).at = q
  BY PointerKinds
<1>11. SeenBy(c)'
  <2>1. Leads(seen[c].base)'
    BY <1>3, <1>6, <1>10 DEF Leads
  <2>2. Exists(q)' /\ Exists(seen[c].base.at)'
    BY <1>2, <1>3, <1>6, <1>10 DEF Exists
  <2>3. QED
    BY <2>1, <2>2, <1>2, <1>3, <1>6, <1>7, <1>10 DEF SeenBy
<1>12. \A j : seen'[c].base # EPtr(j)
  BY <1>3, <1>6, <1>10 DEF EPtr
<1>13. OnPath(req'[c].key, At(c)')
  BY <1>1, <1>2, <1>7 DEF KeysOnPath
<1>14. QED
  BY <1>2, <1>4, <1>5, <1>6, <1>8, <1>9, <1>11, <1>12, <1>13, MoveInv

LEMMA ReadRemoteInv ==
    ASSUME IInv, NEW c \in Client, ReadRemote(c)
    PROVE  IInv'
<1>1. Types /\ Tree /\ LockTellsType /\ Located(c) /\ Placed(c) /\ CachedBy(c) /\ KeysOnPath
  BY Places DEF IInv, Positioned, Cached
<1> DEFINE p == parent[c]
           copy == [i \in 0 .. Count(p) - 1 |-> Word(<<p, i>>)]
           slot == CacheSlot(bpath[c])
<1>2. /\ pc[c] = "read" /\ pc' = [pc EXCEPT ![c] = "look"]
      /\ seen' = [seen EXCEPT ![c] = copy[Bucket(c)]]
      /\ UNCHANGED <<tree, late, call>> /\ UNCHANGED tree
      /\ parent' = parent /\ bpath' = bpath /\ posted' = posted
      /\ base' = base /\ lock' = lock /\ elists' = elists /\ req' = req
  BY DEF ReadRemote, Go, tree, late, call
<1> DEFINE entry == [of |-> p, words |-> copy]
<1>3. cache' = IF Cacheable(p)
                 THEN [cache EXCEPT ![c] =
                         [s \in DOMAIN @ \cup {slot} |-> IF s = slot THEN entry ELSE @[s]]]
                 ELSE cache
  BY DEF ReadRemote
<1>4. copy[Bucket(c)] = Word(At(c)) /\ At(c)' = At(c)
  BY <1>1, <1>2, RestsInPlace DEF Located
<1>5. pc'[c] = "look" /\ ~ Holds(c) /\ seen'[c] = Word(At(c))
  BY <1>1, <1>2, <1>4 DEF Types, Holds
<1>6. /\ SeenBy(c)' /\ Word(At(c)) \in [lock : LockWords, base : Pointer]
      /\ \A j : seen'[c].base = EPtr(j) => Claim(j, At(c)')
  BY <1>2, <1>4, <1>5, FreshWord
<1>7. cache' = [d \in Client |-> cache'[d]]
  <2>1. cache = [d \in Client |-> cache[d]]
    BY <1>1 DEF Types
  <2>2. CASE Cacheable(p)
    <3> DEFINE new == [s \in DOMAIN cache[c] \cup {slot} |-> IF s = slot THEN entry ELSE cache[c][s]]
    <3> HIDE DEF new, entry, slot
    <3>1. cache' = [cache EXCEPT ![c] = new]
      BY <1>3, <2>2 DEF new
    <3>2. QED
      BY <3>1, <2>1
  <2>3. CASE ~ Cacheable(p)
    BY <1>3, <2>1, <2>3
  <2>4. QED
    BY <2>2, <2>3
<1>8. Types'
  <2>1. seen' \in [Client -> [lock : LockWords, base : Pointer]]
    BY <1>1, <1>2, <1>4, <1>6 DEF Types
  <2>2. parent' \in [Client -> Seq(Nat)] /\ bpath' \in [Client -> Seq(Nat)] /\ "look" \in Label
    BY <1>1, <1>2 DEF Types, Label
  <2>3. QED
    BY <1>1, <1>2, <1>7, <2>1, <2>2, DescentTypes
<1>9. \A d \in Client \ {c} : Rests(d)
  <2>1. \A d \in Client \ {c} : cache'[d] = cache[d]
    BY <1>1, <1>3 DEF Types
  <2>2. QED
    BY <1>1, <1>2, <2>1 DEF Rests, Types
<1>10. Placed(c)'
  BY <1>1, <1>2, <1>5 DEF Placed, Exists
<1>11. CachedBy(c)'
  <2>1. CASE ~ Cacheable(p)
    BY <2>1, <1>1, <1>2, <1>3, CacheKept DEF Types, Grows
  <2>2. CASE Cacheable(p)
    <3>1. cache'[c] = [s \in DOMAIN cache[c] \cup {slot} |-> IF s = slot THEN entry ELSE cache[c][s]]
      BY <2>2, <1>1, <1>3 DEF Types
    <3> SUFFICES ASSUME NEW s \in DOMAIN cache'[c]
                 PROVE  \E q \in PLists' : Copied(c, s, q)'
      BY DEF CachedBy
    <3>2. s \in DOMAIN cache[c] \cup {slot}
      BY <3>1
    <3>3. PLists' = PLists
      BY <1>2 DEF PLists
    <3>4. CASE s # slot
      <4>1. PICK q \in PLists : Copied(c, s, q)
        BY <3>2, <3>4, <1>1 DEF CachedBy
      <4>2. cache'[c][s] = cache[c][s]
        BY <3>1, <3>2, <3>4
      <4>3. Copied(c, s, q)'
        BY <4>1, <4>2, <1>2 DEF Copied, Word
      <4>4. QED
        BY <4>1, <4>3, <3>3
    <3>5. CASE s = slot
      <4>1. cache'[c][s] = entry /\ entry.of = p /\ entry.words = copy
        BY <3>1, <3>2, <3>5
      <4>2. p \in PLists /\ Count(p) \in Nat
        BY <1>1, BucketType DEF PLists, Located, Placed, Exists
      <4>3. \A i \in 0 .. Count(p) - 2 :
              lock[<<p, i>>] = "P_UNLOCKED" /\ copy[i] = Word(<<p, i>>)
        BY <2>2, <4>2 DEF Cacheable
      <4>4. s = CacheSlot(p)
        BY <1>1, <3>5 DEF Placed
      <4>5. Copied(c, s, p)'
        <5>1. p' = p
          BY <1>2
        <5>2. \A i \in 0 .. Count(p) - 2 :
                lock'[<<p, i>>] = "P_UNLOCKED" /\ cache'[c][s].words[i] = Word(<<p, i>>)'
          <6> HIDE DEF entry
          <6>1. QED
            BY <4>1, <4>3, <1>2 DEF Word
        <5> HIDE DEF p, entry
        <5>3. QED
          BY <4>1, <4>4, <5>1, <5>2 DEF Copied
      <4>6. QED
        BY <4>2, <4>5, <3>3, <1>2
    <3>6. QED
      BY <3>4, <3>5
  <2>3. QED
    BY <2>1, <2>2
<1>12. OnPath(req'[c].key, At(c)')
  BY <1>1, <1>2, <1>4 DEF KeysOnPath
<1>13. QED
  BY <1>2, <1>5, <1>6, <1>8, <1>9, <1>10, <1>11, <1>12, MoveInv

\* What OnPath says of the bucket below.
LEMMA OnPathBelow ==
    ASSUME NEW k, NEW b, b[1] \in Seq(Nat), b[2] \in Nat, OnPath(k, b)
    PROVE  OnPath(k, <<Below(b), SearchBucket(k, Below(b))>>)
<1> DEFINE p == b[1]
           q == Below(b)
<1>1. /\ q \in Seq(Nat) /\ Len(q) = Len(p) + 1 /\ Len(p) \in Nat /\ q[Len(p) + 1] = b[2]
      /\ \A n \in 1..Len(p) : q[n] = p[n]
      /\ \A n \in 0..Len(p) : SubSeq(q, 1, n) = SubSeq(p, 1, n)
      /\ SubSeq(p, 1, Len(p)) = p
  BY AppendIs DEF Below
<1> HIDE DEF p, q
<1>2. ASSUME NEW n \in 1..Len(q)
      PROVE  q[n] = SearchBucket(k, SubSeq(q, 1, n - 1))
  <2>1. n - 1 \in 0..Len(p) /\ n \in Nat /\ (n = Len(p) + 1 \/ n \in 1..Len(p))
    BY <1>1
  <2>2. SubSeq(q, 1, n - 1) = SubSeq(p, 1, n - 1)
    BY <1>1, <2>1
  <2>3. CASE n = Len(p) + 1
    <3>1. n - 1 = Len(p)
      BY <2>3, <1>1
    <3>2. SubSeq(q, 1, n - 1) = p
      BY <2>2, <3>1, <1>1
    <3>3. QED
      BY <2>3, <3>2, <1>1 DEF OnPath, p
  <2>4. CASE n \in 1..Len(p)
    <3>1. p[n] = SearchBucket(k, SubSeq(p, 1, n - 1))
      BY <2>4 DEF OnPath, p
    <3>2. QED
      BY <3>1, <2>2, <2>4, <1>1
  <2>5. QED
    BY <2>1, <2>3, <2>4
<1>3. QED
  BY <1>2 DEF OnPath, q

LEMMA DescendInv ==
    ASSUME IInv, NEW c \in Client, Descend(c)
    PROVE  IInv'
<1>1. Types /\ Tree /\ LockTellsType /\ Located(c) /\ Placed(c) /\ CachedBy(c) /\ KeysOnPath
  BY Places DEF IInv, Positioned, Cached
<1> DEFINE q == seen[c].base.at
           i == Bucket(c)
<1>2. /\ pc[c] = "look" /\ seen[c].lock = "P_UNLOCKED" /\ pc' = [pc EXCEPT ![c] = "read"]
      /\ parent' = [parent EXCEPT ![c] = q] /\ bpath' = [bpath EXCEPT ![c] = Append(@, i)]
      /\ UNCHANGED <<tree, late, call>> /\ UNCHANGED tree /\ seen' = seen /\ cache' = cache
      /\ base' = base /\ lock' = lock /\ elists' = elists /\ req' = req /\ posted' = posted
  BY DEF Descend, Go, tree, late, call
<1>3. Exists(q) /\ q = Below(At(c)) /\ q \in Seq(Nat)
  BY <1>2 DEF IInv, Saw, Looking, SeenBy, Exists
<1>4. bpath[c] \in Seq(Nat) /\ i \in Nat /\ bpath[c] = parent[c]
  BY <1>1 DEF Types, Located, Placed
<1>5. Append(bpath[c], i) \in Seq(Nat) /\ Append(bpath[c], i) = q
  <2>1. Append(bpath[c], i) \in Seq(Nat)
    BY <1>4, AppendIs
  <2>2. Below(At(c)) = Append(parent[c], i)
    BY <1>1 DEF Located
  <2>3. QED
    BY <2>1, <2>2, <1>3, <1>4
<1> HIDE DEF q, i
<1>6. Types'
  <2>1. parent' \in [Client -> Seq(Nat)] /\ bpath' \in [Client -> Seq(Nat)]
    BY <1>1, <1>2, <1>3, <1>5 DEF Types
  <2>2. seen' \in [Client -> [lock : LockWords, base : Pointer]]
        /\ cache' = [d \in Client |-> cache'[d]] /\ "read" \in Label
    BY <1>1, <1>2 DEF Types, Label
  <2>3. QED
    BY <1>1, <1>2, <2>1, <2>2, DescentTypes
<1>7. \A d \in Client \ {c} : Rests(d)
  BY <1>1, <1>2 DEF Rests, Types
<1>8. pc'[c] = "read" /\ ~ Holds(c) /\ ~ Looking(c)' /\ parent'[c] = q
      /\ bpath'[c] = Append(bpath[c], i) /\ req'[c] = req[c]
  BY <1>1, <1>2 DEF Types, Holds, Looking
<1>9. Placed(c)'
  <2>1. Exists(parent[c])'
    BY <1>2, <1>3, <1>8 DEF Exists
  <2>2. QED
    BY <2>1, <1>5, <1>8 DEF Placed
<1>10. CachedBy(c)'
  BY <1>1, <1>2, CacheKept DEF Types, Grows
<1>11. OnPath(req'[c].key, At(c)')
  <2>1. OnPath(req[c].key, At(c)) /\ At(c)[1] \in Seq(Nat) /\ At(c)[2] \in Nat
    BY <1>1 DEF KeysOnPath, Located, Types
  <2>2. At(c)' = <<q, SearchBucket(req[c].key, q)>>
    <3>1. At(c)' = <<parent'[c], SearchBucket(req'[c].key, bpath'[c])>>
      BY DEF At, Bucket
    <3>2. QED
      BY <3>1, <1>5, <1>8
  <2>3. QED
    BY <2>1, <2>2, <1>2, <1>3, OnPathBelow
<1>12. QED
  BY <1>2, <1>6, <1>7, <1>8, <1>9, <1>10, <1>11, MoveInv

LEMMA RefetchInv ==
    ASSUME IInv, NEW c \in Client, AcquireFails(c) \/ Refetch(c)
    PROVE  IInv'
<1>1. Types /\ Tree /\ LockTellsType /\ Located(c) /\ Placed(c) /\ CachedBy(c) /\ KeysOnPath
  BY Places DEF IInv, Positioned, Cached
<1>2. /\ UNCHANGED <<tree, late, call>> /\ UNCHANGED tree /\ posted' = posted
      /\ parent' = parent /\ bpath' = bpath /\ cache' = cache
      /\ base' = base /\ lock' = lock /\ elists' = elists /\ req' = req
  BY DEF AcquireFails, Refetch, tree, late, call
<1>3. /\ pc[c] \in {"look", "refetch"}
      /\ \/ pc' = [pc EXCEPT ![c] = "refetch"] /\ seen' = seen
         \/ pc' = [pc EXCEPT ![c] = "look"] /\ seen' = [seen EXCEPT ![c] = Word(At(c))]
  BY DEF AcquireFails, Refetch, Go
<1>4. At(c)' = At(c)
  BY <1>2, RestsInPlace
<1>5. \A d \in Client \ {c} : Rests(d)
  <2>1. ASSUME NEW d \in Client \ {c}
        PROVE  pc'[d] = pc[d] /\ seen'[d] = seen[d]
    BY <1>1, <1>3 DEF Types
  <2>2. QED
    BY <2>1, <1>2 DEF Rests
<1>6. ~ Holds(c) /\ pc'[c] \in {"look", "refetch"} /\ (pc'[c] = "look" => seen'[c] = Word(At(c)))
  BY <1>1, <1>3 DEF Types, Holds
<1>7. Placed(c)' /\ CachedBy(c)'
  <2>1. Placed(c)'
    BY <1>1, <1>2, <1>6 DEF Placed, Exists
  <2>2. CachedBy(c)'
    BY <1>1, <1>2, CacheKept DEF Types, Grows
  <2>3. QED
    BY <2>1, <2>2
<1>8. Looking(c)' => SeenBy(c)' /\ \A j : seen'[c].base = EPtr(j) => Claim(j, At(c)')
  BY <1>2, <1>4, <1>6, FreshWord DEF Looking
<1>9. Types'
  <2>1. Word(At(c)) \in [lock : LockWords, base : Pointer]
    <3>1. At(c) \in DOMAIN base
      BY <1>1 DEF Located
    <3>2. QED
      BY <3>1, <1>1 DEF Types, Word
  <2>2. seen' \in [Client -> [lock : LockWords, base : Pointer]]
    BY <1>1, <1>3, <2>1 DEF Types
  <2>3. parent' \in [Client -> Seq(Nat)] /\ bpath' \in [Client -> Seq(Nat)]
        /\ cache' = [d \in Client |-> cache'[d]] /\ "look" \in Label /\ "refetch" \in Label
    BY <1>1, <1>2 DEF Types, Label
  <2>4. QED
    BY <1>1, <1>2, <1>3, <2>2, <2>3, DescentTypes
<1>10. OnPath(req'[c].key, At(c)')
  BY <1>1, <1>2, <1>4 DEF KeysOnPath
<1>11. QED
  BY <1>2, <1>5, <1>6, <1>7, <1>8, <1>9, <1>10, MoveInv

-----------------------------------------------------------------------------
(* Steps that change a lock word.                                           *)

LEMMA LockedByOne ==
    ASSUME NEW c \in Client, Located(c), OneHolder, Holds(c)
    PROVE  /\ lock[At(c)] = "E_LOCKED" /\ ~ Out(c, At(c))
           /\ \A d \in Client \ {c} : ~ Has(d, At(c)) /\ (Holds(d) => At(d) # At(c))
<1>1. At(c) \in DOMAIN base /\ In(c, At(c)) /\ Has(c, At(c))
  BY DEF Located, In, Has
<1>2. \A d \in Client \ {c} : ~ Has(d, At(c))
  BY <1>1 DEF OneHolder
<1>3. lock[At(c)] = "E_LOCKED" /\ ~ Out(c, At(c))
  BY <1>1 DEF OneHolder
<1>4. QED
  BY <1>2, <1>3 DEF Has, In

LEMMA AcquireInv ==
    ASSUME IInv, NEW c \in Client, Acquire(c)
    PROVE  IInv'
<1>1. /\ Types /\ Tree /\ LockTellsType /\ Located(c) /\ Placed(c) /\ CachedBy(c) /\ KeysOnPath
      /\ HeldBy(c) /\ (Looking(c) => SeenBy(c)) /\ OneHolder
  BY Places, InsideIsHolder DEF IInv, Positioned, Cached, Held, Saw
<1> DEFINE a == At(c)
<1>2. /\ pc[c] = "look" /\ seen[c].lock # "P_UNLOCKED" /\ lock[a] = "E_UNLOCKED"
      /\ lock' = [lock EXCEPT ![a] = "E_LOCKED"] /\ pc' = [pc EXCEPT ![c] = "locked"]
      /\ base' = base /\ elists' = elists /\ parent' = parent /\ bpath' = bpath /\ seen' = seen
      /\ cache' = cache /\ req' = req /\ ret' = ret /\ ops' = ops
      /\ posted' = posted /\ temp_lock' = temp_lock
  BY DEF Acquire, Go, late, call
<1>3. a \in DOMAIN base /\ DOMAIN lock = DOMAIN base /\ \A d \in Client : At(d)' = At(d)
  BY <1>1, <1>2, RestsInPlace DEF Located, Types
<1>4. Types'
  <2>1. lock' \in [DOMAIN base -> LockWords]
    BY <1>1, <1>2, <1>3 DEF Types, LockWords
  <2>2. pc' \in [Client -> Label]
    BY <1>1, <1>2 DEF Types, Label
  <2>3. QED
    BY <1>1, <1>2, <2>1, <2>2 DEF Types
<1> HIDE DEF a
<1>5. \A d \in Client \ {c} : Rests(d)
  BY <1>1, <1>2 DEF Rests, Types
<1>6. \A b \in DOMAIN base : lock'[b] = IF b = a THEN "E_LOCKED" ELSE lock[b]
  BY <1>2, <1>3
<1>7. LockTellsType' /\ \A b \in DOMAIN base : lock[b] = "P_UNLOCKED" => lock'[b] = "P_UNLOCKED"
  BY <1>1, <1>2, <1>6 DEF LockTellsType
<1>8. pc'[c] = "locked" /\ Holds(c)' /\ ~ Holds(c)
  BY <1>1, <1>2 DEF Types, Holds
<1>9. OneHolder'
  <2>1. \A d \in Client \ {c} : Holds(d)' <=> Holds(d)
    BY <1>5 DEF Rests, Holds
  <2>2. \A d \in Client : ~ Has(d, a)
    BY <1>1, <1>2, <1>3 DEF OneHolder
  <2>3. \A d \in Client : \A b : Out(d, b)' <=> Out(d, b)
    BY <1>2 DEF Out
  <2>4. \A d \in Client : \A b : In(d, b)' <=> In(d, b) \/ (d = c /\ b = a)
    BY <1>3, <1>8, <2>1 DEF In, a
  <2>5. \A d \in Client : \A b : Has(d, b)' <=> Has(d, b) \/ (d = c /\ b = a)
    BY <2>3, <2>4 DEF Has
  <2>6. \A d \in Client : ~ Out(d, a)
    BY <2>2 DEF Has
  <2> SUFFICES ASSUME NEW b \in DOMAIN base
               PROVE  /\ lock'[b] = "E_LOCKED" <=> \E d \in Client : Has(d, b)'
                      /\ \A d, e \in Client : Has(d, b)' /\ Has(e, b)' => d = e
                      /\ \A d \in Client : ~ (In(d, b)' /\ Out(d, b)')
                      /\ \A d \in Client : \A w, v \in posted[d] : w.at = b /\ v.at = b => w = v
    BY <1>2 DEF OneHolder
  <2>7. CASE b = a
    BY <2>7, <2>2, <2>3, <2>5, <2>6, <1>1, <1>6 DEF OneHolder
  <2>8. CASE b # a
    BY <2>8, <2>3, <2>4, <2>5, <1>1, <1>6 DEF OneHolder
  <2>9. QED
    BY <2>7, <2>8
<1>10. Placed(c)' /\ CachedBy(c)'
  <2>1. Placed(c)'
    BY <1>1, <1>2, <1>8 DEF Placed, Exists
  <2>2. Grows
    BY <1>1, <1>2, <1>7 DEF Types, Grows
  <2>3. CachedBy(c)'
    BY <1>1, <1>2, <2>2, CacheKept
  <2>4. QED
    BY <2>1, <2>3
<1>11. HeldBy(c)'
  BY <1>1, <1>2, <1>3, <1>8 DEF HeldBy, LockTellsType, a
<1>12. Looking(c) /\ SeenBy(c)
  BY <1>1, <1>2 DEF Looking
<1>13. SeenBy(c)'
  <2>1. Below(At(c))' = Below(At(c))
    BY <1>3 DEF Below
  <2>2. Leads(seen[c].base)' /\ (Exists(seen[c].base.at) => Exists(seen[c].base.at)')
    BY <1>2, <1>12 DEF SeenBy, Leads, Exists
  <2>3. QED
    BY <1>2, <1>3, <1>12, <2>1, <2>2 DEF SeenBy
<1>14. \A j : seen'[c].base = EPtr(j) => Claim(j, At(c)')
  BY <1>2, <1>3, <1>12 DEF Claim
<1>15. OnPath(req'[c].key, At(c)')
  BY <1>1, <1>2, <1>3 DEF KeysOnPath
<1>16. LateBy(c)'
  BY <1>2 DEF IInv, Late, LateBy
<1>17. QED
  BY <1>2, <1>4, <1>5, <1>7, <1>9, <1>10, <1>11, <1>13, <1>14, <1>15, <1>16, QuietInv

\* Calcify and Unlock.
LEMMA ReleaseInv ==
    ASSUME IInv, NEW c \in Client, Calcify(c) \/ Unlock(c)
    PROVE  IInv'
<1>1. /\ Types /\ Tree /\ LockTellsType /\ Located(c) /\ Placed(c) /\ CachedBy(c) /\ KeysOnPath
      /\ HeldBy(c) /\ LateBy(c) /\ (Looking(c) => SeenBy(c)) /\ OneHolder
  BY Places, InsideIsHolder DEF IInv, Positioned, Cached, Held, Late, Saw
<1> DEFINE a == At(c)
<1>2. PICK w \in {"P_UNLOCKED", "E_UNLOCKED"}, l \in {"look", "idle"} :
        /\ posted' = [posted EXCEPT ![c] = @ \cup {[at |-> a, status |-> w]}]
        /\ temp_lock' = [temp_lock EXCEPT ![c] = w]
        /\ pc' = [pc EXCEPT ![c] = l]
        /\ (w = "P_UNLOCKED") <=> (base[a].kind = "plist")
        /\ l = "look" => pc[c] = "calcify" /\ seen'[c] = seen[c] /\ parent'[c] = parent[c]
                         /\ bpath'[c] = bpath[c]
        /\ l = "idle" => parent'[c] = <<>> /\ bpath'[c] = <<>>
  <2>1. CASE Calcify(c)
    <3>1. pc[c] = "calcify" /\ base[a].kind = "plist"
      BY <2>1, <1>1 DEF Calcify, HeldBy
    <3>2. QED
      BY <2>1, <3>1 DEF Calcify, Post, Go
  <2>2. CASE Unlock(c)
    <3>1. pc[c] = "unlock" /\ base[a].kind # "plist"
      BY <2>2, <1>1 DEF Unlock, HeldBy
    <3>2. /\ posted' = [posted EXCEPT ![c] = @ \cup {[at |-> a, status |-> "E_UNLOCKED"]}]
          /\ temp_lock' = [temp_lock EXCEPT ![c] = "E_UNLOCKED"]
          /\ pc' = [pc EXCEPT ![c] = "idle"]
      BY <2>2 DEF Unlock, Post, Go
    <3>3. parent'[c] = <<>> /\ bpath'[c] = <<>>
      BY <2>2, <1>1 DEF Unlock, Types
    <3>4. QED
      BY <3>1, <3>2, <3>3
  <2>3. QED
    BY <2>1, <2>2
<1>3. /\ base' = base /\ lock' = lock /\ elists' = elists /\ cache' = cache
      /\ req' = req /\ ret' = ret /\ ops' = ops
      /\ Holds(c) /\ seen' \in [Client -> [lock : LockWords, base : Pointer]]
      /\ parent' \in [Client -> Seq(Nat)] /\ bpath' \in [Client -> Seq(Nat)]
  <2>1. <<>> \in Seq(Nat) /\ Unread \in [lock : LockWords, base : Pointer]
    BY PointerKinds DEF Unread, LockWords
  <2>2. seen \in [Client -> [lock : LockWords, base : Pointer]]
        /\ parent \in [Client -> Seq(Nat)] /\ bpath \in [Client -> Seq(Nat)]
    BY <1>1 DEF Types
  <2>3. base' = base /\ lock' = lock /\ elists' = elists /\ cache' = cache
        /\ req' = req /\ ret' = ret /\ ops' = ops /\ Holds(c)
    BY DEF Calcify, Unlock, Holds, tree, call
  <2>4. CASE Calcify(c)
    BY <2>2, <2>3, <2>4 DEF Calcify
  <2>5. CASE Unlock(c)
    <3>1. seen' = [seen EXCEPT ![c] = Unread] /\ parent' = [parent EXCEPT ![c] = <<>>]
          /\ bpath' = [bpath EXCEPT ![c] = <<>>]
      BY <2>5 DEF Unlock
    <3>2. seen' \in [Client -> [lock : LockWords, base : Pointer]]
      BY <3>1, <2>1, <2>2
    <3>3. parent' \in [Client -> Seq(Nat)] /\ bpath' \in [Client -> Seq(Nat)]
      BY <3>1, <2>1, <2>2
    <3>4. QED
      BY <2>3, <3>2, <3>3
  <2>6. QED
    BY <2>4, <2>5
<1>4. \A d \in Client \ {c} : Rests(d)
  <2>1. ASSUME NEW d \in Client \ {c}
        PROVE  pc'[d] = pc[d] /\ seen'[d] = seen[d] /\ parent'[d] = parent[d] /\ bpath'[d] = bpath[d]
    BY <1>1 DEF Types, Calcify, Unlock, Go
  <2>2. \A d \in Client \ {c} : posted'[d] = posted[d]
    BY <1>1, <1>2 DEF Types
  <2>3. QED
    BY <2>1, <2>2, <1>3 DEF Rests
<1>5. a \in DOMAIN base /\ DOMAIN lock = DOMAIN base /\ ~ Out(c, a)
  BY <1>1, <1>3, LockedByOne DEF Located, Types
<1> HIDE DEF a
<1> DEFINE rec == [at |-> a, status |-> w]
<1>6. posted'[c] = posted[c] \cup {rec} /\ rec.at = a /\ rec.status = w
  BY <1>1, <1>2 DEF Types
<1>7. Types'
  <2>1. posted' \in [Client -> SUBSET [at : DOMAIN base, status : LockWords]]
    <3>1. rec \in [at : DOMAIN base, status : LockWords]
      BY <1>5 DEF LockWords
    <3> HIDE DEF rec
    <3>2. posted \in [Client -> SUBSET [at : DOMAIN base, status : LockWords]]
      BY <1>1 DEF Types
    <3>3. QED
      BY <1>2, <3>1, <3>2 DEF rec
  <2>2. temp_lock' \in [Client -> LockWords \cup {"unset"}]
    BY <1>1, <1>2 DEF Types, LockWords
  <2>3. pc' \in [Client -> Label]
    BY <1>1, <1>2 DEF Types, Label
  <2>4. QED
    BY <1>1, <1>3, <2>1, <2>2, <2>3 DEF Types
<1>8. LockTellsType' /\ \A b \in DOMAIN base : lock[b] = "P_UNLOCKED" => lock'[b] = "P_UNLOCKED"
  BY <1>1, <1>3 DEF LockTellsType
<1>9. pc'[c] = l /\ ~ Holds(c)' /\ HeldBy(c)'
  BY <1>1, <1>2 DEF Types, Holds, HeldBy
<1>10. LateBy(c)'
  <2> HIDE DEF rec
  <2>1. QED
    BY <1>1, <1>2, <1>3, <1>6 DEF LateBy
<1> HIDE DEF rec
<1>11. OneHolder'
  <2>1. ASSUME NEW d \in Client \ {c}, NEW b
        PROVE  (In(d, b)' <=> In(d, b)) /\ (Out(d, b)' <=> Out(d, b))
    BY <1>4, RestsInPlace DEF Rests, Holds, In, Out
  <2>2. ASSUME NEW b
        PROVE  ~ In(c, b)' /\ (In(c, b) <=> b = a) /\ (Out(c, b)' <=> Out(c, b) \/ b = a)
    BY <1>3, <1>6, <1>9 DEF In, Out, a
  <2>3. \A d \in Client : \A b : Has(d, b)' <=> Has(d, b)
    BY <2>1, <2>2 DEF Has
  <2>4. ASSUME NEW d \in Client, NEW b \in DOMAIN base
        PROVE  /\ ~ (In(d, b)' /\ Out(d, b)')
               /\ \A x, y \in posted'[d] : x.at = b /\ y.at = b => x = y
    <3>1. /\ ~ (In(d, b) /\ Out(d, b))
          /\ \A x, y \in posted[d] : x.at = b /\ y.at = b => x = y
      BY <1>1 DEF OneHolder
    <3>2. CASE d = c
      <4>1. \A x \in posted[c] : x.at # a
        BY <1>5 DEF Out
      <4>2. QED
        BY <3>1, <3>2, <4>1, <1>6, <2>2
    <3>3. CASE d # c
      BY <3>1, <3>3, <2>1, <1>4 DEF Rests
    <3>4. QED
      BY <3>2, <3>3
  <2>5. QED
    BY <1>1, <1>3, <2>3, <2>4 DEF OneHolder
<1>12. Placed(c)'
  <2>1. \A p : Exists(p)' <=> Exists(p)
    BY <1>3 DEF Exists
  <2>2. Exists(<<>>)
    BY <1>1 DEF Tree
  <2>3. CASE l = "look"
    BY <2>1, <2>3, <1>1, <1>2, <1>9 DEF Placed
  <2>4. CASE l = "idle"
    BY <2>1, <2>2, <2>4, <1>2, <1>9 DEF Placed
  <2>5. QED
    BY <2>3, <2>4
<1>13. CachedBy(c)'
  <2>1. Grows
    BY <1>1, <1>3, <1>8 DEF Types, Grows
  <2>2. QED
    BY <2>1, <1>1, <1>3, CacheKept
<1>14. CASE l = "look"
  <2>1. At(c)' = At(c) /\ Looking(c) /\ SeenBy(c)
    BY <1>1, <1>2, <1>3, <1>14, RestsInPlace DEF Looking
  <2>2. Below(At(c))' = Below(At(c))
    BY <2>1 DEF Below
  <2>3. Leads(seen[c].base)' /\ (Exists(seen[c].base.at) => Exists(seen[c].base.at)')
    BY <1>2, <1>3, <1>14, <2>1 DEF SeenBy, Leads, Exists
  <2>4. SeenBy(c)'
    BY <1>2, <1>3, <1>14, <2>1, <2>2, <2>3 DEF SeenBy
  <2>5. \A j : seen'[c].base = EPtr(j) => Claim(j, At(c)')
    BY <1>2, <1>14, <2>1 DEF Claim
  <2>6. OnPath(req'[c].key, At(c)')
    BY <1>1, <1>3, <2>1 DEF KeysOnPath
  <2>7. QED
    BY <1>3, <1>4, <1>7, <1>8, <1>9, <1>10, <1>11, <1>12, <1>13, <2>4, <2>5, <2>6, QuietInv
<1>15. CASE l = "idle"
  <2>1. ~ Looking(c)'
    BY <1>9, <1>15 DEF Looking
  <2>2. At(c)' = <<<<>>, SearchBucket(req[c].key, <<>>)>>
    BY <1>2, <1>3, <1>15 DEF At, Bucket
  <2>3. OnPath(req'[c].key, At(c)')
    BY <2>2, <1>3 DEF OnPath
  <2>4. QED
    BY <1>3, <1>4, <1>7, <1>8, <1>9, <1>10, <1>11, <1>12, <1>13, <2>1, <2>3, QuietInv
<1>16. QED
  BY <1>14, <1>15

\* A write that arrives with the value it was posted with.
LEMMA ExecuteInv ==
    ASSUME IInv, NEW c \in Client, NEW w \in posted[c], Execute(c, w), mishap' = {}
    PROVE  IInv'
<1>1. /\ Types /\ Tree /\ LockTellsType /\ Located(c) /\ Placed(c) /\ CachedBy(c) /\ KeysOnPath
      /\ HeldBy(c) /\ LateBy(c) /\ (Looking(c) => SeenBy(c)) /\ OneHolder
  BY Places, InsideIsHolder DEF IInv, Positioned, Cached, Held, Late, Saw
<1>2. /\ lock' = [lock EXCEPT ![w.at] = w.status] /\ posted' = [posted EXCEPT ![c] = @ \ {w}]
      /\ base' = base /\ elists' = elists /\ temp_lock' = temp_lock /\ pc' = pc
      /\ parent' = parent /\ bpath' = bpath /\ seen' = seen /\ cache' = cache
      /\ req' = req /\ ret' = ret /\ ops' = ops
  BY DEF Execute, call
<1>3. PICK a \in DOMAIN base : a = w.at
  BY <1>1 DEF Types
<1>4. w.status \in LockWords /\ w.status # "E_LOCKED"
      /\ (w.status = "P_UNLOCKED" <=> base[a].kind = "plist")
  BY <1>1, <1>3 DEF LateBy, LockWords
<1>5. Out(c, a) /\ Has(c, a) /\ lock[a] = "E_LOCKED"
  <2>1. Out(c, a) /\ Has(c, a)
    BY <1>3 DEF Out, Has
  <2>2. QED
    BY <2>1, <1>1 DEF OneHolder
<1>6. posted'[c] = posted[c] \ {w} /\ \A d \in Client \ {c} : posted'[d] = posted[d]
  BY <1>1, <1>2 DEF Types
<1>7. \A b \in DOMAIN base : lock'[b] = IF b = a THEN w.status ELSE lock[b]
  BY <1>1, <1>2, <1>3 DEF Types
<1>8. Types'
  <2>1. lock' \in [DOMAIN base -> LockWords]
    BY <1>1, <1>2, <1>3, <1>4 DEF Types
  <2>2. posted' \in [Client -> SUBSET [at : DOMAIN base, status : LockWords]]
    BY <1>1, <1>2 DEF Types
  <2>3. QED
    BY <1>1, <1>2, <2>1, <2>2 DEF Types
<1>9. LockTellsType' /\ \A b \in DOMAIN base : lock[b] = "P_UNLOCKED" => lock'[b] = "P_UNLOCKED"
  BY <1>1, <1>2, <1>4, <1>5, <1>7 DEF LockTellsType
<1>10. \A d \in Client \ {c} : Rests(d)
  BY <1>2, <1>6 DEF Rests
<1>11. \A d \in Client : At(d)' = At(d) /\ (Holds(d)' <=> Holds(d)) /\ (Looking(d)' <=> Looking(d))
  BY <1>2, RestsInPlace DEF Holds, Looking
<1>12. OneHolder'
  <2>1. \A d \in Client : \A b : In(d, b)' <=> In(d, b)
    BY <1>11 DEF In
  <2>2. \A d \in Client \ {c} : \A b : Out(d, b)' <=> Out(d, b)
    BY <1>6 DEF Out
  <2>3. \A x \in posted[c] : x.at = a => x = w
    BY <1>1, <1>3 DEF OneHolder
  <2>4. \A b : Out(c, b)' <=> Out(c, b) /\ b # a
    BY <1>3, <1>6, <2>3 DEF Out
  <2>5. \A d \in Client \ {c} : ~ Has(d, a)
    BY <1>1, <1>5 DEF OneHolder
  <2>6. ~ In(c, a)
    BY <1>1, <1>5 DEF OneHolder
  <2>7. \A d \in Client : \A b : Has(d, b)' <=> Has(d, b) /\ b # a
    BY <2>1, <2>2, <2>4, <2>5, <2>6 DEF Has
  <2>8. \A d \in Client : posted'[d] \subseteq posted[d]
    BY <1>6
  <2>9. \A d \in Client : \A b : Out(d, b)' => Out(d, b)
    BY <2>2, <2>4
  <2>10. ASSUME NEW b \in DOMAIN base
         PROVE  lock'[b] = "E_LOCKED" <=> \E d \in Client : Has(d, b)'
    <3>1. lock[b] = "E_LOCKED" <=> \E d \in Client : Has(d, b)
      BY <1>1 DEF OneHolder
    <3>2. QED
      BY <3>1, <2>7, <1>4, <1>7
  <2>11. QED
    BY <1>1, <1>2, <2>1, <2>7, <2>8, <2>9, <2>10 DEF OneHolder
<1>13. Placed(c)' /\ HeldBy(c)' /\ LateBy(c)'
  BY <1>1, <1>2, <1>6, <1>11 DEF Placed, Exists, HeldBy, LateBy
<1>14. CachedBy(c)'
  <2>1. Grows
    BY <1>1, <1>2, <1>9 DEF Types, Grows
  <2>2. QED
    BY <2>1, <1>1, <1>2, CacheKept
<1>15. Looking(c)' => SeenBy(c)'
  <2>1. Below(At(c))' = Below(At(c))
    BY <1>11 DEF Below
  <2>2. \A p : Exists(p)' <=> Exists(p)
    BY <1>2 DEF Exists
  <2>3. \A x : Leads(x)' <=> Leads(x)
    BY <1>2 DEF Leads
  <2>4. QED
    BY <1>1, <1>2, <1>11, <2>1, <2>2, <2>3 DEF SeenBy
<1>16. \A j : Looking(c)' /\ seen'[c].base = EPtr(j) => Claim(j, At(c)')
  BY <1>2, <1>11 DEF Claim
<1>17. OnPath(req'[c].key, At(c)')
  BY <1>1, <1>2, <1>11 DEF KeysOnPath
<1>18. QED
  BY <1>2, <1>8, <1>9, <1>10, <1>12, <1>13, <1>14, <1>15, <1>16, <1>17, QuietInv

-----------------------------------------------------------------------------
(* E-Lists.                                                                 *)

LEMMA LookupIs ==
    ASSUME NEW pairs \in Seq(Pair), NEW k
    PROVE  /\ Lookup(pairs, k) \in Val \cup {None}
           /\ Lookup(pairs, k) = None <=> \A i \in 1..Len(pairs) : pairs[i].key # k
           /\ Unique(pairs) => \A i \in 1..Len(pairs) :
                                 pairs[i].key = k => Lookup(pairs, k) = pairs[i].val
<1> DEFINE S == Positions(pairs, k)
           n == CHOOSE i \in S : TRUE
<1>1. S = {i \in 1..Len(pairs) : pairs[i].key = k}
  BY DEF Positions
<1>2. Lookup(pairs, k) = IF S = {} THEN None ELSE pairs[n].val
  BY DEF Lookup
<1>3. S # {} => n \in S
  OBVIOUS
<1> HIDE DEF n, S
<1>4. \A i \in 1..Len(pairs) : pairs[i].val \in Val
  <2>1. \A i \in 1..Len(pairs) : pairs[i] \in Pair
    OBVIOUS
  <2>2. QED
    BY <2>1 DEF Pair
<1>5. S # {} => n \in 1..Len(pairs) /\ pairs[n].key = k /\ pairs[n].val \in Val
  BY <1>1, <1>3, <1>4
<1>6. Lookup(pairs, k) = None <=> S = {}
  BY <1>2, <1>5, Constants
<1>7. Unique(pairs) => \A i \in 1..Len(pairs) : pairs[i].key = k => Lookup(pairs, k) = pairs[i].val
  <2> SUFFICES ASSUME Unique(pairs), NEW i \in 1..Len(pairs), pairs[i].key = k
               PROVE  Lookup(pairs, k) = pairs[i].val
    OBVIOUS
  <2>1. S # {}
    BY <1>1
  <2>2. n = i
    BY <2>1, <1>5 DEF Unique
  <2>3. QED
    BY <2>1, <2>2, <1>2
<1>8. QED
  BY <1>1, <1>2, <1>5, <1>6, <1>7

\* Two E-Lists with the same pair for a key.
LEMMA SameLookup ==
    ASSUME NEW s \in Seq(Pair), NEW t \in Seq(Pair), Unique(s), Unique(t), NEW k,
           \A i \in 1..Len(s) : s[i].key = k => \E j \in 1..Len(t) : t[j] = s[i],
           \A j \in 1..Len(t) : t[j].key = k => \E i \in 1..Len(s) : s[i] = t[j]
    PROVE  Lookup(s, k) = Lookup(t, k)
<1>1. CASE \A i \in 1..Len(s) : s[i].key # k
  <2>1. \A j \in 1..Len(t) : t[j].key # k
    BY <1>1
  <2>2. QED
    BY <1>1, <2>1, LookupIs
<1>2. CASE \E i \in 1..Len(s) : s[i].key = k
  <2>1. PICK i \in 1..Len(s) : s[i].key = k
    BY <1>2
  <2>2. PICK j \in 1..Len(t) : t[j] = s[i]
    BY <2>1
  <2>3. Lookup(s, k) = s[i].val
    BY <2>1, LookupIs
  <2>4. Lookup(t, k) = t[j].val
    BY <2>1, <2>2, LookupIs
  <2>5. QED
    BY <2>2, <2>3, <2>4
<1>3. QED
  BY <1>1, <1>2

Without(pairs, i) == SubSeq([pairs EXCEPT ![i] = pairs[Len(pairs)]], 1, Len(pairs) - 1)

\* What is left when the last pair takes the place of pair i.
LEMMA WithoutIs ==
    ASSUME NEW pairs \in Seq(Pair), NEW i \in 1..Len(pairs)
    PROVE  /\ Without(pairs, i) \in Seq(Pair) /\ Len(Without(pairs, i)) = Len(pairs) - 1
           /\ \A j \in 1 .. Len(pairs) - 1 :
                Without(pairs, i)[j] = IF j = i THEN pairs[Len(pairs)] ELSE pairs[j]
<1> DEFINE n == Len(pairs)
           s == [pairs EXCEPT ![i] = pairs[n]]
<1>1. n \in Nat /\ i \in 1..n /\ n \in 1..n
  OBVIOUS
<1>2. \A j \in 1..n : pairs[j] \in Pair
  OBVIOUS
<1>3. pairs[n] \in Pair
  BY <1>1, <1>2
<1>4. s \in Seq(Pair) /\ Len(s) = n
      /\ \A j \in 1..n : s[j] = IF j = i THEN pairs[n] ELSE pairs[j]
  BY <1>1, <1>3, ExceptSeq
<1> HIDE DEF s
<1>5. \A j \in 1 .. n - 1 : s[j] \in Pair
  BY <1>1, <1>2, <1>3, <1>4
<1> HIDE DEF n
<1>6. 1 \in Int /\ n - 1 \in Int
  BY <1>1
<1>7. /\ SubSeq(s, 1, n - 1) \in Seq(Pair)
      /\ Len(SubSeq(s, 1, n - 1)) = IF 1 <= n - 1 THEN (n - 1) - 1 + 1 ELSE 0
      /\ \A j \in 1 .. (n - 1) - 1 + 1 : SubSeq(s, 1, n - 1)[j] = s[1 + j - 1]
  BY <1>5, <1>6, SubSeqProperties
<1>8. Len(SubSeq(s, 1, n - 1)) = n - 1
  BY <1>1, <1>7
<1>9. \A j \in 1 .. n - 1 : SubSeq(s, 1, n - 1)[j] = s[j]
  <2> SUFFICES ASSUME NEW j \in 1 .. n - 1
               PROVE  SubSeq(s, 1, n - 1)[j] = s[j]
    OBVIOUS
  <2>1. j \in 1 .. (n - 1) - 1 + 1 /\ 1 + j - 1 = j
    BY <1>1
  <2>2. QED
    BY <2>1, <1>7
<1>10. \A j \in 1 .. n - 1 : j \in 1..n
  BY <1>1
<1>11. Without(pairs, i) = SubSeq(s, 1, n - 1)
  BY DEF Without, s, n
<1>12. QED
  BY <1>4, <1>7, <1>8, <1>9, <1>10, <1>11 DEF n

\* The keys of s are keys of t, or k.
KeysFrom(s, t, k) ==
    \A i \in 1..Len(s) : s[i].key = k \/ \E j \in 1..Len(t) : s[i].key = t[j].key

LEMMA RemoveEffect ==
    ASSUME NEW s \in Seq(Pair), Unique(s), NEW k, NEW i \in 1..Len(s), s[i].key = k
    PROVE  LET x == Without(s, i) IN
           /\ x \in Seq(Pair) /\ Unique(x) /\ KeysFrom(x, s, k)
           /\ \A key : Lookup(x, key) = IF key = k THEN None ELSE Lookup(s, key)
<1> DEFINE x == Without(s, i)
           n == Len(s)
<1>1. /\ x \in Seq(Pair) /\ Len(x) = n - 1 /\ n \in Nat /\ n \in 1..n
      /\ \A j \in 1 .. n - 1 : x[j] = IF j = i THEN s[n] ELSE s[j]
  BY WithoutIs
<1> HIDE DEF x, n
<1>2. \A j \in 1..Len(x) : \E m \in 1..n : x[j] = s[m] /\ m # i /\ m = IF j = i THEN n ELSE j
  <2> SUFFICES ASSUME NEW j \in 1..Len(x)
               PROVE  \E m \in 1..n : x[j] = s[m] /\ m # i /\ m = IF j = i THEN n ELSE j
    OBVIOUS
  <2>1. j \in 1 .. n - 1 /\ j \in 1..n /\ j # n
    BY <1>1
  <2>2. CASE j = i
    BY <2>1, <2>2, <1>1
  <2>3. CASE j # i
    BY <2>1, <2>3, <1>1
  <2>4. QED
    BY <2>2, <2>3
<1>3. \A m \in 1..n : m # i => \E j \in 1..Len(x) : x[j] = s[m]
  <2> SUFFICES ASSUME NEW m \in 1..n, m # i
               PROVE  \E j \in 1..Len(x) : x[j] = s[m]
    OBVIOUS
  <2>1. i \in 1..n /\ i \in Nat /\ m \in Nat
    BY <1>1 DEF n
  <2>2. CASE m = n
    <3>1. i \in 1 .. n - 1
      BY <2>1, <2>2, <1>1
    <3>2. QED
      BY <3>1, <2>2, <1>1
  <2>3. CASE m # n
    <3>1. m \in 1 .. n - 1
      BY <2>1, <2>3, <1>1
    <3>2. QED
      BY <3>1, <1>1
  <2>4. QED
    BY <2>2, <2>3
<1>4. Unique(x)
  <2> SUFFICES ASSUME NEW j1 \in 1..Len(x), NEW j2 \in 1..Len(x), x[j1].key = x[j2].key
               PROVE  j1 = j2
    BY DEF Unique
  <2>1. PICK m1 \in 1..n : x[j1] = s[m1] /\ m1 # i /\ m1 = IF j1 = i THEN n ELSE j1
    BY <1>2
  <2>2. PICK m2 \in 1..n : x[j2] = s[m2] /\ m2 # i /\ m2 = IF j2 = i THEN n ELSE j2
    BY <1>2
  <2>3. m1 = m2
    BY <2>1, <2>2 DEF Unique, n
  <2>4. j1 # n /\ j2 # n
    BY <1>1
  <2>5. QED
    BY <2>1, <2>2, <2>3, <2>4
<1>5. KeysFrom(x, s, k)
  BY <1>2 DEF KeysFrom, n
<1>6. ASSUME NEW key
      PROVE  Lookup(x, key) = IF key = k THEN None ELSE Lookup(s, key)
  <2>1. CASE key = k
    <3>1. \A j \in 1..Len(x) : x[j].key # k
      <4> SUFFICES ASSUME NEW j \in 1..Len(x), x[j].key = k
                   PROVE  FALSE
        OBVIOUS
      <4>1. PICK m \in 1..n : x[j] = s[m] /\ m # i
        BY <1>2
      <4>2. QED
        BY <4>1 DEF Unique, n
    <3>2. QED
      BY <2>1, <3>1, <1>1, LookupIs
  <2>2. CASE key # k
    <3>1. \A m \in 1..Len(s) : s[m].key = key => \E j \in 1..Len(x) : x[j] = s[m]
      BY <1>3, <2>2 DEF n
    <3>2. \A j \in 1..Len(x) : x[j].key = key => \E m \in 1..Len(s) : s[m] = x[j]
      BY <1>2 DEF n
    <3>3. Lookup(s, key) = Lookup(x, key)
      BY <3>1, <3>2, <1>1, <1>4, SameLookup
    <3>4. QED
      BY <2>2, <3>3
  <2>3. QED
    BY <2>1, <2>2
<1>7. QED
  BY <1>1, <1>4, <1>5, <1>6 DEF x

LEMMA InsertEffect ==
    ASSUME NEW s \in Seq(Pair), Unique(s), NEW e \in Pair, Lookup(s, e.key) = None
    PROVE  LET x == Append(s, e) IN
           /\ x \in Seq(Pair) /\ Unique(x) /\ KeysFrom(x, s, e.key)
           /\ \A key : Lookup(x, key) = IF key = e.key THEN e.val ELSE Lookup(s, key)
<1> DEFINE x == Append(s, e)
           n == Len(s)
<1>1. x \in Seq(Pair) /\ Len(x) = n + 1 /\ n \in Nat /\ x[n + 1] = e
  OBVIOUS
<1>2. \A i \in 1..n : x[i] = s[i]
  BY SMTT(30)
<1>3. \A i \in 1..n : s[i].key # e.key
  BY LookupIs
<1> HIDE DEF x, n
<1>4. \A i \in 1..Len(x) : i \in 1..n \/ i = n + 1
  BY <1>1
<1>5. n + 1 \in 1..Len(x) /\ \A i \in 1..n : i \in 1..Len(x)
  BY <1>1
<1>6. Unique(x)
  <2> SUFFICES ASSUME NEW i \in 1..Len(x), NEW j \in 1..Len(x), x[i].key = x[j].key
               PROVE  i = j
    BY DEF Unique
  <2>1. CASE i \in 1..n /\ j \in 1..n
    BY <2>1, <1>2 DEF Unique, n
  <2>2. CASE i = n + 1 \/ j = n + 1
    BY <2>2, <1>1, <1>2, <1>3, <1>4
  <2>3. QED
    BY <2>1, <2>2, <1>4
<1>7. KeysFrom(x, s, e.key)
  BY <1>1, <1>2, <1>4 DEF KeysFrom, n
<1>8. ASSUME NEW key
      PROVE  Lookup(x, key) = IF key = e.key THEN e.val ELSE Lookup(s, key)
  <2>1. CASE key = e.key
    BY <2>1, <1>1, <1>5, <1>6, LookupIs
  <2>2. CASE key # e.key
    <3>1. \A m \in 1..Len(s) : s[m].key = key => \E j \in 1..Len(x) : x[j] = s[m]
      BY <1>2, <1>5 DEF n
    <3>2. \A j \in 1..Len(x) : x[j].key = key => \E m \in 1..Len(s) : s[m] = x[j]
      BY <1>1, <1>2, <1>4, <2>2 DEF n
    <3>3. Lookup(s, key) = Lookup(x, key)
      BY <3>1, <3>2, <1>1, <1>6, SameLookup
    <3>4. QED
      BY <2>2, <3>3
  <2>3. QED
    BY <2>1, <2>2
<1>9. QED
  BY <1>1, <1>6, <1>7, <1>8 DEF x

-----------------------------------------------------------------------------
(* Steps under the lock of a bucket.                                        *)

\* A client that has locked a bucket uses no E-List, or one that is or was the
\* bucket's.
LEMMA LockedSees ==
    ASSUME IInv, NEW c \in Client, pc[c] = "locked"
    PROVE  /\ Holds(c) /\ Looking(c) /\ seen[c].base.kind # "plist" /\ base[At(c)].kind # "plist"
           /\ \/ seen[c].base = Null /\ Pairs(c) = <<>>
              \/ \E j \in 1..Len(elists) :
                    seen[c].base = EPtr(j) /\ Pairs(c) = elists[j] /\ Claim(j, At(c))
                    /\ seen[c].base.at[1] = j /\ seen[c].base # Null
           /\ Pairs(c) \in Seq(Pair) /\ Unique(Pairs(c))
<1>1. Types /\ Looking(c) /\ Holds(c) /\ SeenBy(c) /\ HeldBy(c) /\ KeysUnique
  BY DEF IInv, Saw, Held, Looking, Holds
<1>2. seen[c].base.kind # "plist" /\ base[At(c)].kind # "plist"
  BY <1>1 DEF SeenBy, HeldBy
<1>3. elists \in Seq(Seq(Pair)) /\ Len(elists) \in Nat
  BY <1>1 DEF Types
<1>4. CASE seen[c].base = Null
  <2>1. Pairs(c) = <<>>
    BY <1>4, PointerKinds DEF Pairs, Contents
  <2>2. <<>> \in Seq(Pair) /\ Unique(<<>>)
    BY DEF Unique
  <2>3. QED
    BY <1>1, <1>2, <1>4, <2>1, <2>2
<1>5. CASE seen[c].base # Null
  <2>1. PICK j \in 1..Len(elists) : seen[c].base = EPtr(j)
    BY <1>1, <1>2, <1>5 DEF SeenBy, Leads
  <2>2. j \in Nat
    BY <1>3
  <2>3. seen[c].base.at[1] = j /\ seen[c].base.kind = "elist"
    BY <2>1, <2>2, PointerKinds
  <2>4. Pairs(c) = elists[j]
    BY <2>3 DEF Pairs, Contents
  <2>5. elists[j] \in Seq(Pair) /\ Unique(elists[j])
    BY <1>1, <1>3 DEF KeysUnique
  <2>6. Claim(j, At(c))
    BY <1>1, <2>1 DEF Claim
  <2>7. QED
    BY <1>1, <1>2, <1>5, <2>1, <2>3, <2>4, <2>5, <2>6
<1>6. QED
  BY <1>4, <1>5

\* The value of the key of c after its operation.
After(c) == IF req[c].op = "remove" THEN None
            ELSE IF req[c].op = "insert" /\ Found(c) = None THEN req[c].val
            ELSE Found(c)

\* It leaves the E-List it uses alone, writes it, or allocates one.
Same(c) == base' = base /\ elists' = elists /\ After(c) = Found(c)
Writes(c, j, x) ==
    /\ seen[c].base = EPtr(j) /\ Pairs(c) = elists[j]
    /\ base' = base /\ elists' = [elists EXCEPT ![j] = x]
    /\ x \in Seq(Pair) /\ Unique(x) /\ KeysFrom(x, elists[j], req[c].key)
    /\ \A k : Lookup(x, k) = IF k = req[c].key THEN After(c) ELSE Lookup(elists[j], k)
Allocates(c) ==
    /\ seen[c].base = Null /\ NewPair(c) \in Pair /\ After(c) = req[c].val
    /\ elists' = Append(elists, <<NewPair(c)>>)
    /\ base' = [base EXCEPT ![At(c)] = EPtr(Len(elists) + 1)]

LEMMA Changes ==
    ASSUME IInv, NEW c \in Client, Contains(c) \/ Remove(c) \/ Insert(c)
    PROVE  /\ pc[c] = "locked" /\ pc' = [pc EXCEPT ![c] = "unlock"]
           /\ ret' = [ret EXCEPT ![c] = Found(c)]
           /\ lock' = lock /\ parent' = parent /\ bpath' = bpath /\ seen' = seen
           /\ cache' = cache /\ req' = req /\ ops' = ops /\ UNCHANGED late
           /\ Same(c) \/ Allocates(c) \/ \E j \in 1..Len(elists) : \E x : Writes(c, j, x)
<1>1. PICK op \in {"contains", "remove", "insert"} :
         Return(c, op) /\ (op = "contains" => Contains(c)) /\ (op = "remove" => Remove(c))
         /\ (op = "insert" => Insert(c))
  BY DEF Contains, Remove, Insert
<1>2. /\ pc[c] = "locked" /\ pc' = [pc EXCEPT ![c] = "unlock"] /\ req[c].op = op
      /\ ret' = [ret EXCEPT ![c] = Found(c)]
      /\ lock' = lock /\ parent' = parent /\ bpath' = bpath /\ seen' = seen
      /\ cache' = cache /\ req' = req /\ ops' = ops /\ UNCHANGED late
  BY <1>1 DEF Return, Go, late
<1>3. /\ \/ seen[c].base = Null /\ Pairs(c) = <<>>
         \/ \E j \in 1..Len(elists) :
               seen[c].base = EPtr(j) /\ Pairs(c) = elists[j] /\ seen[c].base.at[1] = j
               /\ seen[c].base # Null
      /\ Pairs(c) \in Seq(Pair) /\ Unique(Pairs(c))
  BY <1>2, LockedSees
<1>4. Found(c) = Lookup(Pairs(c), req[c].key)
  BY DEF Found
<1>5. CASE op = "contains"
  BY <1>1, <1>2, <1>5 DEF Contains, Same, After
<1>6. CASE op = "remove"
  <2>1. After(c) = None
    BY <1>2, <1>6 DEF After
  <2>2. CASE Found(c) = None /\ base' = base /\ elists' = elists
    BY <1>2, <2>1, <2>2 DEF Same
  <2>3. CASE base' = base /\ \E i \in Positions(Pairs(c), req[c].key) :
                               Put(c, Without(Pairs(c), i))
    <3>1. PICK i \in Positions(Pairs(c), req[c].key) : Put(c, Without(Pairs(c), i))
      BY <2>3
    <3>2. i \in 1..Len(Pairs(c)) /\ Pairs(c)[i].key = req[c].key
      BY DEF Positions
    <3>3. seen[c].base # Null
      <4>1. Pairs(c) # <<>>
        BY <3>2
      <4>2. QED
        BY <4>1, <1>3
    <3>4. PICK j \in 1..Len(elists) :
             seen[c].base = EPtr(j) /\ Pairs(c) = elists[j] /\ seen[c].base.at[1] = j
      BY <1>3, <3>3
    <3> DEFINE x == Without(Pairs(c), i)
    <3>5. /\ x \in Seq(Pair) /\ Unique(x) /\ KeysFrom(x, Pairs(c), req[c].key)
          /\ \A k : Lookup(x, k) = IF k = req[c].key THEN None ELSE Lookup(Pairs(c), k)
      BY <1>3, <3>2, RemoveEffect
    <3> HIDE DEF x
    <3>6. elists' = [elists EXCEPT ![j] = x]
      BY <3>1, <3>4 DEF Put, x
    <3>7. Writes(c, j, x)
      BY <2>1, <2>3, <3>4, <3>5, <3>6 DEF Writes
    <3>8. QED
      BY <1>2, <3>7
  <2>4. QED
    BY <1>1, <1>6, <2>2, <2>3 DEF Remove, Without
<1>7. CASE op = "insert"
  <2>1. req[c].key \in Key /\ req[c].val \in Val
    <3>1. req[c] \in Request
      BY DEF IInv, Types
    <3>2. QED
      BY <3>1, <1>2, <1>7, RequestFields
  <2>2. NewPair(c) \in Pair /\ NewPair(c).key = req[c].key /\ NewPair(c).val = req[c].val
    BY <2>1 DEF NewPair, Pair
  <2>3. CASE /\ seen[c].base = Null
             /\ elists' = Append(elists, <<NewPair(c)>>)
             /\ base' = [base EXCEPT ![At(c)] = EPtr(Len(elists'))]
    <3>1. Len(elists') = Len(elists) + 1
      BY <2>3 DEF IInv, Types
    <3>2. Found(c) = None
      <4>1. Pairs(c) = <<>>
        BY <1>3, <2>3
      <4>2. \A i \in 1..Len(Pairs(c)) : Pairs(c)[i].key # req[c].key
        BY <4>1
      <4>3. QED
        BY <4>2, <1>3, <1>4, LookupIs
    <3>3. After(c) = req[c].val
      BY <3>2, <1>2, <1>7 DEF After
    <3>4. Allocates(c)
      BY <2>2, <2>3, <3>1, <3>3 DEF Allocates
    <3>5. QED
      BY <1>2, <3>4
  <2>4. CASE Found(c) # None /\ base' = base /\ elists' = elists
    BY <1>2, <1>7, <2>4 DEF Same, After
  <2>5. CASE /\ seen[c].base # Null /\ Found(c) = None
             /\ Put(c, Append(Pairs(c), NewPair(c))) /\ base' = base
    <3>1. PICK j \in 1..Len(elists) :
             seen[c].base = EPtr(j) /\ Pairs(c) = elists[j] /\ seen[c].base.at[1] = j
      BY <1>3, <2>5
    <3> DEFINE x == Append(Pairs(c), NewPair(c))
    <3>2. After(c) = req[c].val
      BY <2>5, <1>2, <1>7 DEF After
    <3>3. Lookup(Pairs(c), NewPair(c).key) = None
      BY <2>2, <2>5, <1>4
    <3>4. /\ x \in Seq(Pair) /\ Unique(x) /\ KeysFrom(x, Pairs(c), req[c].key)
          /\ \A k : Lookup(x, k) = IF k = req[c].key THEN req[c].val ELSE Lookup(Pairs(c), k)
      BY <1>3, <2>2, <3>3, InsertEffect
    <3> HIDE DEF x
    <3>5. elists' = [elists EXCEPT ![j] = x]
      BY <2>5, <3>1 DEF Put, x
    <3>6. Writes(c, j, x)
      BY <2>5, <3>1, <3>2, <3>4, <3>5 DEF Writes
    <3>7. QED
      BY <1>2, <3>6
  <2>6. QED
    BY <1>1, <1>7, <2>3, <2>4, <2>5 DEF Insert
<1>8. QED
  BY <1>5, <1>6, <1>7

\* What such a step makes of the pointers and of the E-Lists.
LEMMA UpdateLists ==
    ASSUME IInv, NEW c \in Client, Contains(c) \/ Remove(c) \/ Insert(c)
    PROVE  LET n == Len(elists) IN
           /\ base' \in [DOMAIN base -> Pointer] /\ elists' \in Seq(Seq(Pair))
           /\ n \in Nat /\ Len(elists') \in Nat /\ n <= Len(elists')
           /\ \A b \in DOMAIN base : base'[b] # base[b] =>
                 b = At(c) /\ base'[b] = EPtr(n + 1) /\ n + 1 \in 1..Len(elists')
           /\ \A j \in 1..n : /\ Unique(elists'[j]) /\ KeysFrom(elists'[j], elists[j], req[c].key)
                              /\ elists'[j] = elists[j] \/ seen[c].base = EPtr(j)
           /\ \A j \in 1..Len(elists') : j \notin 1..n =>
                 j = n + 1 /\ Unique(elists'[j]) /\ base'[At(c)] = EPtr(n + 1)
                 /\ \A i \in 1..Len(elists'[j]) : elists'[j][i].key = req[c].key
<1> DEFINE n == Len(elists)
<1>1. Types /\ KeysUnique /\ Located(c)
  BY Places DEF IInv
<1>2. elists \in Seq(Seq(Pair)) /\ n \in Nat /\ base \in [DOMAIN base -> Pointer]
      /\ At(c) \in DOMAIN base /\ \A j \in 1..n : Unique(elists[j])
  BY <1>1 DEF Types, KeysUnique, Located
<1>3. \A j \in 1..n : KeysFrom(elists[j], elists[j], req[c].key)
  BY DEF KeysFrom
<1> HIDE DEF n
<1>4. CASE Same(c)
  BY <1>2, <1>3, <1>4 DEF Same, n
<1>5. ASSUME NEW m \in 1..n, NEW x, Writes(c, m, x)
      PROVE  /\ base' = base /\ elists' \in Seq(Seq(Pair)) /\ Len(elists') = n
             /\ \A j \in 1..n : /\ Unique(elists'[j])
                                /\ KeysFrom(elists'[j], elists[j], req[c].key)
                                /\ elists'[j] = elists[j] \/ seen[c].base = EPtr(j)
  <2>1. /\ base' = base /\ elists' = [elists EXCEPT ![m] = x] /\ seen[c].base = EPtr(m)
        /\ x \in Seq(Pair) /\ Unique(x) /\ KeysFrom(x, elists[m], req[c].key)
    BY <1>5 DEF Writes
  <2>2. elists' \in Seq(Seq(Pair)) /\ Len(elists') = n
        /\ \A j \in 1..n : elists'[j] = IF j = m THEN x ELSE elists[j]
    BY <2>1, <1>2, ExceptSeq DEF n
  <2>3. QED
    BY <2>1, <2>2, <1>2, <1>3
<1>6. CASE \E m \in 1..n : \E x : Writes(c, m, x)
  <2>0. PICK m \in 1..n : \E x : Writes(c, m, x)
    BY <1>6
  <2>1. PICK x : Writes(c, m, x)
    BY <2>0
  <2>2. /\ base' = base /\ elists' \in Seq(Seq(Pair)) /\ Len(elists') = n
        /\ \A j \in 1..n : /\ Unique(elists'[j]) /\ KeysFrom(elists'[j], elists[j], req[c].key)
                           /\ elists'[j] = elists[j] \/ seen[c].base = EPtr(j)
    BY <2>1, <1>5
  <2>3. QED
    BY <2>2, <1>2 DEF n
<1>7. CASE Allocates(c)
  <2> DEFINE e == <<NewPair(c)>>
  <2>1. /\ NewPair(c) \in Pair /\ elists' = Append(elists, e)
        /\ base' = [base EXCEPT ![At(c)] = EPtr(n + 1)]
    BY <1>7 DEF Allocates, n
  <2>2. e \in Seq(Pair) /\ Len(e) = 1 /\ e[1] = NewPair(c) /\ NewPair(c).key = req[c].key
    BY <2>1 DEF NewPair
  <2> HIDE DEF e
  <2>3. Unique(e) /\ \A i \in 1..Len(e) : e[i].key = req[c].key
    BY <2>2 DEF Unique
  <2>4. elists' \in Seq(Seq(Pair)) /\ Len(elists') = n + 1 /\ elists'[n + 1] = e
    BY <2>1, <2>2, <1>2 DEF n
  <2>5. \A j \in 1..n : elists'[j] = elists[j]
    BY <2>1, <2>2, <1>2, SMTT(30) DEF n
  <2>6. n + 1 \in 1..Len(elists') /\ n <= Len(elists') /\ Len(elists') \in Nat
        /\ \A j \in 1..Len(elists') : j \notin 1..n => j = n + 1
    BY <2>4, <1>2
  <2>7. EPtr(n + 1) \in Pointer
    <3>1. n + 1 \in Nat
      BY <1>2
    <3>2. QED
      BY <3>1, PointerKinds
  <2>8. base' \in [DOMAIN base -> Pointer] /\ base'[At(c)] = EPtr(n + 1)
        /\ \A b \in DOMAIN base : b # At(c) => base'[b] = base[b]
    BY <2>1, <2>7, <1>2
  <2>9. \A j \in 1..n : /\ Unique(elists'[j]) /\ KeysFrom(elists'[j], elists[j], req[c].key)
                        /\ elists'[j] = elists[j]
    BY <2>5, <1>2, <1>3
  <2>10. \A j \in 1..Len(elists') : j \notin 1..n =>
                 j = n + 1 /\ Unique(elists'[j])
                 /\ \A i \in 1..Len(elists'[j]) : elists'[j][i].key = req[c].key
    BY <2>3, <2>4, <2>6
  <2>11. QED
    BY <2>4, <2>6, <2>8, <2>9, <2>10, <1>2 DEF n
<1>8. QED
  BY <1>4, <1>6, <1>7, Changes DEF n

LEMMA UpdateInv ==
    ASSUME IInv, NEW c \in Client, Contains(c) \/ Remove(c) \/ Insert(c)
    PROVE  IInv'
<1>0. PICK n : n = Len(elists)
  OBVIOUS
<1>1. /\ Types /\ Tree /\ LockTellsType /\ Located(c) /\ Placed(c) /\ CachedBy(c) /\ KeysOnPath
      /\ HeldBy(c) /\ LateBy(c) /\ OneHolder /\ Owned /\ Saw
  BY Places, InsideIsHolder DEF IInv, Positioned, Cached, Held, Late
<1>2. /\ pc[c] = "locked" /\ pc' = [pc EXCEPT ![c] = "unlock"]
      /\ ret' = [ret EXCEPT ![c] = Found(c)]
      /\ lock' = lock /\ parent' = parent /\ bpath' = bpath /\ seen' = seen
      /\ cache' = cache /\ req' = req /\ ops' = ops
      /\ posted' = posted /\ temp_lock' = temp_lock
  BY Changes DEF late
<1>3. /\ base' \in [DOMAIN base -> Pointer] /\ elists' \in Seq(Seq(Pair))
      /\ n \in Nat /\ Len(elists') \in Nat /\ n <= Len(elists')
      /\ \A b \in DOMAIN base : base'[b] # base[b] =>
            b = At(c) /\ base'[b] = EPtr(n + 1) /\ n + 1 \in 1..Len(elists')
      /\ \A j \in 1..n : /\ Unique(elists'[j]) /\ KeysFrom(elists'[j], elists[j], req[c].key)
                         /\ elists'[j] = elists[j] \/ seen[c].base = EPtr(j)
      /\ \A j \in 1..Len(elists') : j \notin 1..n =>
            j = n + 1 /\ Unique(elists'[j]) /\ base'[At(c)] = EPtr(n + 1)
            /\ \A i \in 1..Len(elists'[j]) : elists'[j][i].key = req[c].key
  BY <1>0, UpdateLists
<1>4. /\ DOMAIN base' = DOMAIN base /\ At(c) \in DOMAIN base /\ Holds(c) /\ Looking(c)
      /\ base[At(c)].kind # "plist" /\ EPtr(n + 1).kind = "elist" /\ base'[At(c)].kind # "plist"
  <2>1. n + 1 \in Nat
    BY <1>3
  <2>2. EPtr(n + 1).kind = "elist"
    BY <2>1, PointerKinds
  <2>3. Holds(c) /\ Looking(c) /\ base[At(c)].kind # "plist" /\ At(c) \in DOMAIN base
    BY <1>1, <1>2, LockedSees DEF Located
  <2>4. QED
    BY <2>2, <2>3, <1>3
<1>5. \A b \in DOMAIN base : /\ base[b].kind = "plist" => base'[b] = base[b]
                             /\ base'[b].kind = "plist" => base'[b] = base[b]
  BY <1>3, <1>4
<1>6. Types'
  <2>1. pc' \in [Client -> Label]
    BY <1>1, <1>2 DEF Types, Label
  <2>2. ret' \in [Client -> Val \cup {None}]
    <3>1. Found(c) \in Val \cup {None}
      BY <1>2, LockedSees, LookupIs DEF Found
    <3>2. QED
      BY <3>1, <1>1, <1>2 DEF Types
  <2>3. QED
    BY <1>1, <1>2, <1>3, <1>4, <2>1, <2>2 DEF Types
<1>7. \A d \in Client \ {c} : Rests(d)
  BY <1>1, <1>2 DEF Rests, Types
<1>8. Grows
  BY <1>0, <1>2, <1>3, <1>4, <1>5 DEF Grows
<1>9. Tree'
  <2>1. \A p : Exists(p)' <=> Exists(p)
    BY <1>4 DEF Exists
  <2>2. ASSUME NEW b \in DOMAIN base
        PROVE  Leads(base[b])'
    <3>1. CASE base'[b] = base[b]
      <4>1. Leads(base[b])
        BY <1>1 DEF Tree
      <4>2. \A x : Leads(x) => Leads(x)'
        BY <1>1, <1>6, <1>8, LeadsKept
      <4>3. QED
        BY <3>1, <4>1, <4>2
    <3>2. CASE base'[b] # base[b]
      BY <3>2, <1>3 DEF Leads
    <3>3. QED
      BY <3>1, <3>2
  <2>3. QED
    BY <2>1, <2>2, <1>1, <1>4, <1>5 DEF Tree
<1>10. LockTellsType'
  BY <1>1, <1>2, <1>4, <1>5 DEF LockTellsType
<1>11. \A d \in Client : At(d)' = At(d)
  BY <1>2, RestsInPlace
<1>12. pc'[c] = "unlock" /\ Holds(c)' /\ ~ Looking(c)' /\ HeldBy(c)'
  BY <1>1, <1>2, <1>4, <1>11 DEF Types, Holds, Looking, HeldBy
<1>13. OneHolder'
  <2>1. \A d \in Client : Holds(d)' <=> Holds(d)
    BY <1>4, <1>7, <1>12 DEF Rests, Holds
  <2>2. \A d \in Client, b \in DOMAIN base : In(d, b)' <=> In(d, b)
    BY <1>11, <2>1 DEF In
  <2>3. QED
    BY <1>1, <1>2, <1>4, <2>2, HoldersKept
<1>14. (\A d \in Client \ {c} : Spared(d)) /\ LateBy(c)'
  <2>1. \A d \in Client : Spared(d)
    BY <1>5 DEF Spared
  <2>2. \A w \in posted[c] : w.at \in DOMAIN base
    BY <1>1 DEF Types
  <2>3. LateBy(c)'
    BY <2>2, <1>1, <1>2, <1>5 DEF LateBy
  <2>4. QED
    BY <2>1, <2>3
<1>15. Placed(c)' /\ CachedBy(c)'
  <2>1. Placed(c)'
    BY <1>1, <1>2, <1>4, <1>12 DEF Placed, Exists
  <2>2. CachedBy(c)'
    BY <1>1, <1>2, <1>8, CacheKept
  <2>3. QED
    BY <2>1, <2>2
<1>16. ASSUME NEW j \in 1..n, NEW b, Claim(j, b)'
       PROVE  Claim(j, b)
  <2>1. j \in Nat /\ n + 1 \in Nat /\ j # n + 1
    BY <1>3
  <2>2. b \in DOMAIN base' /\ base'[b] = EPtr(j) => Claim(j, b)
    <3> SUFFICES ASSUME b \in DOMAIN base', base'[b] = EPtr(j)
                 PROVE  Claim(j, b)
      OBVIOUS
    <3>1. base'[b] # EPtr(n + 1)
      BY <2>1, EPtrUnique
    <3>2. base'[b] = base[b] /\ b \in DOMAIN base
      BY <3>1, <1>3, <1>4
    <3>3. QED
      BY <3>2 DEF Claim
  <2>3. QED
    BY <1>7, <1>12, <1>16, <2>2, ClaimsKept
<1>17. ASSUME NEW b, Claim(n + 1, b)'
       PROVE  b = At(c)
  <2>1. n + 1 \in Nat /\ \A j \in 1..n : j \in Nat /\ j # n + 1
    BY <1>3
  <2>2. \A x : Leads(x) => x # EPtr(n + 1)
    <3> SUFFICES Leads(EPtr(n + 1)) => FALSE
      OBVIOUS
    <3>1. EPtr(n + 1) # Null /\ EPtr(n + 1).kind # "plist"
      BY <1>4, PointerKinds
    <3>2. \A j \in 1..n : EPtr(n + 1) # EPtr(j)
      BY <2>1, EPtrUnique
    <3>3. QED
      BY <1>0, <3>1, <3>2 DEF Leads
  <2>3. CASE b \in DOMAIN base' /\ base'[b] = EPtr(n + 1)
    <3>1. Leads(base[b])
      BY <2>3, <1>1, <1>4 DEF Tree
    <3>2. base'[b] # base[b]
      BY <3>1, <2>2, <2>3
    <3>3. QED
      BY <3>2, <2>3, <1>3, <1>4
  <2>4. CASE \E d \in Client : Looking(d)' /\ At(d)' = b /\ seen'[d].base = EPtr(n + 1)
    <3>1. PICK d \in Client : Looking(d)' /\ seen'[d].base = EPtr(n + 1)
      BY <2>4
    <3>2. Looking(d) /\ seen[d].base = EPtr(n + 1)
      BY <3>1, <1>2, <1>7, <1>12 DEF Looking, Rests
    <3>3. Leads(seen[d].base)
      BY <3>2, <1>1 DEF Saw, SeenBy
    <3>4. QED
      BY <3>2, <3>3, <2>2
  <2>5. QED
    BY <1>17, <2>3, <2>4 DEF Claim
<1>18. Owned'
  <2> SUFFICES ASSUME NEW j \in 1..Len(elists'), NEW b \in DOMAIN base, NEW d \in DOMAIN base,
                      Claim(j, b)', Claim(j, d)'
               PROVE  b = d
    BY <1>4 DEF Owned
  <2>1. CASE j \in 1..n
    BY <1>0, <2>1, <1>1, <1>16 DEF Owned
  <2>2. CASE j \notin 1..n
    <3>1. j = n + 1
      BY <2>2, <1>3
    <3>2. QED
      BY <3>1, <1>17
  <2>3. QED
    BY <2>1, <2>2
<1>19. KeysUnique'
  BY <1>3 DEF KeysUnique
<1>20. KeysOnPath'
  <2> SUFFICES /\ \A d \in Client : OnPath(req'[d].key, At(d)')
               /\ \A j \in 1..Len(elists') : \A b \in DOMAIN base : Claim(j, b)' =>
                      \A i \in 1..Len(elists'[j]) : OnPath(elists'[j][i].key, b)
    BY <1>4 DEF KeysOnPath, OnPath, SearchBucket
  <2>1. \A d \in Client : OnPath(req'[d].key, At(d)')
    BY <1>1, <1>2, <1>11 DEF KeysOnPath
  <2>2. OnPath(req[c].key, At(c))
    BY <1>1 DEF KeysOnPath
  <2>3. ASSUME NEW j \in 1..Len(elists'), NEW b \in DOMAIN base, Claim(j, b)',
               NEW i \in 1..Len(elists'[j])
        PROVE  OnPath(elists'[j][i].key, b)
    <3>1. CASE j \notin 1..n
      <4>1. j = n + 1 /\ elists'[j][i].key = req[c].key
        BY <3>1, <1>3
      <4>2. b = At(c)
        BY <4>1, <2>3, <1>17
      <4>3. QED
        BY <4>1, <4>2, <2>2
    <3>2. CASE j \in 1..n
      <4>1. Claim(j, b) /\ \A m \in 1..Len(elists[j]) : OnPath(elists[j][m].key, b)
        BY <1>0, <2>3, <3>2, <1>1, <1>16 DEF KeysOnPath
      <4>2. CASE elists'[j] = elists[j]
        BY <4>1, <4>2
      <4>3. CASE seen[c].base = EPtr(j)
        <5>1. Claim(j, At(c))
          BY <4>3, <1>4 DEF Claim
        <5>2. b = At(c)
          BY <1>0, <5>1, <4>1, <3>2, <1>1, <1>4 DEF Owned
        <5>3. elists'[j][i].key = req[c].key
              \/ \E m \in 1..Len(elists[j]) : elists'[j][i].key = elists[j][m].key
          BY <3>2, <1>3 DEF KeysFrom
        <5>4. QED
          BY <5>2, <5>3, <4>1, <2>2
      <4>4. QED
        BY <4>2, <4>3, <3>2, <1>3
    <3>3. QED
      BY <3>1, <3>2
  <2>4. QED
    BY <2>1, <2>3
<1>21. QED
  BY <1>6, <1>7, <1>8, <1>9, <1>10, <1>12, <1>13, <1>14, <1>15, <1>18, <1>19, <1>20, StepInv

-----------------------------------------------------------------------------
(* The numbering of rehash.                                                 *)

LEMMA LeastOne == ASSUME NEW S \in SUBSET Nat, S # {}
                  PROVE  \E m \in S : \A o \in S : m <= o
<1>1. PICK m \in S : \A o \in S : ~ (<<o, m>> \in OpToRel(<, Nat))
  BY WFMin, NatLessThanWellFounded
<1>2. \A o \in S : ~ (o < m)
  BY <1>1, Zenon DEF OpToRel
<1>3. \A o \in S : m <= o
  BY <1>2
<1>4. QED
  BY <1>3

\* Rank numbers the elements of a set from 1, and Nth is its inverse.
LEMMA NthIs ==
    ASSUME NEW m \in Nat, NEW I \in SUBSET (0..m)
    PROVE  /\ IsFiniteSet(I) /\ Cardinality(I) \in Nat
           /\ \A n \in 1..Cardinality(I) : Nth(I, n) \in I /\ Rank(I, Nth(I, n)) = n
           /\ \A j \in I : Rank(I, j) \in 1..Cardinality(I) /\ Nth(I, Rank(I, j)) = j
<1> DEFINE R(j) == {i \in I : i <= j}
           card == Cardinality(I)
<1>1. \A i \in I : i \in Nat /\ i <= m /\ ~ (i <= -1)
  <2>1. \A i \in 0..m : i \in Nat /\ i <= m /\ ~ (i <= -1)
    OBVIOUS
  <2>2. QED
    BY <2>1
<1>2. IsFiniteSet(I) /\ card \in Nat
  <2>1. 0 \in Int /\ m \in Int
    OBVIOUS
  <2>2. IsFiniteSet(0..m)
    BY <2>1, FS_Interval
  <2>3. IsFiniteSet(I)
    BY <2>2, FS_Subset
  <2>4. QED
    BY <2>3, FS_CardinalityType
<1>3. \A j : IsFiniteSet(R(j)) /\ Cardinality(R(j)) \in Nat /\ Cardinality(R(j)) <= card
             /\ Rank(I, j) = Cardinality(R(j))
  <2> SUFFICES ASSUME NEW j
               PROVE  IsFiniteSet(R(j)) /\ Cardinality(R(j)) \in Nat /\ Cardinality(R(j)) <= card
                      /\ Rank(I, j) = Cardinality(R(j))
    OBVIOUS
  <2>1. R(j) \in SUBSET I /\ Rank(I, j) = Cardinality(R(j))
    BY DEF Rank
  <2> HIDE DEF R
  <2>2. IsFiniteSet(R(j)) /\ Cardinality(R(j)) <= card
    BY <2>1, <1>2, FS_Subset
  <2>3. QED
    BY <2>1, <2>2, FS_CardinalityType
<1>4. ASSUME NEW n \in 1..card
      PROVE  \E j \in I : Cardinality(R(j)) = n
  <2> DEFINE T == {j \in Nat : n <= Cardinality(R(j))}
  <2>1. R(m) = I
    BY <1>1
  <2>2. n \in Nat /\ 1 <= n /\ n <= card
    BY <1>2
  <2>3. m \in T
    BY <2>1, <2>2
  <2>4. PICK j \in T : \A o \in T : j <= o
    <3>1. T \in SUBSET Nat /\ T # {}
      BY <2>3
    <3> HIDE DEF T
    <3>2. QED
      BY <3>1, LeastOne
  <2>5. j \in Nat /\ n <= Cardinality(R(j))
    OBVIOUS
  <2>6. Cardinality(R(j - 1)) < n
    <3>1. CASE j = 0
      <4>1. j - 1 = -1
        BY <3>1
      <4>2. R(j - 1) = {}
        BY <4>1, <1>1
      <4>3. Cardinality(R(j - 1)) = 0
        BY <4>2, FS_EmptySet
      <4> HIDE DEF R, T
      <4>4. QED
        BY <4>3, <2>2
    <3>2. CASE j # 0
      <4>1. j - 1 \in Nat /\ ~ (j <= j - 1)
        BY <2>5, <3>2
      <4>2. ~ (j - 1 \in T)
        <5> HIDE DEF R, T
        <5>1. QED
          BY <4>1, <2>4
      <4>3. Cardinality(R(j - 1)) \in Nat
        BY <1>3
      <4>4. ~ (n <= Cardinality(R(j - 1)))
        BY <4>1, <4>2
      <4> HIDE DEF R
      <4>5. QED
        BY <4>3, <4>4, <2>2
    <3>3. QED
      BY <3>1, <3>2
  <2>7. \A i \in I : i <= j <=> (i <= j - 1 \/ i = j)
    BY <2>5, <1>1
  <2>8. CASE j \notin I
    <3>1. R(j) = R(j - 1)
      BY <2>7, <2>8
    <3> HIDE DEF R
    <3>2. QED
      BY <3>1, <2>2, <2>5, <2>6, <1>3
  <2>9. CASE j \in I
    <3>1. R(j) = R(j - 1) \cup {j}
      BY <2>7, <2>9
    <3>2. j \notin R(j - 1)
      BY <2>5
    <3> HIDE DEF R
    <3>3. Cardinality(R(j)) = Cardinality(R(j - 1)) + 1
      <4>1. IsFiniteSet(R(j - 1))
        BY <1>3
      <4>2. QED
        BY <3>1, <3>2, <4>1, FS_AddElement
    <3>4. Cardinality(R(j)) = n
      BY <3>3, <2>2, <2>5, <2>6, <1>3
    <3>5. QED
      BY <3>4, <2>9
  <2>10. QED
    BY <2>8, <2>9
<1>5. ASSUME NEW i \in I, NEW j \in I, i < j
      PROVE  Cardinality(R(i)) < Cardinality(R(j))
  <2>1. R(i) \cup {j} \subseteq R(j) /\ j \notin R(i)
    <3>1. j <= j /\ ~ (j <= i) /\ \A o \in I : o <= i => o <= j
      BY <1>1, <1>5
    <3>2. QED
      BY <3>1
  <2> HIDE DEF R
  <2>2. IsFiniteSet(R(i)) /\ IsFiniteSet(R(j)) /\ Cardinality(R(i)) \in Nat
        /\ Cardinality(R(j)) \in Nat
    BY <1>3
  <2>3. Cardinality(R(i) \cup {j}) = Cardinality(R(i)) + 1
    BY <2>1, <2>2, FS_AddElement
  <2>4. Cardinality(R(i) \cup {j}) <= Cardinality(R(j))
    BY <2>1, <2>2, FS_Subset
  <2>5. QED
    BY <2>2, <2>3, <2>4
<1>6. ASSUME NEW i \in I, NEW j \in I, Cardinality(R(i)) = Cardinality(R(j))
      PROVE  i = j
  <2>1. i \in Nat /\ j \in Nat /\ Cardinality(R(i)) \in Nat
    BY <1>1, <1>3
  <2>2. ~ (i < j) /\ ~ (j < i)
    <3> HIDE DEF R
    <3>1. QED
      BY <2>1, <1>5, <1>6
  <2>3. QED
    BY <2>1, <2>2
<1>7. ASSUME NEW j \in I
      PROVE  Rank(I, j) \in 1..card
  <2>1. R(j) # {}
    BY <1>1
  <2> HIDE DEF R
  <2>2. Cardinality(R(j)) # 0 /\ Cardinality(R(j)) \in Nat /\ Cardinality(R(j)) <= card
    BY <2>1, <1>3, FS_EmptySet
  <2>3. QED
    BY <2>2, <1>2, <1>3
<1> HIDE DEF R
<1>8. ASSUME NEW n \in 1..card
      PROVE  Nth(I, n) \in I /\ Rank(I, Nth(I, n)) = n
  <2>1. \E j \in I : Rank(I, j) = n
    BY <1>3, <1>4
  <2>2. QED
    BY <2>1 DEF Nth
<1>9. ASSUME NEW j \in I
      PROVE  Nth(I, Rank(I, j)) = j
  <2>1. Nth(I, Rank(I, j)) \in I /\ Rank(I, Nth(I, Rank(I, j))) = Rank(I, j)
    BY <1>7, <1>8
  <2>2. QED
    BY <2>1, <1>3, <1>6
<1>10. QED
  BY <1>2, <1>7, <1>8, <1>9

\* The pairs at some positions of an E-List, taken out in order.
LEMMA InOrderIs ==
    ASSUME NEW s \in Seq(Pair), NEW I \in SUBSET (1..Len(s)), Unique(s)
    PROVE  LET x == InOrder(s, I) IN
           /\ x \in Seq(Pair) /\ Unique(x)
           /\ \A n \in 1..Len(x) : \E j \in I : x[n] = s[j]
           /\ \A j \in I : \E n \in 1..Len(x) : x[n] = s[j]
<1> DEFINE card == Cardinality(I)
           x == [n \in 1..card |-> s[Nth(I, n)]]
<1>1. Len(s) \in Nat /\ I \in SUBSET (0..Len(s))
  <2>1. Len(s) \in Nat /\ \A i \in 1..Len(s) : i \in 0..Len(s)
    OBVIOUS
  <2>2. QED
    BY <2>1
<1>2. /\ card \in Nat
      /\ \A n \in 1..card : Nth(I, n) \in I /\ Rank(I, Nth(I, n)) = n
      /\ \A j \in I : Rank(I, j) \in 1..card /\ Nth(I, Rank(I, j)) = j
  BY <1>1, NthIs
<1>3. \A j \in I : j \in 1..Len(s) /\ s[j] \in Pair
  OBVIOUS
<1>4. x \in [1..card -> Pair]
  BY <1>2, <1>3
<1>5. \A n \in 1..card : x[n] = s[Nth(I, n)]
  OBVIOUS
<1> HIDE DEF x, card
<1>6. x \in Seq(Pair) /\ Len(x) = card
  BY <1>2, <1>4, LenProperties, IsASeq
<1>7. Unique(x)
  <2> SUFFICES ASSUME NEW i \in 1..card, NEW j \in 1..card, x[i].key = x[j].key
               PROVE  i = j
    BY <1>6 DEF Unique
  <2>1. Nth(I, i) \in 1..Len(s) /\ Nth(I, j) \in 1..Len(s)
    BY <1>2, <1>3
  <2>2. Nth(I, i) = Nth(I, j)
    BY <2>1, <1>5 DEF Unique
  <2>3. QED
    BY <2>2, <1>2
<1>8. InOrder(s, I) = x
  BY DEF InOrder, x, card
<1>9. QED
  BY <1>2, <1>5, <1>6, <1>7, <1>8

\* The way to the P-List below a bucket is the way to the bucket's, and the bucket.
LEMMA AboveBelow ==
    ASSUME NEW b, b[1] \in Seq(Nat), b[2] \in Nat, b = <<b[1], b[2]>>, NEW n \in 1..Len(Below(b))
    PROVE  Above(Below(b), n) = IF n = Len(Below(b)) THEN b ELSE Above(b[1], n)
<1> DEFINE p == b[1]
           q == Below(b)
<1>1. /\ q \in Seq(Nat) /\ Len(q) = Len(p) + 1 /\ Len(p) \in Nat /\ q[Len(p) + 1] = b[2]
      /\ \A m \in 1..Len(p) : q[m] = p[m]
      /\ \A m \in 0..Len(p) : SubSeq(q, 1, m) = SubSeq(p, 1, m)
      /\ SubSeq(p, 1, Len(p)) = p
  BY AppendIs DEF Below
<1> HIDE DEF p, q
<1>2. n \in 1..Len(q)
  BY DEF q
<1>3. n - 1 \in 0..Len(p) /\ (n = Len(q) => n - 1 = Len(p) /\ n = Len(p) + 1)
      /\ (n # Len(q) => n \in 1..Len(p))
  BY <1>1, <1>2
<1>4. SubSeq(q, 1, n - 1) = SubSeq(p, 1, n - 1)
  BY <1>1, <1>3
<1>5. Above(q, n) = <<SubSeq(p, 1, n - 1), q[n]>>
  BY <1>4 DEF Above
<1>6. CASE n = Len(q)
  <2>1. Above(q, n) = <<p, b[2]>>
    BY <1>1, <1>3, <1>5, <1>6
  <2>2. QED
    BY <2>1, <1>6 DEF p, q
<1>7. CASE n # Len(q)
  <2>1. Above(q, n) = <<SubSeq(p, 1, n - 1), p[n]>>
    BY <1>1, <1>3, <1>5, <1>7
  <2>2. QED
    BY <2>1, <1>7 DEF Above, p, q
<1>8. QED
  BY <1>6, <1>7

\* E-List x has just the pairs of s that belong into bucket i of P-List p.
Gets(x, s, p, i) ==
    /\ x \in Seq(Pair) /\ Unique(x)
    /\ \A m \in 1..Len(x) : \E l \in 1..Len(s) : x[m] = s[l] /\ SearchBucket(s[l].key, p) = i
    /\ \A l \in 1..Len(s) : SearchBucket(s[l].key, p) = i => \E m \in 1..Len(x) : x[m] = s[l]

\* The pointers and E-Lists that rehash makes.
LEMMA NewLists ==
    ASSUME IInv, NEW c \in Client, Rehash(c)
    PROVE  LET p == Below(At(c))
               s == Pairs(c)
               n == Len(elists)
           IN
           /\ p \in Seq(Nat) /\ Len(p) = Len(parent[c]) + 1 /\ Len(p) < MaxDepth
           /\ Buckets(p) \cap DOMAIN base = {} /\ DOMAIN base' = DOMAIN base \cup Buckets(p)
           /\ \A b \in DOMAIN base : base'[b] = IF b = At(c) THEN PPtr(p) ELSE base[b]
           /\ \A b \in Buckets(p) :
                \/ base'[b] = Null /\ Gets(<<>>, s, p, b[2])
                \/ \E j \in 1..Len(elists') : j \notin 1..n /\ base'[b] = EPtr(j)
                                              /\ Gets(elists'[j], s, p, b[2])
           /\ \A b, d \in Buckets(p) : \A j \in Nat : base'[b] = EPtr(j) /\ base'[d] = EPtr(j) => b = d
           /\ elists' \in Seq(Seq(Pair)) /\ Len(elists') \in Nat /\ n \in Nat /\ n <= Len(elists')
           /\ \A j \in 1..n : elists'[j] = elists[j]
           /\ \A j \in 1..Len(elists') : Unique(elists'[j])
<1> DEFINE p == Below(At(c))
           s == Pairs(c)
           n == Len(elists)
           Goes(i) == {j \in 1..Len(s) : ChildBucket(s[j].key, p) = i}
           used == {i \in 0 .. Count(p) - 1 : Goes(i) # {}}
           card == Cardinality(used)
           new == [m \in 1..card |-> InOrder(s, Goes(Nth(used, m)))]
<1>1. Types /\ Tree /\ Located(c) /\ KeysUnique
  BY Places DEF IInv
<1>2. pc[c] = "locked" /\ p = Append(parent[c], Bucket(c)) /\ Len(p) < MaxDepth
  <2>1. p = Append(parent[c], Bucket(c)) /\ parent[c] \in Seq(Nat) /\ Bucket(c) \in Nat
    BY <1>1 DEF Types, Located
  <2>2. Len(p) = Len(parent[c]) + 1
    BY <2>1, AppendIs
  <2>3. Full(c)
    BY DEF Rehash
  <2>4. QED
    BY <2>1, <2>2, <2>3 DEF Full
<1>3. s \in Seq(Pair) /\ Unique(s) /\ base[At(c)].kind # "plist"
  BY <1>2, LockedSees
<1>4. parent[c] \in Seq(Nat) /\ Bucket(c) \in Nat /\ At(c) \in DOMAIN base
      /\ At(c)[1] = parent[c] /\ At(c)[2] = Bucket(c) /\ At(c) = <<At(c)[1], At(c)[2]>>
  BY <1>1 DEF Types, Located
<1>5. p \in Seq(Nat) /\ Len(p) = Len(parent[c]) + 1 /\ Len(p) \in Nat /\ Len(p) \in 1..Len(p)
  BY <1>2, <1>4, AppendIs
<1>6. Buckets(p) \cap DOMAIN base = {}
  <2> SUFFICES ASSUME NEW b \in Buckets(p), b \in DOMAIN base
               PROVE  FALSE
    OBVIOUS
  <2>1. b[1] = p
    BY BucketsAre
  <2>2. base[Above(p, Len(p))].kind = "plist"
    BY <1>1, <1>5, <2>1 DEF Tree
  <2>3. Above(p, Len(p)) = At(c)
    BY <1>4, <1>5, AboveBelow
  <2>4. QED
    BY <2>2, <2>3, <1>3
<1>7. /\ elists' = elists \o new
      /\ base' = [b \in DOMAIN base \cup Buckets(p) |->
                    IF b = At(c) THEN PPtr(p)
                    ELSE IF b \notin Buckets(p) THEN base[b]
                    ELSE IF b[2] \in used THEN EPtr(n + Rank(used, b[2])) ELSE Null]
  <2>1. p = Append(parent[c], Bucket(c))
    BY <1>2
  <2>2. QED
    BY <2>1, Zenon DEF Rehash
<1>8. Count(p) \in Nat /\ Count(p) - 1 \in Nat
  <2>1. Count(p) \in Nat /\ Count(p) >= 2
    BY <1>2, <1>5, BucketType
  <2>2. QED
    BY <2>1
<1>9. /\ card \in Nat
      /\ \A m \in 1..card : Nth(used, m) \in used /\ Rank(used, Nth(used, m)) = m
      /\ \A i \in used : Rank(used, i) \in 1..card /\ Nth(used, Rank(used, i)) = i
  <2>1. used \in SUBSET (0 .. Count(p) - 1)
    OBVIOUS
  <2> HIDE DEF used
  <2>2. QED
    BY <2>1, <1>8, NthIs
<1>10. ASSUME NEW i
       PROVE  Gets(InOrder(s, Goes(i)), s, p, i)
  <2> DEFINE I == Goes(i)
             x == InOrder(s, I)
  <2>1. I \in SUBSET (1..Len(s)) /\ I = {j \in 1..Len(s) : SearchBucket(s[j].key, p) = i}
    BY DEF ChildBucket, SearchBucket
  <2> HIDE DEF I
  <2>2. /\ x \in Seq(Pair) /\ Unique(x)
        /\ \A m \in 1..Len(x) : \E j \in I : x[m] = s[j]
        /\ \A j \in I : \E m \in 1..Len(x) : x[m] = s[j]
    BY <1>3, <2>1, InOrderIs
  <2> HIDE DEF x
  <2>3. QED
    BY <2>1, <2>2 DEF Gets, x, I
<1>11. n \in Nat /\ elists \in Seq(Seq(Pair)) /\ \A j \in 1..n : Unique(elists[j])
  BY <1>1 DEF Types, KeysUnique
<1>12. new \in Seq(Seq(Pair)) /\ Len(new) = card
       /\ \A m \in 1..card : Gets(new[m], s, p, Nth(used, m))
  <2>1. \A m \in 1..card : new[m] = InOrder(s, Goes(Nth(used, m)))
                           /\ Gets(new[m], s, p, Nth(used, m))
    <3> HIDE DEF Goes, used, card
    <3>1. QED
      BY <1>10
  <2>2. \A m \in 1..card : new[m] \in Seq(Pair)
    BY <2>1 DEF Gets
  <2>3. new \in [1..card -> Seq(Pair)]
    <3>1. new = [m \in 1..card |-> new[m]]
      <4> HIDE DEF Goes, used, card
      <4>1. QED
        OBVIOUS
    <3> HIDE DEF new, card
    <3>2. QED
      BY <3>1, <2>2
  <2> HIDE DEF new, used, card
  <2>4. new \in Seq(Seq(Pair)) /\ Len(new) = card
    BY <2>3, <1>9, LenProperties, IsASeq
  <2>5. QED
    BY <2>1, <2>4
<1> HIDE DEF p, s, n, used, card, new
<1>13. /\ elists' \in Seq(Seq(Pair)) /\ Len(elists') = n + card /\ Len(elists') \in Nat
       /\ n <= Len(elists')
       /\ \A j \in 1 .. n + card : elists'[j] = IF j <= n THEN elists[j] ELSE new[j - n]
  <2>1. /\ elists \o new \in Seq(Seq(Pair)) /\ Len(elists \o new) = Len(elists) + Len(new)
        /\ \A j \in 1 .. Len(elists) + Len(new) :
             (elists \o new)[j] = IF j <= Len(elists) THEN elists[j] ELSE new[j - Len(elists)]
    BY <1>11, <1>12, ConcatProperties
  <2>2. elists' \in Seq(Seq(Pair)) /\ Len(elists') = n + card
        /\ \A j \in 1 .. n + card : elists'[j] = IF j <= n THEN elists[j] ELSE new[j - n]
    BY <2>1, <1>7, <1>12 DEF n
  <2>3. n + card \in Nat /\ n <= n + card
    BY <1>9, <1>11
  <2>4. QED
    BY <2>2, <2>3
<1>14. \A j \in 1..n : elists'[j] = elists[j]
  BY <1>9, <1>11, <1>13
<1>15. \A m \in 1..card : n + m \in 1..Len(elists') /\ n + m \notin 1..n /\ elists'[n + m] = new[m]
                          /\ n + m \in Nat
  <2> SUFFICES ASSUME NEW m \in 1..card
               PROVE  n + m \in 1..Len(elists') /\ n + m \notin 1..n /\ elists'[n + m] = new[m]
                      /\ n + m \in Nat
    OBVIOUS
  <2> DEFINE j == n + m
  <2>1. j \in 1 .. n + card /\ ~ (j <= n) /\ j - n = m /\ j \in Nat /\ j \notin 1..n
    BY <1>9, <1>11
  <2> HIDE DEF j
  <2>2. elists'[j] = IF j <= n THEN elists[j] ELSE new[j - n]
    BY <2>1, <1>13, Zenon
  <2>3. elists'[j] = new[m]
    BY <2>1, <2>2, Zenon
  <2>4. j \in 1..Len(elists')
    BY <2>1, <1>13, Zenon
  <2>5. QED
    BY <2>1, <2>3, <2>4 DEF j
<1>16. \A j \in 1..Len(elists') : Unique(elists'[j])
  <2> SUFFICES ASSUME NEW j \in 1..Len(elists')
               PROVE  Unique(elists'[j])
    OBVIOUS
  <2>1. CASE j \in 1..n
    BY <2>1, <1>11, <1>14
  <2>2. CASE j \notin 1..n
    <3>1. j - n \in 1..card /\ ~ (j <= n) /\ j \in 1 .. n + card
      BY <2>2, <1>9, <1>11, <1>13
    <3>2. elists'[j] = new[j - n]
      BY <3>1, <1>13
    <3>3. QED
      BY <3>1, <3>2, <1>12 DEF Gets
  <2>3. QED
    BY <2>1, <2>2
<1>17. /\ DOMAIN base' = DOMAIN base \cup Buckets(p)
       /\ \A b \in DOMAIN base : base'[b] = IF b = At(c) THEN PPtr(p) ELSE base[b]
       /\ \A b \in Buckets(p) :
            base'[b] = IF b[2] \in used THEN EPtr(n + Rank(used, b[2])) ELSE Null
  BY <1>4, <1>6, <1>7
<1>18. ASSUME NEW b \in Buckets(p)
       PROVE  \/ base'[b] = Null /\ Gets(<<>>, s, p, b[2])
              \/ \E j \in 1..Len(elists') : j \notin 1..n /\ base'[b] = EPtr(j)
                                            /\ Gets(elists'[j], s, p, b[2])
  <2>1. CASE b[2] \in used
    <3>1. Rank(used, b[2]) \in 1..card /\ Nth(used, Rank(used, b[2])) = b[2]
      BY <2>1, <1>9
    <3> DEFINE m == Rank(used, b[2])
    <3> HIDE DEF m
    <3>2. Gets(elists'[n + m], s, p, b[2]) /\ n + m \in 1..Len(elists') /\ n + m \notin 1..n
      BY <3>1, <1>12, <1>15 DEF m
    <3>3. base'[b] = EPtr(n + m)
      BY <2>1, <1>17 DEF m
    <3>4. QED
      BY <3>2, <3>3
  <2>2. CASE b[2] \notin used
    <3>1. base'[b] = Null
      BY <2>2, <1>17
    <3>2. b[2] \in 0 .. Count(p) - 1
      BY BucketsAre
    <3>3. \A l \in 1..Len(s) : SearchBucket(s[l].key, p) # b[2]
      BY <2>2, <3>2 DEF used, ChildBucket, SearchBucket
    <3>4. <<>> \in Seq(Pair) /\ Unique(<<>>) /\ Len(<<>>) = 0
      BY DEF Unique
    <3>5. Gets(<<>>, s, p, b[2])
      BY <3>3, <3>4 DEF Gets
    <3>6. QED
      BY <3>1, <3>5
  <2>3. QED
    BY <2>1, <2>2
<1>19. ASSUME NEW b \in Buckets(p), NEW d \in Buckets(p), NEW j \in Nat,
              base'[b] = EPtr(j), base'[d] = EPtr(j)
       PROVE  b = d
  <2>1. \A e \in Buckets(p) : base'[e] = EPtr(j) =>
            e[2] \in used /\ Rank(used, e[2]) \in 1..card /\ EPtr(n + Rank(used, e[2])) = EPtr(j)
    BY <1>9, <1>17, PointerKinds
  <2>2. \A e \in Buckets(p) : base'[e] = EPtr(j) => e[2] \in used /\ n + Rank(used, e[2]) = j
    BY <2>1, <1>15, EPtrUnique
  <2>3. b[2] \in used /\ d[2] \in used /\ Rank(used, b[2]) = Rank(used, d[2])
    <3>1. b[2] \in used /\ d[2] \in used /\ n + Rank(used, b[2]) = n + Rank(used, d[2])
      BY <2>2, <1>19
    <3>2. Rank(used, b[2]) \in Nat /\ Rank(used, d[2]) \in Nat
      BY <3>1, <1>9
    <3>3. QED
      BY <3>1, <3>2, <1>11
  <2>4. b[2] = d[2]
    BY <2>3, <1>9
  <2>5. QED
    BY <2>4, BucketsAre
<1>20. QED
  BY <1>2, <1>5, <1>6, <1>11, <1>13, <1>14, <1>16, <1>17, <1>18, <1>19 DEF p, s, n

LEMMA RehashTree ==
    ASSUME IInv, NEW c \in Client, Rehash(c)
    PROVE  /\ Types' /\ Grows /\ Tree' /\ LockTellsType' /\ Exists(Below(At(c)))'
           /\ \A d \in Client \ {c} : Rests(d)
           /\ pc[c] = "locked" /\ seen[c].base # Null /\ pc'[c] = "calcify"
           /\ seen'[c] = [lock |-> "P_UNLOCKED", base |-> PPtr(Below(At(c)))]
           /\ pc' = [pc EXCEPT ![c] = "calcify"]
           /\ parent' = parent /\ bpath' = bpath /\ cache' = cache /\ req' = req /\ ret' = ret
           /\ ops' = ops /\ posted' = posted
           /\ \A b \in DOMAIN base : lock'[b] = lock[b]
           /\ \A b \in Buckets(Below(At(c))) : lock'[b] = "E_UNLOCKED"
<1>0. PICK p : p = Below(At(c))
  OBVIOUS
<1>1. /\ Types /\ Tree /\ LockTellsType /\ Located(c) /\ OneHolder
  BY Places, InsideIsHolder DEF IInv
<1>2. /\ pc[c] = "locked" /\ seen[c].base # Null /\ pc' = [pc EXCEPT ![c] = "calcify"]
      /\ seen' = [seen EXCEPT ![c] = [lock |-> "P_UNLOCKED", base |-> PPtr(p)]]
      /\ parent' = parent /\ bpath' = bpath /\ cache' = cache /\ req' = req /\ ret' = ret
      /\ ops' = ops /\ posted' = posted /\ temp_lock' = temp_lock
      /\ lock' = [b \in DOMAIN lock \cup Buckets(p) |->
                    IF b \in Buckets(p) THEN "E_UNLOCKED" ELSE lock[b]]
  <2>1. p = Append(parent[c], Bucket(c))
    BY <1>0, <1>1 DEF Located
  <2>2. pc[c] = "locked" /\ seen[c].base # Null
    BY PointerKinds DEF Rehash, Full
  <2>3. QED
    BY <2>1, <2>2, Zenon DEF Rehash, Go, late, call
<1>3. /\ p \in Seq(Nat) /\ Len(p) = Len(parent[c]) + 1 /\ Len(p) < MaxDepth
      /\ Buckets(p) \cap DOMAIN base = {} /\ DOMAIN base' = DOMAIN base \cup Buckets(p)
      /\ \A b \in DOMAIN base : base'[b] = IF b = At(c) THEN PPtr(p) ELSE base[b]
      /\ \A b \in Buckets(p) : base'[b] = Null \/ \E j \in 1..Len(elists') : base'[b] = EPtr(j)
      /\ elists' \in Seq(Seq(Pair)) /\ Len(elists') \in Nat /\ Len(elists) <= Len(elists')
  BY <1>0, NewLists
<1>4. At(c) \in DOMAIN base /\ DOMAIN lock = DOMAIN base /\ base[At(c)].kind # "plist"
      /\ lock[At(c)] = "E_LOCKED" /\ PPtr(p) \in Pointer /\ PPtr(p).kind = "plist"
  <2>1. Holds(c) /\ base[At(c)].kind # "plist"
    BY <1>2, LockedSees
  <2>2. At(c) \in DOMAIN base /\ DOMAIN lock = DOMAIN base
    BY <1>1 DEF Located, Types
  <2>3. QED
    BY <2>1, <2>2, <1>1, <1>3, LockedByOne, PointerKinds
<1>5. \A b \in Buckets(p) : base'[b] \in Pointer /\ Leads(base[b])' /\ base'[b].kind # "plist"
  <2> SUFFICES ASSUME NEW b \in Buckets(p)
               PROVE  base'[b] \in Pointer /\ Leads(base[b])' /\ base'[b].kind # "plist"
    OBVIOUS
  <2>1. CASE base'[b] = Null
    BY <2>1, PointerKinds DEF Leads
  <2>2. CASE \E j \in 1..Len(elists') : base'[b] = EPtr(j)
    <3>1. PICK j \in 1..Len(elists') : base'[b] = EPtr(j)
      BY <2>2
    <3>2. j \in Nat
      BY <1>3
    <3>3. QED
      BY <3>1, <3>2, PointerKinds DEF Leads
  <2>3. QED
    BY <2>1, <2>2, <1>3
<1>6. /\ \A b \in DOMAIN base : lock'[b] = lock[b]
      /\ \A b \in Buckets(p) : lock'[b] = "E_UNLOCKED"
      /\ DOMAIN lock' = DOMAIN base'
  BY <1>2, <1>3, <1>4
<1>7. Types'
  <2>1. base' \in [DOMAIN base' -> Pointer]
    <3>1. base' = [b \in DOMAIN base' |-> base'[b]]
      <4>1. p = Append(parent[c], Bucket(c))
        BY <1>0, <1>1 DEF Located
      <4>2. QED
        BY DEF Rehash
    <3>2. \A b \in DOMAIN base' : base'[b] \in Pointer
      BY <1>1, <1>3, <1>4, <1>5 DEF Types
    <3>3. QED
      BY <3>1, <3>2
  <2>2. lock' \in [DOMAIN base' -> LockWords]
    <3>1. lock' = [b \in DOMAIN base' |-> lock'[b]]
      BY <1>2, <1>6
    <3>2. \A b \in DOMAIN base' : lock'[b] \in LockWords
      BY <1>1, <1>3, <1>6 DEF Types, LockWords
    <3>3. QED
      BY <3>1, <3>2
  <2>3. pc' \in [Client -> Label]
    BY <1>1, <1>2 DEF Types, Label
  <2>4. seen' \in [Client -> [lock : LockWords, base : Pointer]]
    <3>1. [lock |-> "P_UNLOCKED", base |-> PPtr(p)] \in [lock : LockWords, base : Pointer]
      BY <1>4 DEF LockWords
    <3>2. seen \in [Client -> [lock : LockWords, base : Pointer]]
      BY <1>1 DEF Types
    <3>3. QED
      BY <3>1, <3>2, <1>2
  <2>5. posted' \in [Client -> SUBSET [at : DOMAIN base', status : LockWords]]
    <3>1. [at : DOMAIN base, status : LockWords] \subseteq [at : DOMAIN base', status : LockWords]
      BY <1>3
    <3>2. QED
      BY <3>1, <1>1, <1>2 DEF Types
  <2>6. QED
    BY <1>1, <1>2, <1>3, <2>1, <2>2, <2>3, <2>4, <2>5 DEF Types
<1>8. Grows
  BY <1>3, <1>4, <1>6 DEF Grows
<1>9. Exists(p)' /\ (\A q : Exists(q) => Exists(q)') /\ \A x : Leads(x) => Leads(x)'
  <2>1. Exists(p)'
    BY <1>3 DEF Exists
  <2>2. QED
    BY <2>1, <1>1, <1>7, <1>8, ExistsKept, LeadsKept
<1>10. Tree'
  <2>1. ASSUME NEW b \in DOMAIN base'
        PROVE  b \in Buckets(b[1]) /\ Exists(b[1])' /\ Leads(base[b])'
    <3>1. CASE b \in DOMAIN base
      <4>1. b \in Buckets(b[1]) /\ Exists(b[1]) /\ Leads(base[b])
        BY <3>1, <1>1 DEF Tree
      <4>2. Leads(base[b])'
        <5>1. CASE b = At(c)
          BY <5>1, <3>1, <1>3, <1>4 DEF Leads
        <5>2. CASE b # At(c)
          <6>1. base'[b] = base[b]
            BY <5>2, <3>1, <1>3
          <6>2. QED
            BY <6>1, <4>1, <1>9
        <5>3. QED
          BY <5>1, <5>2
      <4>3. Exists(b[1])'
        BY <4>1, <1>9
      <4>4. QED
        BY <4>1, <4>2, <4>3
    <3>2. CASE b \in Buckets(p)
      <4>1. b[1] = p
        BY <3>2, BucketsAre
      <4>2. QED
        BY <4>1, <3>2, <1>5, <1>9
    <3>3. QED
      BY <3>1, <3>2, <1>3
  <2>2. Exists(<<>>)'
    BY <1>1, <1>9 DEF Tree
  <2>3. ASSUME NEW b \in DOMAIN base', base'[b].kind = "plist"
        PROVE  base'[b] = PPtr(Below(b)) /\ Exists(Below(b))'
    <3>1. b \in DOMAIN base
      BY <2>3, <1>3, <1>5
    <3>2. CASE b = At(c)
      BY <3>1, <3>2, <1>0, <1>3, <1>9
    <3>3. CASE b # At(c)
      <4>1. base'[b] = base[b]
        BY <3>1, <3>3, <1>3
      <4>2. base[b] = PPtr(Below(b)) /\ Exists(Below(b))
        BY <4>1, <3>1, <2>3, <1>1 DEF Tree
      <4>3. QED
        BY <4>1, <4>2, <1>9
    <3>4. QED
      BY <3>2, <3>3
  <2>4. ASSUME NEW b \in DOMAIN base', NEW m \in 1..Len(b[1])
        PROVE  Above(b[1], m) \in DOMAIN base' /\ base'[Above(b[1], m)].kind = "plist"
    <3>1. ASSUME NEW a \in DOMAIN base, base[a].kind = "plist"
          PROVE  a \in DOMAIN base' /\ base'[a].kind = "plist"
      BY <3>1, <1>8 DEF Grows
    <3>2. CASE b \in DOMAIN base
      BY <3>1, <3>2, <1>1 DEF Tree
    <3>3. CASE b \in Buckets(p)
      <4>1. b[1] = p /\ m \in 1..Len(p)
        BY <3>3, BucketsAre
      <4>2. At(c)[1] = parent[c] /\ parent[c] \in Seq(Nat) /\ At(c)[2] \in Nat
            /\ At(c) = <<At(c)[1], At(c)[2]>>
        BY <1>1 DEF Located, Types
      <4>3. Above(p, m) = IF m = Len(p) THEN At(c) ELSE Above(parent[c], m)
        BY <4>1, <4>2, <1>0, AboveBelow
      <4>4. CASE m = Len(p)
        BY <4>1, <4>3, <4>4, <1>3, <1>4
      <4>5. CASE m # Len(p)
        <5>1. m \in 1..Len(parent[c])
          BY <4>1, <4>2, <4>5, <1>3
        <5>2. Above(parent[c], m) \in DOMAIN base /\ base[Above(parent[c], m)].kind = "plist"
          BY <5>1, <4>2, <1>1, <1>4 DEF Tree
        <5>3. QED
          BY <5>2, <4>1, <4>3, <4>5, <3>1
      <4>6. QED
        BY <4>4, <4>5
    <3>4. QED
      BY <3>2, <3>3, <1>3
  <2>5. QED
    BY <2>1, <2>2, <2>3, <2>4 DEF Tree, Above, Below
<1>11. LockTellsType'
  <2> SUFFICES ASSUME NEW b \in DOMAIN base'
               PROVE  /\ lock'[b] = "P_UNLOCKED" => base'[b].kind = "plist"
                      /\ lock'[b] = "E_UNLOCKED" => base'[b].kind # "plist"
    BY DEF LockTellsType
  <2>1. CASE b \in Buckets(p)
    BY <2>1, <1>5, <1>6
  <2>2. CASE b = At(c)
    BY <2>2, <1>4, <1>6
  <2>3. CASE b \in DOMAIN base /\ b # At(c)
    BY <2>3, <1>1, <1>3, <1>6 DEF LockTellsType
  <2>4. QED
    BY <2>1, <2>2, <2>3, <1>3
<1>12. \A d \in Client \ {c} : Rests(d)
  BY <1>1, <1>2 DEF Rests, Types
<1>13. pc'[c] = "calcify" /\ seen'[c] = [lock |-> "P_UNLOCKED", base |-> PPtr(p)]
  BY <1>1, <1>2 DEF Types
<1>14. Exists(Below(At(c)))'
  <2>1. At(c)' = At(c)
    BY <1>2, RestsInPlace
  <2>2. Below(At(c))' = p
    BY <2>1, <1>0 DEF Below
  <2>3. QED
    BY <2>2, <1>9 DEF Exists
<1>15. QED
  BY <1>0, <1>2, <1>6, <1>7, <1>8, <1>10, <1>11, <1>12, <1>13, <1>14

\* The E-Lists that rehash makes are claimed for the buckets it makes, and the
\* claims to the others are none it makes.
LEMMA RehashClaims ==
    ASSUME IInv, NEW c \in Client, Rehash(c), NEW n, n = Len(elists)
    PROVE  /\ \A j \in 1..n : \A b : Claim(j, b)' => Claim(j, b)
           /\ \A j \in 1..Len(elists') : \A b : j \notin 1..n /\ Claim(j, b)' =>
                 b \in Buckets(Below(At(c))) /\ base'[b] = EPtr(j)
<1>0. PICK p : p = Below(At(c))
  OBVIOUS
<1>1. /\ Types /\ Tree /\ Saw /\ At(c) \in DOMAIN base
  BY Places DEF IInv, Located
<1>2. /\ p \in Seq(Nat) /\ Buckets(p) \cap DOMAIN base = {}
      /\ DOMAIN base' = DOMAIN base \cup Buckets(p)
      /\ \A b \in DOMAIN base : base'[b] = IF b = At(c) THEN PPtr(p) ELSE base[b]
      /\ \A b \in Buckets(p) :
            base'[b] = Null \/ \E j \in 1..Len(elists') : j \notin 1..n /\ base'[b] = EPtr(j)
      /\ Len(elists') \in Nat /\ n \in Nat
  BY <1>0, NewLists
<1>3. /\ \A d \in Client \ {c} : Rests(d)
      /\ seen'[c] = [lock |-> "P_UNLOCKED", base |-> PPtr(p)]
  BY <1>0, RehashTree
<1>4. \A j \in Nat : EPtr(j) # PPtr(p) /\ EPtr(j) # Null /\ EPtr(j).kind = "elist"
  BY <1>2, PointerKinds
<1>5. seen'[c].base = PPtr(p)
  BY <1>3
<1>6. (\A j \in 1..n : j \in Nat) /\ (\A j \in 1..Len(elists') : j \in Nat)
  BY <1>2
<1>7. ASSUME NEW j \in 1..n, NEW b
      PROVE  Claim(j, b)' => Claim(j, b)
  <2>1. b \in DOMAIN base' /\ base'[b] = EPtr(j) => Claim(j, b)
    <3> SUFFICES ASSUME b \in DOMAIN base', base'[b] = EPtr(j)
                 PROVE  Claim(j, b)
      OBVIOUS
    <3>1. b \notin Buckets(p)
      <4> SUFFICES ASSUME b \in Buckets(p)
                   PROVE  FALSE
        OBVIOUS
      <4>1. PICK i \in 1..Len(elists') : i \notin 1..n /\ base'[b] = EPtr(i)
        BY <1>2, <1>4, <1>6
      <4>2. i = j
        BY <4>1, <1>6, EPtrUnique
      <4>3. QED
        BY <4>1, <4>2
    <3>2. b \in DOMAIN base /\ b # At(c) /\ base'[b] = base[b]
      BY <3>1, <1>2, <1>4, <1>6
    <3>3. QED
      BY <3>2 DEF Claim
  <2>2. seen'[c].base # EPtr(j)
    BY <1>4, <1>5, <1>6
  <2>3. QED
    BY <2>1, <2>2, <1>3, ClaimsKept
<1>8. ASSUME NEW j \in 1..Len(elists'), NEW b, j \notin 1..n, Claim(j, b)'
      PROVE  b \in Buckets(p) /\ base'[b] = EPtr(j)
  <2>1. j \in Nat
    BY <1>6
  <2>2. ~ Leads(EPtr(j))
    <3>1. \A i \in 1..n : EPtr(j) # EPtr(i)
      BY <2>1, <1>6, <1>8, EPtrUnique
    <3>2. QED
      BY <3>1, <2>1, <1>4 DEF Leads
  <2>3. CASE b \in DOMAIN base' /\ base'[b] = EPtr(j)
    <3>1. b \notin DOMAIN base
      <4> SUFFICES ASSUME b \in DOMAIN base
                   PROVE  FALSE
        OBVIOUS
      <4>1. Leads(base[b])
        BY <1>1 DEF Tree
      <4>2. base'[b] = base[b]
        BY <2>1, <2>3, <1>2, <1>4
      <4>3. QED
        BY <4>1, <4>2, <2>2, <2>3
    <3>2. QED
      BY <3>1, <2>3, <1>2
  <2>4. CASE \E d \in Client : Looking(d)' /\ At(d)' = b /\ seen'[d].base = EPtr(j)
    <3>1. PICK d \in Client : Looking(d)' /\ seen'[d].base = EPtr(j)
      BY <2>4
    <3>2. d # c
      BY <3>1, <2>1, <1>4, <1>5
    <3>3. Looking(d) /\ seen[d].base = EPtr(j)
      BY <3>1, <3>2, <1>3 DEF Rests, Looking
    <3>4. Leads(seen[d].base)
      BY <3>3, <1>1 DEF Saw, SeenBy
    <3>5. QED
      BY <3>3, <3>4, <2>2
  <2>5. QED
    BY <1>8, <2>3, <2>4 DEF Claim
<1>9. QED
  BY <1>0, <1>7, <1>8

LEMMA RehashInv ==
    ASSUME IInv, NEW c \in Client, Rehash(c)
    PROVE  IInv'
<1>0. PICK p, n : p = Below(At(c)) /\ n = Len(elists)
  OBVIOUS
<1>1. /\ Types /\ Tree /\ LockTellsType /\ Located(c) /\ Placed(c) /\ CachedBy(c) /\ KeysOnPath
      /\ LateBy(c) /\ OneHolder /\ Owned /\ Saw
  BY Places, InsideIsHolder DEF IInv, Positioned, Cached, Late
<1>2. /\ Types' /\ Grows /\ Tree' /\ LockTellsType' /\ Exists(Below(At(c)))'
      /\ \A d \in Client \ {c} : Rests(d)
      /\ pc[c] = "locked" /\ seen[c].base # Null /\ pc'[c] = "calcify"
      /\ seen'[c] = [lock |-> "P_UNLOCKED", base |-> PPtr(p)]
      /\ parent' = parent /\ bpath' = bpath /\ cache' = cache /\ req' = req /\ posted' = posted
      /\ \A b \in DOMAIN base : lock'[b] = lock[b]
      /\ \A b \in Buckets(p) : lock'[b] = "E_UNLOCKED"
  BY <1>0, RehashTree
<1>3. /\ p \in Seq(Nat) /\ Len(p) = Len(parent[c]) + 1
      /\ Buckets(p) \cap DOMAIN base = {} /\ DOMAIN base' = DOMAIN base \cup Buckets(p)
      /\ \A b \in DOMAIN base : base'[b] = IF b = At(c) THEN PPtr(p) ELSE base[b]
      /\ \A b \in Buckets(p) :
           \/ base'[b] = Null
           \/ \E j \in 1..Len(elists') : j \notin 1..n /\ base'[b] = EPtr(j)
                                         /\ Gets(elists'[j], Pairs(c), p, b[2])
      /\ \A b, d \in Buckets(p) : \A j \in Nat : base'[b] = EPtr(j) /\ base'[d] = EPtr(j) => b = d
      /\ Len(elists') \in Nat /\ n \in Nat /\ n <= Len(elists')
      /\ \A j \in 1..n : elists'[j] = elists[j]
      /\ \A j \in 1..Len(elists') : Unique(elists'[j])
  BY <1>0, NewLists
<1>4. /\ \A j \in 1..n : \A b : Claim(j, b)' => Claim(j, b)
      /\ \A j \in 1..Len(elists') : \A b : j \notin 1..n /\ Claim(j, b)' =>
             b \in Buckets(p) /\ base'[b] = EPtr(j)
  BY <1>0, RehashClaims
<1>5. Holds(c) /\ At(c) \in DOMAIN base /\ PPtr(p).kind = "plist" /\ PPtr(p).at = p
      /\ \A d \in Client : At(d)' = At(d)
  BY <1>1, <1>2, <1>3, LockedSees, PointerKinds, RestsInPlace DEF Located
<1>6. OneHolder'
  <2>1. \A d \in Client : Holds(d)' <=> Holds(d)
    BY <1>2, <1>5 DEF Rests, Holds
  <2>2. \A d \in Client : At(d) \in DOMAIN base
    BY Places DEF IInv, Located
  <2>3. \A d \in Client : \A w \in posted[d] : w.at \in DOMAIN base
    BY <1>1 DEF Types
  <2>4. \A d \in Client : \A b : (In(d, b)' <=> In(d, b)) /\ (Out(d, b)' <=> Out(d, b))
    BY <1>2, <1>5, <2>1 DEF In, Out
  <2>5. \A d \in Client : \A b : Has(d, b)' <=> Has(d, b)
    BY <2>4 DEF Has
  <2>6. \A d \in Client : \A b : Has(d, b) => b \in DOMAIN base
    BY <2>2, <2>3 DEF Has, In, Out
  <2>7. ASSUME NEW b \in DOMAIN base'
        PROVE  /\ lock'[b] = "E_LOCKED" <=> \E d \in Client : Has(d, b)'
               /\ \A d, e \in Client : Has(d, b)' /\ Has(e, b)' => d = e
               /\ \A d \in Client : ~ (In(d, b)' /\ Out(d, b)')
               /\ \A d \in Client : \A w, v \in posted'[d] : w.at = b /\ v.at = b => w = v
    <3>1. CASE b \in DOMAIN base
      BY <3>1, <2>4, <2>5, <1>1, <1>2 DEF OneHolder
    <3>2. CASE b \in Buckets(p)
      <4>1. lock'[b] # "E_LOCKED" /\ b \notin DOMAIN base
        BY <3>2, <1>2, <1>3
      <4>2. \A d \in Client : ~ Has(d, b)' /\ \A w \in posted'[d] : w.at # b
        BY <4>1, <2>3, <2>5, <2>6, <1>2
      <4>3. QED
        BY <4>1, <4>2 DEF Has
    <3>3. QED
      BY <3>1, <3>2, <1>3
  <2>8. QED
    BY <2>7 DEF OneHolder
<1>7. (\A d \in Client \ {c} : Spared(d)) /\ LateBy(c)'
  <2>1. ~ Out(c, At(c)) /\ \A d \in Client \ {c} : ~ Has(d, At(c))
    BY <1>1, <1>5, LockedByOne
  <2>2. \A d \in Client \ {c} : Spared(d)
    BY <2>1, <1>3 DEF Spared
  <2>3. \A w \in posted[c] : w.at \in DOMAIN base /\ base'[w.at] = base[w.at]
    BY <2>1, <1>1, <1>3 DEF Out, Types
  <2>4. LateBy(c)'
    BY <2>3, <1>1, <1>2 DEF LateBy
  <2>5. QED
    BY <2>2, <2>4
<1>8. Placed(c)' /\ CachedBy(c)' /\ HeldBy(c)' /\ SeenBy(c)'
  <2>1. Placed(c)'
    BY <1>1, <1>2, ExistsKept DEF Placed
  <2>2. CachedBy(c)'
    BY <1>1, <1>2, CacheKept
  <2>3. base'[At(c)].kind = "plist" /\ seen'[c].lock = "P_UNLOCKED" /\ seen'[c].base = PPtr(p)
    BY <1>2, <1>3, <1>5
  <2>4. HeldBy(c)'
    BY <2>3, <1>2, <1>5 DEF HeldBy
  <2>5. Below(At(c))' = p
    BY <1>0, <1>5 DEF Below
  <2>6. Exists(seen[c].base.at)'
    BY <1>2, <1>5, <2>3, <2>5 DEF Exists
  <2>7. SeenBy(c)'
    BY <2>3, <2>5, <2>6, <1>2, <1>3, <1>5 DEF SeenBy, Leads
  <2>8. QED
    BY <2>1, <2>2, <2>4, <2>7
<1>9. Owned'
  <2> SUFFICES ASSUME NEW j \in 1..Len(elists'), NEW b \in DOMAIN base', NEW d \in DOMAIN base',
                      Claim(j, b)', Claim(j, d)'
               PROVE  b = d
    BY DEF Owned
  <2>1. CASE j \in 1..n
    <3>1. Claim(j, b) /\ Claim(j, d)
      BY <2>1, <1>4
    <3>2. \A a : Claim(j, a) => a \in DOMAIN base
      BY Places DEF IInv, Claim, Located
    <3>3. QED
      BY <3>1, <3>2, <2>1, <1>0, <1>1 DEF Owned
  <2>2. CASE j \notin 1..n
    <3>1. j \in Nat
      BY <1>3
    <3>2. QED
      BY <3>1, <2>2, <1>3, <1>4
  <2>3. QED
    BY <2>1, <2>2
<1>10. KeysUnique'
  BY <1>3 DEF KeysUnique
<1>11. KeysOnPath'
  <2> SUFFICES /\ \A d \in Client : OnPath(req'[d].key, At(d)')
               /\ \A j \in 1..Len(elists') : \A b \in DOMAIN base' : Claim(j, b)' =>
                      \A i \in 1..Len(elists'[j]) : OnPath(elists'[j][i].key, b)
    BY DEF KeysOnPath, OnPath, SearchBucket
  <2>1. \A d \in Client : OnPath(req'[d].key, At(d)')
    BY <1>1, <1>2, <1>5 DEF KeysOnPath
  <2>2. \A l \in 1..Len(Pairs(c)) : OnPath(Pairs(c)[l].key, At(c))
    <3>1. PICK m \in 1..Len(elists) : Pairs(c) = elists[m] /\ Claim(m, At(c))
      BY <1>2, LockedSees
    <3>2. QED
      BY <3>1, <1>1, <1>5 DEF KeysOnPath
  <2>3. ASSUME NEW j \in 1..Len(elists'), NEW b \in DOMAIN base', Claim(j, b)',
               NEW i \in 1..Len(elists'[j])
        PROVE  OnPath(elists'[j][i].key, b)
    <3>1. CASE j \in 1..n
      <4>1. Claim(j, b) /\ elists'[j] = elists[j]
        BY <2>3, <3>1, <1>3, <1>4
      <4>2. b \in DOMAIN base
        BY <4>1, Places DEF IInv, Claim, Located
      <4>3. QED
        BY <4>1, <4>2, <3>1, <1>0, <1>1 DEF KeysOnPath
    <3>2. CASE j \notin 1..n
      <4>1. b \in Buckets(p) /\ base'[b] = EPtr(j) /\ j \in Nat
        BY <2>3, <3>2, <1>3, <1>4
      <4>2. PICK m \in 1..Len(elists') : base'[b] = EPtr(m) /\ Gets(elists'[m], Pairs(c), p, b[2])
        <5>1. base'[b] # Null
          <6>1. EPtr(j).kind = "elist" /\ Null.kind = "null"
            BY <4>1, PointerKinds
          <6>2. QED
            BY <4>1, <6>1
        <5>2. QED
          BY <5>1, <4>1, <1>3, Zenon
      <4>3. m = j
        <5>1. m \in Nat
          BY <1>3
        <5>2. QED
          BY <5>1, <4>1, <4>2, EPtrUnique
      <4>4. PICK l \in 1..Len(Pairs(c)) :
               elists'[j][i] = Pairs(c)[l] /\ SearchBucket(Pairs(c)[l].key, p) = b[2]
        BY <4>2, <4>3 DEF Gets
      <4>5. OnPath(Pairs(c)[l].key, <<p, SearchBucket(Pairs(c)[l].key, p)>>)
        <5>1. At(c)[1] \in Seq(Nat) /\ At(c)[2] \in Nat
          BY <1>1 DEF Located, Types
        <5>2. QED
          BY <5>1, <2>2, <1>0, OnPathBelow
      <4>6. b = <<p, b[2]>>
        BY <4>1, BucketsAre
      <4>7. QED
        BY <4>4, <4>5, <4>6
    <3>3. QED
      BY <3>1, <3>2
  <2>4. QED
    BY <2>1, <2>3
<1>12. QED
  BY <1>2, <1>6, <1>7, <1>8, <1>9, <1>10, <1>11, StepInv

LEMMA StutterInv == IInv /\ UNCHANGED vars => IInv'
<1> SUFFICES ASSUME IInv, UNCHANGED vars
             PROVE  IInv'
  OBVIOUS
<1>1. /\ base' = base /\ lock' = lock /\ elists' = elists /\ pc' = pc /\ req' = req
      /\ parent' = parent /\ bpath' = bpath /\ seen' = seen /\ cache' = cache /\ ret' = ret
      /\ ops' = ops /\ posted' = posted /\ temp_lock' = temp_lock
  BY DEF vars, tree, late, call
<1>2. Types' /\ Tree' /\ LockTellsType'
  BY <1>1 DEF IInv, Types, Tree, LockTellsType, Exists, Leads
<1>3. \A c \in Client : At(c)' = At(c)
  BY <1>1, RestsInPlace
<1>4. Positioned' /\ Held' /\ Late' /\ Saw' /\ Cached'
  <2>1. Positioned' /\ Held' /\ Late'
    BY <1>1, <1>3 DEF IInv, Positioned, Placed, Held, HeldBy, Late, LateBy, Exists
  <2>2. Grows
    BY <1>1 DEF IInv, Types, Grows
  <2>3. Types /\ Tree /\ LockTellsType /\ Cached
    BY DEF IInv
  <2>4. Cached'
    BY <1>1, <2>2, <2>3, CacheKept DEF Cached
  <2>5. ASSUME NEW c \in Client
        PROVE  Looking(c)' => SeenBy(c)'
    <3>1. Rests(c) /\ Spared(c)
      BY <1>1 DEF Rests, Spared
    <3>2. QED
      BY <1>2, <2>2, <3>1, OtherClient
  <2>6. QED
    BY <2>1, <2>4, <2>5 DEF Saw
<1>5. OneInside' /\ KeysUnique'
  <2>1. \A b : Inside(b)' = Inside(b) /\ Leaving(b)' = Leaving(b)
    BY <1>1, <1>3 DEF Inside, Leaving
  <2>2. QED
    BY <1>1, <2>1 DEF IInv, OneInside, KeysUnique
<1>6. \A j, b : Claim(j, b)' <=> Claim(j, b)
  BY <1>1, <1>3 DEF Claim, Looking
<1>7. Owned'
  BY <1>1, <1>6 DEF IInv, Owned
<1>8. KeysOnPath'
  BY <1>1, <1>3, <1>6 DEF IInv, KeysOnPath
<1>9. QED
  BY <1>2, <1>4, <1>5, <1>7, <1>8 DEF IInv

\* No client goes astray before something has gone wrong.
LEMMA NotAstray == ASSUME IInv, NEW c \in Client PROVE ~ GoAstray(c)
<1> SUFFICES ASSUME GoAstray(c)
             PROVE  FALSE
  OBVIOUS
<1>1. CASE pc[c] = "look" /\ seen[c].lock = "P_UNLOCKED" /\ seen[c].base.kind # "plist"
  BY <1>1 DEF IInv, Saw, Looking, SeenBy
<1>2. CASE pc[c] = "locked" /\ seen[c].base.kind = "plist"
  BY <1>2, LockedSees
<1>3. QED
  BY <1>1, <1>2 DEF GoAstray

LEMMA NextInv == IInv /\ [Next]_vars /\ mishap' = {} => IInv'
<1> SUFFICES ASSUME IInv, [Next]_vars, mishap' = {}
             PROVE  IInv'
  OBVIOUS
<1>1. ASSUME NEW c \in Client, NEW r \in Request, Call(c, r)
      PROVE  IInv'
  BY <1>1, CallInv
<1>2. ASSUME NEW c \in Client, Step(c)
      PROVE  IInv'
  <2>1. ~ RehashUnset(c)
    BY DEF RehashUnset
  <2>2. QED
    BY <1>2, <2>1, NotAstray, ReadCachedInv, ReadRemoteInv, DescendInv, AcquireInv, RefetchInv,
       UpdateInv, RehashInv, ReleaseInv DEF Step
<1>3. ASSUME NEW c \in Client, Adapter(c)
      PROVE  IInv'
  BY <1>3, ExecuteInv DEF Adapter
<1>4. CASE Terminated \/ UNCHANGED vars
  BY <1>4, StutterInv DEF Terminated
<1>5. QED
  BY <1>1, <1>2, <1>3, <1>4 DEF Next

\* What has gone wrong is never forgotten.
LEMMA MishapsStay == [Next]_vars => mishap \subseteq mishap'
<1> SUFFICES ASSUME [Next]_vars
             PROVE  mishap \subseteq mishap'
  OBVIOUS
<1>1. ASSUME NEW c \in Client, NEW r \in Request, Call(c, r)
      PROVE  mishap \subseteq mishap'
  BY <1>1 DEF Call
<1>2. ASSUME NEW c \in Client, Step(c)
      PROVE  mishap \subseteq mishap'
  BY <1>2 DEF Step, ReadCached, ReadRemote, Descend, Acquire, AcquireFails, Refetch, GoAstray,
     Contains, Remove, Insert, Return, Rehash, RehashUnset, Calcify, Unlock
<1>3. ASSUME NEW c \in Client, NEW w \in posted[c], Execute(c, w)
      PROVE  mishap \subseteq mishap'
  BY <1>3 DEF Execute
<1>4. CASE Terminated \/ UNCHANGED vars
  BY <1>4 DEF Terminated, vars
<1>5. QED
  BY <1>1, <1>2, <1>3, <1>4 DEF Next, Adapter

Inv == mishap = {} => IInv

LEMMA Invariance == Spec => []Inv
<1>1. Init => Inv
  BY InitInv DEF Inv
<1>2. Inv /\ [Next]_vars => Inv'
  <2> SUFFICES ASSUME Inv, [Next]_vars, mishap' = {}
               PROVE  IInv'
    BY DEF Inv
  <2>1. mishap = {}
    BY MishapsStay
  <2>2. QED
    BY <2>1, NextInv DEF Inv
<1>3. QED
  BY <1>1, <1>2, PTL DEF Spec

-----------------------------------------------------------------------------
(* What the clients hold.                                                   *)

LEMMA InvTypeOK == IInv => TypeOK
<1> SUFFICES ASSUME IInv
             PROVE  TypeOK
  OBVIOUS
<1>1. Types /\ Tree /\ Positioned
  BY DEF IInv
<1>2. \A b \in DOMAIN base : base[b].kind \in {"null", "elist", "plist"}
  BY <1>1 DEF Types, Pointer
<1>3. \A c \in Client : At(c) \in DOMAIN base
  BY <1>1, Places DEF Located
<1>4. \A c \in Client : seen[c].lock \in LockWords
  BY <1>1 DEF Types
<1>5. QED
  BY <1>1, <1>2, <1>3, <1>4 DEF Types, TypeOK, Pair, Label, LockWords

LEMMA InvCacheFresh == IInv => CacheFresh
<1> SUFFICES ASSUME IInv, NEW c \in Client, NEW s \in DOMAIN cache[c], NEW p, p = cache[c][s].of,
                    NEW i \in 0 .. Count(p) - 2
             PROVE  cache[c][s].words[i] = Word(<<p, i>>)
  BY DEF CacheFresh
<1>1. PICK q \in PLists : Copied(c, s, q)
  BY DEF IInv, Cached, CachedBy
<1>2. q = p
  BY <1>1 DEF Copied
<1>3. QED
  BY <1>1, <1>2 DEF Copied

\* With two layers of P-Lists cached at most, the cache returns what is meant.
LEMMA InvMeant ==
    ASSUME cache_depth <= 2, IInv, NEW c \in Client, Hit(c)
    PROVE  Fetched(c).of = parent[c]
<1>1. Types /\ Tree /\ Placed(c) /\ CachedBy(c)
  BY DEF IInv, Positioned, Cached
<1>2. PICK p \in PLists : Copied(c, CacheSlot(bpath[c]), p)
  BY <1>1 DEF Hit, CachedBy
<1>3. p \in Seq(Nat) /\ bpath[c] \in Seq(Nat) /\ bpath[c] = parent[c]
  BY <1>1, <1>2 DEF PLists, Tree, Exists, Types, Placed
<1>4. Len(bpath[c]) < 2
  <2>1. Len(bpath[c]) \in Nat /\ Len(bpath[c]) < cache_depth /\ cache_depth <= 2
        /\ cache_depth \in Nat
    BY <1>3, Constants DEF Hit
  <2>2. QED
    BY <2>1
<1>5. bpath[c] = p
  <2>1. CacheSlot(bpath[c]) = CacheSlot(p)
    BY <1>2 DEF Copied
  <2>2. QED
    BY <2>1, <1>3, <1>4, SlotIs
<1>6. QED
  BY <1>2, <1>3, <1>5 DEF Copied, Fetched

\* The cache is to blame for a mishap only where it returns another P-List.
LEMMA CacheToBlame ==
    ASSUME [Next]_vars, mishap = {}, mishap' = {"cache"}
    PROVE  \E c \in Client : Hit(c) /\ Fetched(c).of # parent[c]
<1>1. {} # {"cache"} /\ {"count"} # {"cache"} /\ {"unlock"} # {"cache"}
  OBVIOUS
<1>2. ASSUME NEW c \in Client, NEW r \in Request, Call(c, r)
      PROVE  FALSE
  BY <1>2 DEF Call
<1>3. ASSUME NEW c \in Client, Step(c), ~ ReadCached(c)
      PROVE  FALSE
  <2>1. mishap' = mishap \/ mishap' = mishap \cup {"count"}
    BY <1>3 DEF Step, ReadRemote, Descend, Acquire, AcquireFails, Refetch, GoAstray,
       Contains, Remove, Insert, Return, Rehash, RehashUnset, Calcify, Unlock
  <2>2. QED
    BY <2>1, <1>1
<1>4. ASSUME NEW c \in Client, NEW w \in posted[c], Execute(c, w)
      PROVE  FALSE
  <2>1. mishap' = mishap \/ mishap' = mishap \cup {"unlock"}
    BY <1>4 DEF Execute
  <2>2. QED
    BY <2>1, <1>1
<1>5. ASSUME Terminated \/ UNCHANGED vars
      PROVE  FALSE
  BY <1>5 DEF Terminated, vars
<1>6. PICK c \in Client : ReadCached(c)
  BY <1>2, <1>3, <1>4, <1>5 DEF Next, Adapter
<1>7. QED
  BY <1>6 DEF ReadCached

\* Until something has gone wrong, whatever layers are cached: a client is at a
\* bucket that exists, the lock of a bucket excludes others and is given back by a
\* write that every return of do_with posts, the lock word tells what the pointer
\* is, no client takes a P-List for an E-List or the reverse, though it read the
\* pointer earlier, and what it has cached has not changed.  With up to two layers
\* cached the cache is not what goes wrong first.
THEOREM ClientsAgree == Spec => []ClientsOK
<1> DEFINE Blameless == cache_depth <= 2 => mishap # {"cache"}
<1>1. Inv /\ Blameless => ClientsOK
  <2> SUFFICES ASSUME Inv, Blameless, mishap = {}
               PROVE  TypeOK /\ OneInside /\ LockTellsType /\ NeverMistaken /\ CacheFresh
    BY DEF ClientsOK
  <2>1. IInv
    BY DEF Inv
  <2>2. NeverMistaken
    <3> SUFFICES ASSUME NEW c \in Client
                 PROVE  /\ pc[c] = "locked" => seen[c].base.kind # "plist"
                        /\ pc[c] = "look" /\ seen[c].lock = "P_UNLOCKED" =>
                             seen[c].base.kind = "plist"
      BY DEF NeverMistaken
    <3>1. pc[c] = "look" => SeenBy(c)
      BY <2>1 DEF IInv, Saw, Looking
    <3>2. QED
      BY <2>1, <3>1, LockedSees DEF SeenBy
  <2>3. QED
    BY <2>1, <2>2, InvTypeOK, InvCacheFresh DEF IInv
<1>2. Init => Blameless
  BY DEF Init
<1>3. Inv /\ Blameless /\ [Next]_vars => Blameless'
  <2> SUFFICES ASSUME Inv, Blameless, [Next]_vars, cache_depth <= 2, mishap' = {"cache"}
               PROVE  FALSE
    OBVIOUS
  <2>1. mishap = {}
    <3>1. mishap \subseteq {"cache"} /\ mishap # {"cache"}
      BY MishapsStay
    <3>2. QED
      BY <3>1
  <2>2. IInv
    BY <2>1 DEF Inv
  <2>3. QED
    BY <2>1, <2>2, CacheToBlame, InvMeant
<1> HIDE DEF Blameless
<1>4. QED
  BY <1>1, <1>2, <1>3, Invariance, PTL DEF Spec

LEMMA NextGrows == IInv /\ [Next]_vars => [mishap' = {} => Grows]_vars
<1> SUFFICES ASSUME IInv, Next, mishap' = {}
             PROVE  Grows
  OBVIOUS
<1>1. /\ Types /\ OneHolder /\ (\A c \in Client : Located(c)) /\ Len(elists) \in Nat
      /\ \A b \in DOMAIN base : lock[b] \in LockWords
  <2>1. Types /\ Tree /\ Positioned /\ OneInside
    BY DEF IInv
  <2>2. OneHolder /\ (\A c \in Client : Located(c))
    BY <2>1, Places, InsideIsHolder
  <2>3. Len(elists) \in Nat /\ \A b \in DOMAIN base : lock[b] \in LockWords
    BY <2>1 DEF Types
  <2>4. QED
    BY <2>1, <2>2, <2>3
<1>2. UNCHANGED tree => Grows
  BY <1>1 DEF tree, Grows
<1>3. ASSUME NEW c \in Client, Acquire(c) \/ \E v \in posted[c] : Execute(c, v)
      PROVE  Grows
  <2>1. PICK a, w : /\ lock' = [lock EXCEPT ![a] = w] /\ base' = base /\ elists' = elists
                    /\ (a = At(c) /\ lock[a] = "E_UNLOCKED") \/ Out(c, a)
    BY <1>3 DEF Acquire, Execute, Out
  <2>2. a \in DOMAIN base
    BY <2>1, <1>1 DEF Located, Out, Types
  <2>3. lock[a] # "P_UNLOCKED"
    BY <2>1, <2>2, <1>1 DEF OneHolder, Has
  <2>4. \A b \in DOMAIN base : lock[b] = "P_UNLOCKED" => lock'[b] = "P_UNLOCKED"
    BY <1>1, <2>1, <2>2, <2>3 DEF Types
  <2>5. QED
    BY <1>1, <2>1, <2>4 DEF Grows
<1>4. ASSUME NEW c \in Client, Contains(c) \/ Remove(c) \/ Insert(c)
      PROVE  Grows
  <2>1. pc[c] = "locked" /\ lock' = lock
    BY <1>4, Changes
  <2>2. base[At(c)].kind # "plist"
    BY <2>1, LockedSees
  <2>3. /\ DOMAIN base' = DOMAIN base /\ Len(elists) <= Len(elists')
        /\ \A b \in DOMAIN base : base'[b] # base[b] => b = At(c)
    BY <1>4, UpdateLists
  <2>4. QED
    BY <2>1, <2>2, <2>3 DEF Grows
<1>5. ASSUME NEW c \in Client, Rehash(c)
      PROVE  Grows
  BY <1>5, RehashTree
<1>6. ASSUME NEW c \in Client,
             \/ ReadCached(c) \/ ReadRemote(c) \/ Descend(c) \/ AcquireFails(c) \/ Refetch(c)
             \/ Calcify(c) \/ Unlock(c) \/ GoAstray(c) \/ RehashUnset(c)
             \/ \E r \in Request : Call(c, r)
      PROVE  UNCHANGED tree
  BY <1>6 DEF ReadCached, ReadRemote, Descend, AcquireFails, Refetch, Calcify, Unlock, GoAstray,
     RehashUnset, Call
<1>7. Terminated => UNCHANGED tree
  BY DEF Terminated, vars
<1>8. QED
  BY <1>2, <1>3, <1>4, <1>5, <1>6, <1>7 DEF Next, Step, Adapter

\* Until something has gone wrong, a P-List is never taken out of the tree, and a
\* bucket that is calcified stays so: what a client has cached or descended to can
\* be relied upon without a lock.
THEOREM TreeGrows == Spec => [][mishap' = {} => Grows]_vars
<1>1. Inv /\ [Next]_vars => [mishap' = {} => Grows]_vars
  <2>1. [Next]_vars /\ mishap' = {} => mishap = {}
    BY MishapsStay
  <2>2. QED
    BY <2>1, NextGrows DEF Inv
<1>2. QED
  BY <1>1, Invariance, PTL DEF Spec

-----------------------------------------------------------------------------
(* Where a search ends.                                                     *)

EndsAt(k, b) == b \in DOMAIN base /\ base[b].kind # "plist" /\ OnPath(k, b)

LEMMA OneEnd == Tree => \A k \in Key : \A b, d : EndsAt(k, b) /\ EndsAt(k, d) => b = d
<1> SUFFICES ASSUME Tree, NEW k \in Key
             PROVE  \A b, d : EndsAt(k, b) /\ EndsAt(k, d) => b = d
  OBVIOUS
<1>1. ASSUME NEW b, NEW d, EndsAt(k, b), EndsAt(k, d), Len(b[1]) <= Len(d[1])
      PROVE  b = d
  <2>1. /\ b[1] \in Seq(Nat) /\ d[1] \in Seq(Nat) /\ b[2] \in Nat /\ d[2] \in Nat
        /\ b = <<b[1], b[2]>> /\ d = <<d[1], d[2]>>
    BY <1>1, BucketsLie DEF EndsAt
  <2>2. PICK p, q : p = b[1] /\ q = d[1]
    OBVIOUS
  <2>3. p \in Seq(Nat) /\ q \in Seq(Nat) /\ Len(p) \in Nat /\ Len(q) \in Nat /\ Len(p) <= Len(q)
    BY <2>1, <2>2, <1>1
  <2>4. /\ b[2] = SearchBucket(k, p) /\ d[2] = SearchBucket(k, q)
        /\ \A n \in 1..Len(p) : p[n] = SearchBucket(k, SubSeq(p, 1, n - 1))
        /\ \A n \in 1..Len(q) : q[n] = SearchBucket(k, SubSeq(q, 1, n - 1))
    BY <1>1, <2>2 DEF EndsAt, OnPath
  <2>5. \A n \in 1..Len(p) : p[n] = q[n]
    <3> SUFFICES ASSUME NEW n \in 1..Len(p)
                 PROVE  p[n] = q[n]
      OBVIOUS
    <3>1. n \in 1..Len(q) /\ n - 1 \in 0..Len(p) /\ n - 1 \in 0..Len(q)
      BY <2>3
    <3>2. Len(SubSeq(p, 1, n - 1)) = n - 1 /\ Len(SubSeq(q, 1, n - 1)) = n - 1
      BY <2>3, <3>1
    <3>3. SearchBucket(k, SubSeq(p, 1, n - 1)) = SearchBucket(k, SubSeq(q, 1, n - 1))
      BY <3>2, SameLevel
    <3>4. QED
      BY <2>4, <3>1, <3>3
  <2>6. CASE Len(p) = Len(q)
    <3>1. p = q
      BY <2>3, <2>5, <2>6, SeqEqual
    <3>2. QED
      BY <3>1, <2>1, <2>2, <2>4
  <2>7. CASE Len(p) < Len(q)
    <3> DEFINE n == Len(p) + 1
    <3>1. n \in 1..Len(q) /\ n - 1 = Len(p) /\ Len(p) \in 0..Len(q)
      BY <2>3, <2>7
    <3>2. SubSeq(q, 1, Len(p)) = p
      <4>1. SubSeq(q, 1, Len(p)) = [m \in 1..Len(p) |-> q[m]] /\ p = [m \in 1..Len(p) |-> p[m]]
        BY <2>3, <3>1
      <4>2. QED
        BY <4>1, <2>5
    <3>3. Above(q, n) = b
      BY <3>1, <3>2, <2>1, <2>2, <2>4 DEF Above
    <3>4. base[Above(q, n)].kind = "plist"
      BY <3>1, <1>1, <2>2 DEF Tree, EndsAt
    <3>5. QED
      BY <3>3, <3>4, <1>1 DEF EndsAt
  <2>8. QED
    BY <2>3, <2>6, <2>7
<1>2. \A b, d : EndsAt(k, b) /\ EndsAt(k, d) => Len(b[1]) \in Nat /\ Len(d[1]) \in Nat
  <2>1. \A s \in Seq(Nat) : Len(s) \in Nat
    OBVIOUS
  <2>2. QED
    BY <2>1, BucketsLie DEF EndsAt
<1>3. \A m, n \in Nat : m <= n \/ n <= m
  OBVIOUS
<1>4. QED
  BY <1>1, <1>2, <1>3

LEMMA SomeEnd == Tree => \A k \in Key : \E b : EndsAt(k, b)
<1> SUFFICES ASSUME Tree, NEW k \in Key
             PROVE  \E b : EndsAt(k, b)
  OBVIOUS
<1> DEFINE Deep(m) == \E b \in DOMAIN base : OnPath(k, b) /\ Len(b[1]) = MaxDepth - m
           S == {m \in Nat : Deep(m)}
<1>1. MaxDepth \in Nat
  BY Constants
<1>2. S # {}
  <2>1. <<>> \in Seq(Nat) /\ Len(<<>>) = 0 /\ Buckets(<<>>) \subseteq DOMAIN base
        /\ Len(<<>>) < MaxDepth
    BY Constants DEF Tree, Exists
  <2> DEFINE b == << <<>>, SearchBucket(k, <<>>) >>
  <2>2. b \in DOMAIN base
    BY <2>1, BucketType
  <2>3. b[1] = <<>> /\ b[2] = SearchBucket(k, <<>>)
    OBVIOUS
  <2>4. OnPath(k, b)
    BY <2>1, <2>3 DEF OnPath
  <2>5. Len(b[1]) = MaxDepth - MaxDepth
    BY <2>1, <2>3, <1>1
  <2>6. QED
    BY <2>2, <2>4, <2>5, <1>1
<1>3. PICK m \in S : \A o \in S : m <= o
  BY <1>2, LeastOne
<1>4. PICK b \in DOMAIN base : OnPath(k, b) /\ Len(b[1]) = MaxDepth - m
  BY <1>3
<1>5. base[b].kind # "plist"
  <2> SUFFICES ASSUME base[b].kind = "plist"
               PROVE  FALSE
    OBVIOUS
  <2>1. /\ b[1] \in Seq(Nat) /\ b[2] \in Nat /\ Len(b[1]) \in Nat /\ Len(b[1]) < MaxDepth
    BY BucketsLie
  <2>2. Below(b) \in Seq(Nat) /\ Len(Below(b)) = Len(b[1]) + 1
    BY <2>1, AppendIs DEF Below
  <2>3. Buckets(Below(b)) \subseteq DOMAIN base /\ Len(Below(b)) < MaxDepth
    BY DEF Tree, Exists
  <2> DEFINE d == <<Below(b), SearchBucket(k, Below(b))>>
  <2>4. d \in DOMAIN base /\ d[1] = Below(b)
    BY <2>2, <2>3, BucketType
  <2>5. OnPath(k, d)
    BY <1>4, <2>1, OnPathBelow
  <2>6. m - 1 \in Nat /\ Len(d[1]) = MaxDepth - (m - 1)
    BY <2>1, <2>2, <2>4, <1>1, <1>4
  <2>7. m - 1 \in S
    BY <2>4, <2>5, <2>6
  <2>8. QED
    BY <2>7, <1>3
<1>6. QED
  BY <1>4, <1>5 DEF EndsAt

\* A search for a key ends in one bucket.
LEMMA ReachedIs ==
    Tree => \A k \in Key : EndsAt(k, Reached(k)) /\ \A b : EndsAt(k, b) => Reached(k) = b
<1> SUFFICES ASSUME Tree, NEW k \in Key
             PROVE  EndsAt(k, Reached(k)) /\ \A b : EndsAt(k, b) => Reached(k) = b
  OBVIOUS
<1> DEFINE Looked == {<<p, SearchBucket(k, p)>> : p \in PLists}
           Right(b) == /\ base[b].kind # "plist"
                       /\ \A n \in 1..Len(b[1]) : b[1][n] = SearchBucket(k, SubSeq(b[1], 1, n - 1))
<1>1. Reached(k) = CHOOSE b \in Looked : Right(b)
  BY DEF Reached
<1>2. ASSUME NEW b, EndsAt(k, b)
      PROVE  b \in Looked /\ Right(b)
  <2>1. b \in DOMAIN base /\ b \in Buckets(b[1]) /\ b[2] = SearchBucket(k, b[1])
    BY <1>2 DEF EndsAt, OnPath, Tree
  <2>2. b = <<b[1], b[2]>>
    BY <2>1 DEF Buckets
  <2>3. b \in Looked
    BY <2>1, <2>2 DEF PLists
  <2>4. QED
    BY <2>3, <1>2 DEF EndsAt, OnPath
<1>3. ASSUME NEW b \in Looked, Right(b)
      PROVE  EndsAt(k, b)
  <2>1. PICK d \in DOMAIN base : b = <<d[1], SearchBucket(k, d[1])>>
    BY DEF PLists
  <2>2. b[1] = d[1] /\ b[2] = SearchBucket(k, b[1])
    BY <2>1
  <2>3. d[1] \in Seq(Nat) /\ Buckets(d[1]) \subseteq DOMAIN base /\ Len(d[1]) < MaxDepth
    BY BucketsLie DEF Tree, Exists
  <2>4. b \in DOMAIN base
    BY <2>1, <2>3, BucketType
  <2>5. QED
    BY <2>2, <2>4, <1>3 DEF EndsAt, OnPath
<1>4. \E b \in Looked : Right(b)
  BY <1>2, SomeEnd
<1>5. Reached(k) \in Looked /\ Right(Reached(k))
  <2> HIDE DEF Looked, Right
  <2>1. QED
    BY <1>1, <1>4
<1>6. EndsAt(k, Reached(k))
  BY <1>3, <1>5
<1>7. QED
  BY <1>6, OneEnd

\* Until something has gone wrong, a pair in the tree lies where a search for its key
\* ends, for every hash function and size and whatever is cached; so it does after
\* every rehash.
THEOREM PairsAreFound == Spec => []StoredIsFound
<1>1. Inv => StoredIsFound
  <2> SUFFICES ASSUME IInv, NEW b \in DOMAIN base, NEW i \in 1..Len(Contents(base[b]))
               PROVE  Reached(Contents(base[b])[i].key) = b
    BY DEF StoredIsFound, Inv
  <2>1. Types /\ Tree /\ KeysOnPath /\ Leads(base[b])
    BY DEF IInv, Tree
  <2>2. base[b].kind = "elist"
    <3>1. Len(<<>>) = 0
      OBVIOUS
    <3>2. QED
      BY <3>1 DEF Contents
  <2>3. PICK j \in 1..Len(elists) : base[b] = EPtr(j)
    BY <2>1, <2>2, PointerKinds DEF Leads
  <2>4. elists[j] \in Seq(Pair) /\ j \in Nat
    BY <2>1 DEF Types
  <2>5. Contents(base[b]) = elists[j]
    BY <2>2, <2>3, <2>4, PointerKinds DEF Contents
  <2>6. elists[j][i] \in Pair
    BY <2>4, <2>5
  <2>7. elists[j][i].key \in Key
    BY <2>6 DEF Pair
  <2>8. OnPath(elists[j][i].key, b)
    BY <2>1, <2>3, <2>5 DEF KeysOnPath, Claim
  <2>9. EndsAt(elists[j][i].key, b)
    BY <2>2, <2>8 DEF EndsAt
  <2>10. QED
    BY <2>1, <2>5, <2>7, <2>9, ReachedIs
<1>2. QED
  BY <1>1, Invariance, PTL

-----------------------------------------------------------------------------
(* The map.                                                                 *)

\* What the map has for a key is in the bucket where a search ends.
LEMMA ContentIs ==
    Tree => \A k \in Key : /\ EndsAt(k, Reached(k))
                           /\ \A b : EndsAt(k, b) => Content[k] = Lookup(Contents(base[b]), k)
  BY ReachedIs DEF Content

\* The same after a step.
LEMMA ContentThen ==
    Tree' => \A k \in Key : \A b : EndsAt(k, b)' => Content'[k] = Lookup(Contents(base[b])', k)
<1>1. (Tree => \A k \in Key : /\ EndsAt(k, Reached(k))
                              /\ \A b : EndsAt(k, b) => Content[k] = Lookup(Contents(base[b]), k))'
  BY ContentIs, PTL
<1>2. QED
  BY <1>1

LEMMA EmptyLookup == ASSUME NEW k PROVE Lookup(<<>>, k) = None
<1>1. <<>> \in Seq(Pair) /\ Len(<<>>) = 0
  OBVIOUS
<1>2. \A i \in 1..Len(<<>>) : <<>>[i].key # k
  BY <1>1
<1>3. QED
  BY <1>1, <1>2, LookupIs

\* That bucket has no E-List, or one it owns.
LEMMA EndHolds ==
    Types /\ Tree /\ KeysUnique => \A k, b : EndsAt(k, b) =>
        /\ Contents(base[b]) \in Seq(Pair) /\ Unique(Contents(base[b]))
        /\ \/ base[b] = Null /\ Contents(base[b]) = <<>>
           \/ \E j \in 1..Len(elists) : base[b] = EPtr(j) /\ Contents(base[b]) = elists[j]
<1> SUFFICES ASSUME Types, Tree, KeysUnique, NEW k, NEW b, EndsAt(k, b)
             PROVE  /\ Contents(base[b]) \in Seq(Pair) /\ Unique(Contents(base[b]))
                    /\ \/ base[b] = Null /\ Contents(base[b]) = <<>>
                       \/ \E j \in 1..Len(elists) :
                             base[b] = EPtr(j) /\ Contents(base[b]) = elists[j]
  OBVIOUS
<1>1. Leads(base[b]) /\ base[b].kind # "plist"
  BY DEF EndsAt, Tree
<1>2. CASE base[b] = Null
  <2>1. Contents(base[b]) = <<>>
    BY <1>2, PointerKinds DEF Contents
  <2>2. <<>> \in Seq(Pair) /\ Len(<<>>) = 0
    OBVIOUS
  <2>3. Unique(<<>>)
    BY <2>2 DEF Unique
  <2>4. QED
    BY <1>2, <2>1, <2>2, <2>3
<1>3. ASSUME NEW j \in 1..Len(elists), base[b] = EPtr(j)
      PROVE  Contents(base[b]) = elists[j] /\ elists[j] \in Seq(Pair) /\ Unique(elists[j])
  <2>1. j \in Nat /\ elists[j] \in Seq(Pair)
    BY DEF Types
  <2>2. Contents(base[b]) = elists[j]
    BY <2>1, <1>3, PointerKinds DEF Contents
  <2>3. QED
    BY <2>1, <2>2 DEF KeysUnique
<1>4. QED
  BY <1>1, <1>2, <1>3 DEF Leads

\* A client's own key ends where it has locked.
LEMMA OwnEnd ==
    ASSUME IInv, NEW c \in Client, pc[c] = "locked"
    PROVE  EndsAt(req[c].key, At(c)) /\ req[c].key \in Key
<1>1. Types /\ Tree /\ Positioned /\ KeysOnPath
  BY DEF IInv
<1>2. Located(c)
  BY <1>1, Places
<1>3. base[At(c)].kind # "plist"
  BY LockedSees
<1>4. QED
  BY <1>1, <1>2, <1>3 DEF KeysOnPath, EndsAt, Located

\* What an operation does to the map under the lock, with a pointer that is fresh.
LEMMA UpdateContent ==
    ASSUME IInv, IInv', NEW c \in Client, ~ Stale(c), Contains(c) \/ Remove(c) \/ Insert(c)
    PROVE  /\ Content[req[c].key] = Found(c)
           /\ \A k \in Key : Content'[k] = IF k = req[c].key THEN After(c) ELSE Content[k]
<1>1. Types /\ Tree /\ KeysUnique /\ Owned /\ pc[c] = "locked"
  BY Changes DEF IInv
<1>2. PICK a, q, n : a = At(c) /\ q = req[c].key /\ n = Len(elists)
  OBVIOUS
<1>3. EndsAt(q, a) /\ q \in Key
  BY <1>1, <1>2, OwnEnd
<1>4. seen[c].base = base[a] /\ Pairs(c) = Contents(base[a])
  BY <1>1, <1>2 DEF Stale, Pairs
<1>5. Content[q] = Found(c)
  BY <1>1, <1>2, <1>3, <1>4, ContentIs DEF Found
<1>6. ASSUME NEW k \in Key
      PROVE  Content'[k] = IF k = q THEN After(c) ELSE Content[k]
  <2>1. PICK b : b = Reached(k)
    OBVIOUS
  <2>2. EndsAt(k, b) /\ Content[k] = Lookup(Contents(base[b]), k) /\ (k = q => b = a)
    BY <2>1, <1>1, <1>3, ContentIs, OneEnd
  <2>3. EndsAt(k, b)'
    <3>1. DOMAIN base' = DOMAIN base
          /\ (base'[b] # base[b] => b = a /\ base'[b] = EPtr(n + 1)) /\ n \in Nat
      BY <1>2, <2>2, UpdateLists DEF EndsAt
    <3>2. base'[b].kind # "plist"
      BY <2>2, <3>1, PointerKinds DEF EndsAt
    <3>3. QED
      BY <2>2, <3>1, <3>2 DEF EndsAt
  <2>4. Content'[k] = Lookup(Contents(base[b])', k)
    <3>1. Tree'
      BY DEF IInv
    <3>2. QED
      BY <2>3, <3>1, ContentThen
  <2>5. \A x : Contents(x)' = IF x.kind = "elist" THEN elists'[x.at[1]] ELSE <<>>
    BY DEF Contents
  <2>6. CASE Same(c)
    <3>1. Contents(base[b])' = Contents(base[b]) /\ After(c) = Found(c)
      BY <2>6 DEF Same, Contents
    <3>2. QED
      BY <3>1, <2>2, <2>4, <1>5
  <2>7. CASE Allocates(c)
    <3>1. /\ base[a] = Null /\ NewPair(c) \in Pair /\ After(c) = req[c].val
          /\ elists' = Append(elists, <<NewPair(c)>>) /\ base' = [base EXCEPT ![a] = EPtr(n + 1)]
      BY <2>7, <1>2, <1>4 DEF Allocates
    <3>2. n \in Nat /\ elists'[n + 1] = <<NewPair(c)>> /\ \A j \in 1..n : elists'[j] = elists[j]
      BY <3>1, <1>1, <1>2 DEF Types
    <3>3. CASE b = a
      <4>1. base'[b] = EPtr(n + 1)
        BY <3>1, <3>3, <2>2 DEF EndsAt
      <4>2. Contents(base[b])' = <<NewPair(c)>>
        <5>1. Contents(base[b])' = Contents(EPtr(n + 1))'
          BY <4>1 DEF Contents
        <5>2. n + 1 \in Nat
          BY <3>2
        <5>3. EPtr(n + 1).kind = "elist" /\ EPtr(n + 1).at[1] = n + 1
          BY <5>2, PointerKinds
        <5>4. Contents(EPtr(n + 1))' = elists'[n + 1]
          BY <5>3, <2>5, Zenon
        <5>5. QED
          BY <5>1, <5>4, <3>2
      <4>3. Contents(base[b]) = <<>>
        BY <3>1, <3>3, PointerKinds DEF Contents
      <4>4. <<>> \in Seq(Pair) /\ Len(<<>>) = 0 /\ Append(<<>>, NewPair(c)) = <<NewPair(c)>>
        OBVIOUS
      <4>5. Lookup(<<>>, k) = None /\ Lookup(<<>>, NewPair(c).key) = None
        BY EmptyLookup
      <4>6. Lookup(<<NewPair(c)>>, k) = IF k = NewPair(c).key THEN NewPair(c).val ELSE Lookup(<<>>, k)
        <5>1. Unique(<<>>)
          BY <4>4 DEF Unique
        <5>2. \A o : Lookup(Append(<<>>, NewPair(c)), o) =
                        IF o = NewPair(c).key THEN NewPair(c).val ELSE Lookup(<<>>, o)
          BY <5>1, <4>4, <4>5, <3>1, InsertEffect
        <5>3. QED
          BY <5>2, <4>4
      <4>7. NewPair(c).key = q /\ NewPair(c).val = req[c].val
        BY <1>2 DEF NewPair
      <4>8. QED
        BY <4>2, <4>3, <4>6, <4>7, <3>1, <2>2, <2>4
    <3>4. CASE b # a
      <4>1. base'[b] = base[b]
        BY <3>1, <3>4
      <4>2. Contents(base[b])' = Contents(base[b])
        <5>1. CASE base[b] = Null
          BY <5>1, <4>1, PointerKinds DEF Contents
        <5>2. ASSUME NEW j \in 1..n, base[b] = EPtr(j)
              PROVE  Contents(base[b])' = Contents(base[b])
          <6>1. j \in Nat
            BY <3>2
          <6>2. EPtr(j).kind = "elist" /\ EPtr(j).at[1] = j
            BY <6>1, PointerKinds
          <6>3. QED
            BY <5>2, <6>2, <4>1, <3>2 DEF Contents
        <5>3. QED
          BY <5>1, <5>2, <1>1, <1>2, <2>2, EndHolds
      <4>3. QED
        BY <4>2, <3>4, <2>2, <2>4
    <3>5. QED
      BY <3>3, <3>4
  <2>8. ASSUME NEW j \in 1..Len(elists), NEW x, Writes(c, j, x)
        PROVE  Content'[k] = IF k = q THEN After(c) ELSE Content[k]
    <3>1. /\ base[a] = EPtr(j) /\ base' = base /\ elists' = [elists EXCEPT ![j] = x]
          /\ \A o : Lookup(x, o) = IF o = q THEN After(c) ELSE Lookup(elists[j], o)
      BY <2>8, <1>2, <1>4 DEF Writes
    <3>2. /\ Len(elists) \in Nat /\ elists'[j] = x
          /\ \A i \in 1..Len(elists) : i # j => elists'[i] = elists[i]
      BY <3>1, <1>1 DEF Types
    <3>3. j \in Nat /\ EPtr(j).kind = "elist" /\ EPtr(j).at[1] = j
      BY <3>2, PointerKinds
    <3>4. CASE b = a
      <4>1. Contents(base[b])' = x /\ Contents(base[b]) = elists[j]
        BY <3>1, <3>2, <3>3, <3>4 DEF Contents
      <4>2. QED
        BY <4>1, <3>1, <2>2, <2>4
    <3>5. CASE b # a
      <4>1. Contents(base[b])' = Contents(base[b])
        <5>1. CASE base[b] = Null
          BY <5>1, <3>1, PointerKinds DEF Contents
        <5>2. ASSUME NEW i \in 1..Len(elists), base[b] = EPtr(i)
              PROVE  Contents(base[b])' = Contents(base[b])
          <6>1. i # j
            <7> SUFFICES ASSUME i = j
                         PROVE  FALSE
              OBVIOUS
            <7>1. Claim(j, b) /\ Claim(j, a) /\ a \in DOMAIN base /\ b \in DOMAIN base
              BY <5>2, <3>1, <2>2, <1>3 DEF Claim, EndsAt
            <7>2. QED
              BY <7>1, <3>5, <1>1 DEF Owned
          <6>2. i \in Nat /\ EPtr(i).kind = "elist" /\ EPtr(i).at[1] = i
            BY <3>2, PointerKinds
          <6>3. QED
            BY <5>2, <6>1, <6>2, <3>1, <3>2 DEF Contents
        <5>3. QED
          BY <5>1, <5>2, <1>1, <2>2, EndHolds
      <4>2. QED
        BY <4>1, <3>5, <2>2, <2>4
    <3>6. QED
      BY <3>4, <3>5
  <2>9. QED
    BY <2>6, <2>7, <2>8, Changes
<1>7. QED
  BY <1>2, <1>5, <1>6

\* A rehash with a fresh pointer moves the pairs of a bucket to where they are found.
LEMMA RehashContent ==
    ASSUME IInv, IInv', NEW c \in Client, ~ Stale(c), Rehash(c)
    PROVE  \A k \in Key : Content'[k] = Content[k]
<1>1. Types /\ Tree /\ KeysUnique /\ pc[c] = "locked" /\ Tree' /\ At(c) \in DOMAIN base
  <2>1. Types /\ Tree /\ KeysUnique /\ Positioned /\ pc[c] = "locked" /\ Tree'
    BY RehashTree DEF IInv
  <2>2. QED
    BY <2>1, Places DEF Located
<1>2. PICK a, p, s, n : a = At(c) /\ p = Below(At(c)) /\ s = Pairs(c) /\ n = Len(elists)
  OBVIOUS
<1>3. s = Contents(base[a]) /\ s \in Seq(Pair) /\ Unique(s)
  <2>1. seen[c].base = base[a]
    BY <1>1, <1>2 DEF Stale
  <2>2. QED
    BY <1>1, <1>2, <2>1, LockedSees DEF Pairs
<1>4. /\ p \in Seq(Nat) /\ Len(p) < MaxDepth /\ DOMAIN base' = DOMAIN base \cup Buckets(p)
      /\ \A b \in DOMAIN base : base'[b] = IF b = a THEN PPtr(p) ELSE base[b]
      /\ \A b \in Buckets(p) :
           \/ base'[b] = Null /\ Gets(<<>>, s, p, b[2])
           \/ \E j \in 1..Len(elists') : base'[b] = EPtr(j) /\ Gets(elists'[j], s, p, b[2])
      /\ Len(elists') \in Nat /\ n \in Nat
      /\ \A j \in 1..n : elists'[j] = elists[j]
  BY <1>2, NewLists
<1>5. ASSUME NEW k \in Key, NEW b, EndsAt(k, b), b # a
      PROVE  Content'[k] = Content[k]
  <2>1. base'[b] = base[b] /\ EndsAt(k, b)'
    BY <1>4, <1>5 DEF EndsAt
  <2>2. Contents(base[b])' = Contents(base[b])
    <3>1. CASE base[b] = Null
      BY <3>1, <2>1, PointerKinds DEF Contents
    <3>2. ASSUME NEW j \in 1..n, base[b] = EPtr(j)
          PROVE  Contents(base[b])' = Contents(base[b])
      <4>1. j \in Nat
        BY <1>4
      <4>2. EPtr(j).kind = "elist" /\ EPtr(j).at[1] = j
        BY <4>1, PointerKinds
      <4>3. QED
        BY <3>2, <4>2, <2>1, <1>4 DEF Contents
    <3>3. QED
      BY <3>1, <3>2, <1>1, <1>2, <1>5, EndHolds
  <2>3. Content[k] = Lookup(Contents(base[b]), k)
    BY <1>1, <1>5, ContentIs
  <2>4. Content'[k] = Lookup(Contents(base[b])', k)
    BY <1>1, <2>1, ContentThen
  <2>5. QED
    BY <2>2, <2>3, <2>4
<1>6. ASSUME NEW k \in Key, EndsAt(k, a)
      PROVE  Content'[k] = Content[k]
  <2>1. PICK d : d = <<p, SearchBucket(k, p)>>
    OBVIOUS
  <2>2. d \in Buckets(p) /\ d[2] = SearchBucket(k, p)
    BY <2>1, <1>4, BucketType
  <2>3. OnPath(k, d)
    <3>1. a[1] \in Seq(Nat) /\ a[2] \in Nat /\ p = Below(a)
      BY <1>1, <1>2, BucketsLie
    <3>2. QED
      BY <3>1, <2>1, <1>6, OnPathBelow DEF EndsAt
  <2>4. PICK x : Gets(x, s, p, d[2]) /\ Contents(base[d])' = x /\ base'[d].kind # "plist"
    <3>1. CASE base'[d] = Null /\ Gets(<<>>, s, p, d[2])
      <4>1. Contents(base[d])' = <<>> /\ base'[d].kind # "plist"
        BY <3>1, PointerKinds DEF Contents
      <4>2. QED
        BY <3>1, <4>1
    <3>2. ASSUME NEW j \in 1..Len(elists'), base'[d] = EPtr(j), Gets(elists'[j], s, p, d[2])
          PROVE  Contents(base[d])' = elists'[j] /\ base'[d].kind # "plist"
      <4>1. j \in Nat
        BY <1>4
      <4>2. EPtr(j).kind = "elist" /\ EPtr(j).at[1] = j
        BY <4>1, PointerKinds
      <4>3. QED
        BY <3>2, <4>2 DEF Contents
    <3>3. QED
      BY <3>1, <3>2, <2>2, <1>4
  <2>5. EndsAt(k, d)'
    BY <2>2, <2>3, <2>4, <1>4 DEF EndsAt
  <2>6. Content'[k] = Lookup(x, k)
    BY <2>4, <2>5, <1>1, ContentThen
  <2>7. Content[k] = Lookup(s, k)
    BY <1>1, <1>3, <1>6, ContentIs
  <2>8. Lookup(s, k) = Lookup(x, k)
    <3>1. x \in Seq(Pair) /\ Unique(x)
      BY <2>4 DEF Gets
    <3>2. \A l \in 1..Len(s) : s[l].key = k => \E m \in 1..Len(x) : x[m] = s[l]
      BY <2>2, <2>4 DEF Gets
    <3>3. \A m \in 1..Len(x) : x[m].key = k => \E l \in 1..Len(s) : s[l] = x[m]
      BY <2>4 DEF Gets
    <3>4. QED
      BY <3>1, <3>2, <3>3, <1>3, SameLookup
  <2>9. QED
    BY <2>6, <2>7, <2>8
<1>7. QED
  BY <1>1, <1>5, <1>6, ContentIs

Shown(label) == CASE label = "idle" -> "idle" [] label = "unlock" -> "applied" [] OTHER -> "called"

LEMMA StatusSet ==
    ASSUME Types, NEW c \in Client, NEW l, pc' = [pc EXCEPT ![c] = l]
    PROVE  /\ Status' = [Status EXCEPT ![c] = Shown(l)] /\ Status[c] = Shown(pc[c])
           /\ Shown(l) = Shown(pc[c]) => Status' = Status
<1>1. Status = [d \in Client |-> Shown(pc[d])] /\ Status' = [d \in Client |-> Shown(pc'[d])]
  BY DEF Status, Shown
<1>2. \A d \in Client : pc'[d] = IF d = c THEN l ELSE pc[d]
  BY DEF Types
<1>3. QED
  BY <1>1, <1>2

\* The map's name of a request.
AsAsked(r) == [op |-> IF r.op = "contains" THEN "get" ELSE r.op, key |-> r.key, val |-> r.val]

LEMMA AskedIs ==
    /\ \A r \in Request : AsAsked(r) \in Map!Request
                          /\ [r EXCEPT !.op = IF @ = "contains" THEN "get" ELSE @] = AsAsked(r)
    /\ Types => Asked = [c \in Client |-> AsAsked(req[c])]
<1>1. ASSUME NEW r \in Request
      PROVE  AsAsked(r) \in Map!Request
             /\ [r EXCEPT !.op = IF @ = "contains" THEN "get" ELSE @] = AsAsked(r)
  <2>1. CASE r \in [op : {"insert"}, key : Key, val : Val]
    BY <2>1 DEF AsAsked, Map!Request
  <2>2. CASE r \in [op : {"contains", "remove"}, key : Key, val : {None}]
    BY <2>2 DEF AsAsked, Map!Request
  <2>3. QED
    BY <2>1, <2>2 DEF Request
<1>2. Types => Asked = [c \in Client |-> AsAsked(req[c])]
  <2> SUFFICES ASSUME Types
               PROVE  Asked = [c \in Client |-> AsAsked(req[c])]
    OBVIOUS
  <2>1. \A c \in Client : req[c] \in Request
    BY DEF Types
  <2>2. QED
    BY <1>1, <2>1 DEF Asked
<1>3. QED
  BY <1>1, <1>2

LEMMA MapInit == Init => Map!Init
<1> SUFFICES ASSUME Init
             PROVE  Map!Init
  OBVIOUS
<1>1. Types /\ Tree
  BY InitInv DEF IInv
<1>2. ASSUME NEW k \in Key
      PROVE  Lookup(Contents(base[Reached(k)]), k) = None
  <2>1. Reached(k) \in DOMAIN base
    BY <1>1, ReachedIs DEF EndsAt
  <2>2. base[Reached(k)] = Null
    BY <2>1 DEF Init
  <2>3. Contents(base[Reached(k)]) = <<>>
    BY <2>2, PointerKinds DEF Contents
  <2>4. QED
    BY <2>3, EmptyLookup
<1>3. Content = [k \in Key |-> None]
  BY <1>2 DEF Content
<1>4. Status = [c \in Client |-> "idle"]
  BY DEF Init, Status
<1>5. Asked \in [Client -> Map!Request]
  <2>1. \A c \in Client : AsAsked(req[c]) \in Map!Request
    BY <1>1, AskedIs DEF Types
  <2>2. QED
    BY <2>1, <1>1, AskedIs
<1>6. ret = [c \in Client |-> None]
  BY DEF Init
<1>7. QED
  BY <1>3, <1>4, <1>5, <1>6 DEF Map!Init

\* contains, remove and insert with a fresh pointer are the operations of a map.
LEMMA MapApply ==
    ASSUME IInv, IInv', NEW c \in Client, ~ Stale(c), Contains(c) \/ Remove(c) \/ Insert(c)
    PROVE  Map!Apply(c)
<1>1. Types /\ Types' /\ pc[c] = "locked" /\ pc' = [pc EXCEPT ![c] = "unlock"] /\ req' = req
      /\ ret' = [ret EXCEPT ![c] = Found(c)]
  BY Changes DEF IInv
<1>2. Status[c] = "called" /\ Status' = [Status EXCEPT ![c] = "applied"]
  BY <1>1, StatusSet DEF Shown
<1>3. PICK r : r = req[c]
  OBVIOUS
<1>4. r \in Request /\ r.key \in Key /\ Asked[c] = AsAsked(r) /\ Asked' = Asked
  <2>1. Asked' = Asked
    BY <1>1 DEF Asked
  <2>2. r \in Request /\ Asked = [d \in Client |-> AsAsked(req[d])]
    BY <1>1, <1>3, AskedIs DEF Types
  <2>3. QED
    BY <2>1, <2>2, <1>3, RequestFields
<1>5. /\ Content[r.key] = Found(c)
      /\ \A k \in Key : Content'[k] = IF k = r.key THEN After(c) ELSE Content[k]
  BY <1>3, UpdateContent
<1>6. AsAsked(r).key = r.key /\ After(c) = Map!NewValue(AsAsked(r))
  <2>1. /\ AsAsked(r).key = r.key /\ AsAsked(r).val = r.val
        /\ AsAsked(r).op = "remove" <=> r.op = "remove"
        /\ AsAsked(r).op = "insert" <=> r.op = "insert"
    BY <1>4, RequestFields DEF AsAsked
  <2>2. QED
    BY <2>1, <1>3, <1>5 DEF After, Map!NewValue
<1>7. Content' = [Content EXCEPT ![r.key] = After(c)]
  <2>1. DOMAIN Content = Key /\ DOMAIN Content' = Key
        /\ Content = [k \in Key |-> Content[k]] /\ Content' = [k \in Key |-> Content'[k]]
    BY DEF Content
  <2>2. QED
    BY <2>1, <1>4, <1>5
<1>8. QED
  BY <1>1, <1>2, <1>4, <1>5, <1>6, <1>7 DEF Map!Apply

\* Every step is one of the map, or none, or a stale client's.
LEMMA MapStep ==
    ASSUME IInv, [Next]_vars, mishap' = {}
    PROVE  [(\E c \in Client : Stale(c) /\ pc'[c] # pc[c]) \/ Map!Next]_<<Content, Status, Asked, ret>>
<1>1. Types /\ IInv' /\ Types'
  <2>1. IInv'
    BY NextInv
  <2>2. QED
    BY <2>1 DEF IInv
<1>2. base' = base /\ elists' = elists => Content' = Content
  BY DEF Content, Reached, PLists, Contents
<1>3. req' = req => Asked' = Asked
  BY DEF Asked
<1>4. ASSUME NEW c \in Client,
             \/ ReadCached(c) \/ ReadRemote(c) \/ Descend(c) \/ Acquire(c) \/ AcquireFails(c)
             \/ Refetch(c) \/ Calcify(c)
      PROVE  UNCHANGED <<Content, Status, Asked, ret>>
  <2>1. base' = base /\ elists' = elists /\ req' = req /\ ret' = ret
    BY <1>4 DEF ReadCached, ReadRemote, Descend, Acquire, AcquireFails, Refetch, Calcify, tree, call
  <2>2. PICK l \in {"look", "read", "locked", "refetch"} :
          pc' = [pc EXCEPT ![c] = l] /\ pc[c] \in {"read", "look", "refetch", "calcify"}
    BY <1>4 DEF ReadCached, ReadRemote, Descend, Acquire, AcquireFails, Refetch, Calcify, Go
  <2>3. Shown(l) = Shown(pc[c])
    BY <2>2 DEF Shown
  <2>4. Status' = Status
    BY <2>2, <2>3, <1>1, StatusSet
  <2>5. QED
    BY <2>1, <2>4, <1>2, <1>3
<1>5. ASSUME NEW c \in Client, Unlock(c)
      PROVE  Map!Next
  <2>1. pc[c] = "unlock" /\ pc' = [pc EXCEPT ![c] = "idle"] /\ base' = base /\ elists' = elists
        /\ req' = req /\ ret' = ret
    BY <1>5 DEF Unlock, Go, tree, call
  <2>2. Status' = [Status EXCEPT ![c] = "idle"] /\ Status[c] = "applied"
    BY <1>1, <2>1, StatusSet DEF Shown
  <2>3. Map!Return(c)
    BY <2>1, <2>2, <1>2, <1>3 DEF Map!Return
  <2>4. QED
    BY <2>3 DEF Map!Next
<1>6. ASSUME NEW c \in Client, NEW r \in Request, Call(c, r)
      PROVE  Map!Next
  <2>1. pc[c] = "idle" /\ pc' = [pc EXCEPT ![c] = "read"] /\ base' = base /\ elists' = elists
        /\ ret' = ret /\ req' = [req EXCEPT ![c] = r]
    BY <1>6 DEF Call, Go, tree
  <2>2. Shown("read") = "called" /\ Shown("idle") = "idle"
    BY DEF Shown
  <2>3. Status' = [Status EXCEPT ![c] = "called"] /\ Status[c] = "idle"
    BY <1>1, <2>1, <2>2, StatusSet
  <2>4. Asked' = [Asked EXCEPT ![c] = AsAsked(r)]
    <3>1. Asked = [d \in Client |-> AsAsked(req[d])] /\ Asked' = [d \in Client |-> AsAsked(req'[d])]
      <4>1. Types => Asked = [d \in Client |-> AsAsked(req[d])]
        BY AskedIs
      <4>2. (\A d \in Client : req'[d] \in Request)
        BY <1>1 DEF Types
      <4>3. Asked' = [d \in Client |-> AsAsked(req'[d])]
        BY <4>2, AskedIs DEF Asked
      <4>4. QED
        BY <4>1, <4>3, <1>1
    <3>2. \A d \in Client : req'[d] = IF d = c THEN r ELSE req[d]
      BY <1>1, <2>1 DEF Types
    <3>3. QED
      BY <3>1, <3>2
  <2>5. Map!Call(c, AsAsked(r)) /\ AsAsked(r) \in Map!Request
    BY <2>1, <2>3, <2>4, <1>2, AskedIs DEF Map!Call
  <2>6. QED
    BY <2>5 DEF Map!Next
<1>7. ASSUME NEW c \in Client, Contains(c) \/ Remove(c) \/ Insert(c)
      PROVE  (Stale(c) /\ pc'[c] # pc[c]) \/ Map!Next
  <2>1. pc[c] = "locked" /\ pc'[c] = "unlock"
    <3>1. pc[c] = "locked" /\ pc' = [pc EXCEPT ![c] = "unlock"]
      BY <1>7, Changes
    <3>2. QED
      BY <3>1, <1>1 DEF Types
  <2>2. ~ Stale(c) => Map!Apply(c)
    BY <1>1, <1>7, MapApply
  <2>3. QED
    BY <2>1, <2>2 DEF Map!Next
<1>8. ASSUME NEW c \in Client, Rehash(c)
      PROVE  (Stale(c) /\ pc'[c] # pc[c]) \/ UNCHANGED <<Content, Status, Asked, ret>>
  <2>1. pc[c] = "locked" /\ pc'[c] = "calcify" /\ pc' = [pc EXCEPT ![c] = "calcify"]
        /\ req' = req /\ ret' = ret
    BY <1>8, RehashTree
  <2> SUFFICES ASSUME ~ Stale(c)
               PROVE  UNCHANGED <<Content, Status, Asked, ret>>
    BY <2>1
  <2>2. Shown("locked") = Shown("calcify")
    BY DEF Shown
  <2>3. Status' = Status
    BY <1>1, <2>1, <2>2, StatusSet
  <2>4. Content' = Content
    <3>1. Content = [k \in Key |-> Content[k]] /\ Content' = [k \in Key |-> Content'[k]]
      BY DEF Content
    <3>2. \A k \in Key : Content'[k] = Content[k]
      BY <1>1, <1>8, RehashContent
    <3>3. QED
      BY <3>1, <3>2
  <2>5. QED
    BY <2>1, <2>3, <2>4, <1>3
<1>9. ASSUME (\E c \in Client : Adapter(c)) \/ Terminated \/ UNCHANGED vars
      PROVE  UNCHANGED <<Content, Status, Asked, ret>>
  <2>1. base' = base /\ elists' = elists /\ req' = req /\ ret' = ret /\ pc' = pc
    BY <1>9 DEF Adapter, Execute, Terminated, vars, tree, call
  <2>2. Status' = Status
    BY <2>1 DEF Status
  <2>3. QED
    BY <2>1, <2>2, <1>2, <1>3
<1>10. \A c \in Client : ~ GoAstray(c) /\ ~ RehashUnset(c)
  BY NotAstray DEF RehashUnset
<1>11. QED
  BY <1>4, <1>5, <1>6, <1>7, <1>8, <1>9, <1>10 DEF Next, Step

\* Until something has gone wrong, only a client that uses a pointer read before it
\* had the lock, and changed since, can break the atomicity of the map: each step of
\* any number of clients is a step of the map, or leaves it alone, or is such a
\* client's, or is the first with which something goes wrong.
THEOREM MapUnlessStale == Spec => AtomicUnlessStale
<1>1. Inv /\ [Next]_vars =>
        [\/ mishap' # {}
         \/ \E c \in Client : Stale(c) /\ pc'[c] # pc[c]
         \/ Map!Next]_<<Content, Status, Asked, ret>>
  <2>1. [Next]_vars /\ mishap' = {} => mishap = {}
    BY MishapsStay
  <2>2. QED
    BY <2>1, MapStep DEF Inv
<1>2. QED
  BY <1>1, MapInit, Invariance, PTL DEF Spec, AtomicUnlessStale
=============================================================================
