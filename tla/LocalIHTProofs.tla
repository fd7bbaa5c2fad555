--------------------------- MODULE LocalIHTProofs ---------------------------
(***************************************************************************)
(* Theorems about LocalIHT, for any number of threads, keys and operations *)
(* and any sizes and depth of the tree.                                    *)
(*                                                                         *)
(* A bucket exists together with its whole P-List, and a P-List below the  *)
(* root exists together with a bucket that points at it.  So the buckets   *)
(* that rehash makes are new, and nobody can be at one of them.            *)
(***************************************************************************)
EXTENDS LocalIHT, TLAPS, SequenceTheorems, FiniteSetTheorems, WellFoundedInduction

Pair == [key : Key, val : Val]
Pointer == [kind : {"null", "elist", "plist"}, pairs : Seq(Pair)]

Types ==
    /\ lock \in [DOMAIN lock -> {"E_LOCKED", "E_UNLOCKED", "P_UNLOCKED"}]
    /\ base \in [DOMAIN lock -> Pointer]
    /\ pc \in [Thread -> {"idle", "acquire", "locked", "unlock", "calcify"}]
    /\ req \in [Thread -> Request]
    /\ path \in [Thread -> Seq(Nat)]
    /\ ret \in [Thread -> Val \cup {None}]
    /\ ops \in [Thread -> 0..MaxOps]

\* A P-List that exists with all its buckets.
Exists(p) == p \in Seq(Nat) /\ Depth(p) <= MaxDepth /\ Buckets(p) \subseteq DOMAIN lock
Below(b) == Append(b[1], b[2])

Lists ==
    /\ \A b \in DOMAIN lock : b \in Buckets(b[1]) /\ Exists(b[1])
    /\ Exists(<<>>) /\ \A t \in Thread : Exists(path[t])
    /\ \A b \in DOMAIN lock : base[b].kind = "plist" => Exists(Below(b))
    /\ \A c \in DOMAIN lock : c[1] # <<>> =>
         \E b \in DOMAIN lock : c[1] = Below(b) /\ base[b].kind = "plist"

\* What a thread that holds a lock finds, or leaves, behind it.
Holds(t) == pc[t] \in {"locked", "unlock", "calcify"}
Held == \A t \in Thread :
    /\ pc[t] \in {"locked", "unlock"} => base[At(t)].kind # "plist"
    /\ pc[t] = "calcify" => base[At(t)].kind = "plist"

\* No key is in a bucket twice, at least until the first rehash.
Unique(pairs) == \A i, j \in 1..Len(pairs) : pairs[i].key = pairs[j].key => i = j
KeysUnique == ~ Grown => \A b \in DOMAIN lock : Unique(base[b].pairs)

IInv == Types /\ Lists /\ Held /\ LockTellsType /\ OneInside /\ EListFits /\ KeysUnique

-----------------------------------------------------------------------------
LEMMA Constants ==
    /\ ELIST_SIZE \in Nat \ {0} /\ PLIST_SIZE \in Nat \ {0} /\ MaxDepth \in Nat \ {0}
    /\ MaxOps \in Nat /\ Key # {} /\ None \notin Val
    /\ Hash \in [Key -> [2 .. MaxDepth + 1 -> Nat]]
  BY LocalIHTAssumption DEF LocalIHTAssumption

LEMMA RequestFields ==
    ASSUME NEW r \in Request
    PROVE  /\ r.key \in Key /\ r.op \in {"insert", "get", "remove"}
           /\ r.op = "insert" => r.val \in Val
  BY DEF Request

LEMMA PointerFields ==
    ASSUME NEW x \in Pointer
    PROVE  x.kind \in {"null", "elist", "plist"} /\ x.pairs \in Seq(Pair) /\ Len(x.pairs) \in Nat
  BY DEF Pointer

\* A P-List within the depth has buckets, and every key has one of them.
LEMMA BucketType ==
    ASSUME NEW p \in Seq(Nat), Depth(p) <= MaxDepth, NEW k \in Key
    PROVE  /\ BucketOf(k, p) \in Buckets(p) /\ BucketOf(k, p)[1] = p
           /\ BucketOf(k, p)[2] \in Nat /\ BucketOf(k, p) = <<p, BucketOf(k, p)[2]>>
<1>1. Len(p) \in Nat /\ MaxDepth \in Nat /\ PLIST_SIZE \in Nat \ {0}
  BY Constants
<1>2. Len(p) \in 0..MaxDepth /\ Depth(p) + 1 \in 2 .. MaxDepth + 1
  BY <1>1 DEF Depth
<1>3. 2 ^ Len(p) \in Nat \ {0}
  BY <1>2, PowersOfTwo
<1>4. Count(p) \in Nat \ {0}
  <2>1. \A a, b \in Nat \ {0} : a * b \in Nat \ {0}
    OBVIOUS
  <2>2. QED
    BY <2>1, <1>1, <1>3 DEF Count
<1>5. Hash[k][Depth(p) + 1] \in Nat
  BY <1>2, Constants
<1> DEFINE i == level_hash(k, Depth(p) + 1, Count(p))
<1>6. i \in 0 .. Count(p) - 1 /\ i \in Nat
  <2>1. \A n \in Nat, m \in Nat \ {0} : n % m \in 0 .. m - 1 /\ n % m \in Nat
    OBVIOUS
  <2>2. QED
    BY <2>1, <1>4, <1>5 DEF level_hash
<1> HIDE DEF i
<1>7. BucketOf(k, p) = <<p, i>>
  BY DEF BucketOf, i
<1>8. QED
  BY <1>6, <1>7 DEF Buckets

LEMMA BelowUnique ==
    ASSUME NEW p \in Seq(Nat), NEW q \in Seq(Nat), NEW i \in Nat, NEW j \in Nat,
           Append(p, i) = Append(q, j)
    PROVE  p = q /\ i = j
<1>1. Append(p, i) \in Seq(Nat) /\ Len(Append(p, i)) = Len(p) + 1 /\ Len(p) \in Nat
      /\ Len(Append(q, j)) = Len(q) + 1 /\ Len(q) \in Nat
  OBVIOUS
<1>2. Len(p) = Len(q)
  BY <1>1
<1>3. i = j
  BY <1>2
<1>4. \A n \in 1..Len(p) : p[n] = q[n]
  <2>1. \A n \in 1..Len(p) : Append(p, i)[n] = p[n]
    BY SMTT(30)
  <2>2. \A n \in 1..Len(q) : Append(q, j)[n] = q[n]
    BY SMTT(30)
  <2>3. QED
    BY <2>1, <2>2, <1>2
<1>5. p = q
  BY <1>2, <1>4, SeqEqual
<1>6. QED
  BY <1>3, <1>5

\* Where the buckets and the threads are.
LEMMA Places ==
    ASSUME Types, Lists
    PROVE  /\ \A b \in DOMAIN lock : b[1] \in Seq(Nat) /\ b[2] \in Nat /\ b = <<b[1], b[2]>>
           /\ \A t \in Thread : At(t) \in DOMAIN lock /\ At(t)[1] = path[t] /\ At(t)[2] \in Nat
                                /\ path[t] \in Seq(Nat) /\ Depth(path[t]) <= MaxDepth
                                /\ base[At(t)] \in Pointer
           /\ \A k \in Key : BucketOf(k, <<>>) \in DOMAIN lock
<1>1. \A b \in DOMAIN lock : b[1] \in Seq(Nat) /\ b[2] \in Nat /\ b = <<b[1], b[2]>>
  <2> SUFFICES ASSUME NEW b \in DOMAIN lock
               PROVE  b[1] \in Seq(Nat) /\ b[2] \in Nat /\ b = <<b[1], b[2]>>
    OBVIOUS
  <2>1. b \in Buckets(b[1]) /\ b[1] \in Seq(Nat)
    BY DEF Lists, Exists
  <2>2. PICK i \in 0 .. Count(b[1]) - 1 : b = <<b[1], i>>
    BY <2>1 DEF Buckets
  <2>3. i \in Nat
    OBVIOUS
  <2>4. QED
    BY <2>1, <2>2, <2>3
<1>2. ASSUME NEW t \in Thread
      PROVE  At(t) \in DOMAIN lock /\ At(t)[1] = path[t] /\ At(t)[2] \in Nat
             /\ path[t] \in Seq(Nat) /\ Depth(path[t]) <= MaxDepth /\ base[At(t)] \in Pointer
  <2>1. req[t].key \in Key
    BY RequestFields DEF Types
  <2>2. path[t] \in Seq(Nat) /\ Depth(path[t]) <= MaxDepth /\ Buckets(path[t]) \subseteq DOMAIN lock
    BY DEF Lists, Exists
  <2>3. At(t) \in DOMAIN lock /\ At(t)[1] = path[t] /\ At(t)[2] \in Nat
    BY <2>1, <2>2, BucketType DEF At
  <2>4. QED
    BY <2>2, <2>3 DEF Types
<1>3. \A k \in Key : BucketOf(k, <<>>) \in DOMAIN lock
  BY BucketType DEF Lists, Exists
<1>4. QED
  BY <1>1, <1>2, <1>3

\* OneInside, without the set.
OneHolder ==
    \A b \in DOMAIN lock :
        /\ lock[b] = "E_LOCKED" <=> \E t \in Thread : Holds(t) /\ At(t) = b
        /\ \A t, u \in Thread : Holds(t) /\ Holds(u) /\ At(t) = b /\ At(u) = b => t = u

LEMMA InsideIsHolder == OneInside <=> OneHolder
  BY DEF OneInside, OneHolder, Inside, Holds

LEMMA InsideIsHolderNext == OneInside' <=> OneHolder'
  BY DEF OneInside, OneHolder, Inside, Holds

LEMMA InitInv == Init => IInv
<1> SUFFICES ASSUME Init
             PROVE  IInv
  OBVIOUS
<1>1. <<>> \in Seq(Nat) /\ Depth(<<>>) <= MaxDepth
  BY Constants DEF Depth
<1>2. DOMAIN lock = Buckets(<<>>) /\ DOMAIN base = Buckets(<<>>)
      /\ \A b \in Buckets(<<>>) : lock[b] = "E_UNLOCKED" /\ base[b] = Null
  BY DEF Init
<1>3. Null \in Pointer /\ Null.kind = "null" /\ Null.pairs = <<>>
  <2>1. <<>> \in Seq(Pair)
    OBVIOUS
  <2>2. QED
    BY <2>1 DEF Null, Pointer
<1>4. Types
  <2>1. (CHOOSE r \in Request : TRUE) \in Request
    <3>1. PICK k \in Key : TRUE
      BY Constants
    <3>2. [op |-> "get", key |-> k, val |-> None] \in Request
      BY <3>1 DEF Request
    <3>3. QED
      BY <3>2
  <2>2. 0 \in 0..MaxOps
    BY Constants
  <2>3. lock \in [DOMAIN lock -> {"E_LOCKED", "E_UNLOCKED", "P_UNLOCKED"}]
        /\ base \in [DOMAIN lock -> Pointer]
    BY <1>2, <1>3 DEF Init
  <2>4. pc \in [Thread -> {"idle", "acquire", "locked", "unlock", "calcify"}]
        /\ req \in [Thread -> Request] /\ path \in [Thread -> Seq(Nat)]
        /\ ret \in [Thread -> Val \cup {None}] /\ ops \in [Thread -> 0..MaxOps]
    BY <2>1, <2>2, <1>1 DEF Init
  <2>5. QED
    BY <2>3, <2>4 DEF Types
<1>5. Lists
  <2>1. Exists(<<>>)
    BY <1>1, <1>2 DEF Exists
  <2>2. \A b \in DOMAIN lock : b[1] = <<>>
    BY <1>2 DEF Buckets
  <2>3. \A t \in Thread : path[t] = <<>>
    BY DEF Init
  <2>4. \A b \in DOMAIN lock : b \in Buckets(b[1])
    BY <1>2, <2>2
  <2>5. \A b \in DOMAIN lock : base[b].kind # "plist"
    BY <1>2, <1>3
  <2>6. QED
    BY <2>1, <2>2, <2>3, <2>4, <2>5 DEF Lists
<1>6. \A t \in Thread : pc[t] = "idle"
  BY DEF Init
<1>7. Held /\ LockTellsType /\ EListFits /\ OneInside
  <2>1. Held
    BY <1>6 DEF Held
  <2>2. LockTellsType
    BY <1>2, <1>3 DEF LockTellsType
  <2>3. EListFits
    BY <1>2, <1>3, Constants DEF EListFits
  <2>4. OneInside
    BY <1>2, <1>6 DEF OneInside, Inside
  <2>5. QED
    BY <2>1, <2>2, <2>3, <2>4
<1>8. KeysUnique
  BY <1>2, <1>3 DEF KeysUnique, Unique
<1>9. QED
  BY <1>4, <1>5, <1>7, <1>8 DEF IInv

-----------------------------------------------------------------------------
(* Steps that leave the tree as it is.                                      *)

LEMMA ListsKept ==
    ASSUME Types, Lists, DOMAIN lock' = DOMAIN lock,
           \A t \in Thread : path'[t] = path[t],
           \A b \in DOMAIN lock : base'[b].kind = "plist" <=> base[b].kind = "plist"
    PROVE  Lists'
<1>1. \A p : Exists(p)' <=> Exists(p)
  BY DEF Exists
<1>2. \A b : Below(b)' = Below(b)
  BY DEF Below
<1>3. QED
  BY <1>1, <1>2 DEF Lists

\* A thread takes a lock, or gives one back.
LEMMA LockInv ==
    ASSUME IInv, NEW t \in Thread, Acquire(t) \/ Unlock(t) \/ Calcify(t)
    PROVE  IInv'
<1>1. Types /\ Lists /\ Held /\ LockTellsType /\ OneHolder /\ EListFits /\ KeysUnique
  BY InsideIsHolder DEF IInv
<1>2. PICK b \in DOMAIN lock, v \in {"E_LOCKED", "E_UNLOCKED", "P_UNLOCKED"},
           l \in {"idle", "acquire", "locked"} :
        /\ b = At(t) /\ lock' = [lock EXCEPT ![b] = v] /\ pc' = [pc EXCEPT ![t] = l]
        /\ \/ pc[t] = "acquire" /\ lock[b] = "E_UNLOCKED" /\ v = "E_LOCKED" /\ l = "locked"
           \/ pc[t] = "unlock" /\ v = "E_UNLOCKED" /\ l = "idle"
           \/ pc[t] = "calcify" /\ v = "P_UNLOCKED" /\ l = "acquire"
  <2>1. At(t) \in DOMAIN lock
    BY <1>1, Places
  <2>2. CASE Acquire(t)
    BY <2>1, <2>2 DEF Acquire, Go
  <2>3. CASE Unlock(t)
    BY <2>1, <2>3 DEF Unlock, Go
  <2>4. CASE Calcify(t)
    BY <2>1, <2>4 DEF Calcify, Go
  <2>5. QED
    BY <2>2, <2>3, <2>4
<1>3. UNCHANGED <<base, req, path, ret, ops>>
  BY DEF Acquire, Unlock, Calcify
<1>4. pc'[t] = l /\ (\A u \in Thread \ {t} : pc'[u] = pc[u])
      /\ DOMAIN lock' = DOMAIN lock /\ lock'[b] = v
      /\ \A c \in DOMAIN lock \ {b} : lock'[c] = lock[c]
  BY <1>1, <1>2 DEF Types
<1>5. Types'
  BY <1>1, <1>2, <1>3 DEF Types
<1>6. Lists'
  BY <1>1, <1>3, <1>4, ListsKept
<1>7. \A u : At(u)' = At(u)
  BY <1>3 DEF At, BucketOf
<1>8. pc[t] = "unlock" \/ pc[t] = "acquire" => base[b].kind # "plist"
  BY <1>1, <1>2 DEF Held, LockTellsType
<1>9. Held'
  BY <1>1, <1>2, <1>3, <1>4, <1>7, <1>8 DEF Held
<1>10. LockTellsType'
  <2>1. v = "P_UNLOCKED" => base[b].kind = "plist"
    BY <1>1, <1>2 DEF Held
  <2>2. v = "E_UNLOCKED" => base[b].kind # "plist"
    BY <1>2, <1>8
  <2>3. QED
    BY <2>1, <2>2, <1>1, <1>3, <1>4 DEF LockTellsType
<1>11. OneHolder'
  <2>1. \A u \in Thread \ {t} : Holds(u)' <=> Holds(u)
    BY <1>4 DEF Holds
  <2>2. Holds(t)' <=> v = "E_LOCKED"
    BY <1>2, <1>4 DEF Holds
  <2>3. \A u \in Thread \ {t} : Holds(u) => At(u) # b
    BY <1>1, <1>2 DEF OneHolder, Holds
  <2>4. QED
    BY <2>1, <2>2, <2>3, <1>1, <1>2, <1>4, <1>7 DEF OneHolder
<1>12. EListFits' /\ KeysUnique'
  BY <1>1, <1>3, <1>4 DEF EListFits, KeysUnique, Grown, Unique
<1>13. QED
  BY <1>5, <1>6, <1>9, <1>10, <1>11, <1>12, InsideIsHolderNext DEF IInv

\* A thread calls, or goes down; nobody is at a bucket because of that.
LEMMA MoveInv ==
    ASSUME IInv, NEW t \in Thread, Descend(t) \/ \E r \in Request : Call(t, r)
    PROVE  IInv'
<1>1. Types /\ Lists /\ Held /\ LockTellsType /\ OneHolder /\ EListFits /\ KeysUnique
  BY InsideIsHolder DEF IInv
<1>2. PICK p : path' = [path EXCEPT ![t] = p] /\ Exists(p)
  <2>1. CASE Descend(t)
    <3>1. At(t) \in DOMAIN lock /\ At(t)[1] = path[t]
      BY <1>1, Places
    <3>2. base[At(t)].kind = "plist"
      BY <2>1, <3>1, <1>1 DEF Descend, LockTellsType
    <3>3. Exists(Below(At(t)))
      BY <3>1, <3>2, <1>1 DEF Lists
    <3>4. path' = [path EXCEPT ![t] = Below(At(t))]
      BY <2>1, <3>1 DEF Descend, Below
    <3>5. QED
      BY <3>3, <3>4
  <2>2. CASE \E r \in Request : Call(t, r)
    BY <2>2, <1>1 DEF Call, Lists
  <2>3. QED
    BY <2>1, <2>2
<1>3. UNCHANGED <<lock, base, ret>>
  BY DEF Descend, Call
<1>4. /\ \A u \in Thread \ {t} : pc'[u] = pc[u] /\ req'[u] = req[u] /\ path'[u] = path[u]
      /\ path'[t] = p /\ pc[t] \in {"idle", "acquire"} /\ pc'[t] = "acquire"
      /\ req' \in [Thread -> Request] /\ ops' \in [Thread -> 0..MaxOps]
      /\ pc' \in [Thread -> {"idle", "acquire", "locked", "unlock", "calcify"}]
  <2>1. path'[t] = p /\ \A u \in Thread \ {t} : path'[u] = path[u]
    BY <1>1, <1>2 DEF Types
  <2>2. CASE Descend(t)
    BY <2>1, <2>2, <1>1 DEF Descend, Types
  <2>3. ASSUME NEW r \in Request, Call(t, r)
        PROVE  /\ \A u \in Thread \ {t} : pc'[u] = pc[u] /\ req'[u] = req[u]
               /\ pc[t] = "idle" /\ pc'[t] = "acquire" /\ req' \in [Thread -> Request]
               /\ ops' \in [Thread -> 0..MaxOps]
               /\ pc' \in [Thread -> {"idle", "acquire", "locked", "unlock", "calcify"}]
    <3>1. ops' \in [Thread -> 0..MaxOps]
      <4>1. ops \in [Thread -> 0..MaxOps] /\ ops[t] < MaxOps
            /\ ops' = [ops EXCEPT ![t] = ops[t] + 1]
        BY <2>3, <1>1 DEF Call, Types
      <4>2. ops[t] + 1 \in 0..MaxOps
        BY <4>1, Constants
      <4>3. QED
        BY <4>1, <4>2
    <3>2. QED
      BY <3>1, <2>3, <1>1 DEF Call, Go, Types
  <2>4. QED
    BY <2>1, <2>2, <2>3
<1>5. Types'
  <2>1. path' \in [Thread -> Seq(Nat)]
    BY <1>1, <1>2 DEF Types, Exists
  <2>2. QED
    BY <2>1, <1>1, <1>3, <1>4 DEF Types
<1>6. Lists'
  <2>1. \A q : Exists(q)' <=> Exists(q)
    BY <1>3 DEF Exists
  <2>2. \A u \in Thread : Exists(path'[u])
    BY <1>1, <1>2, <1>4 DEF Lists
  <2>3. \A u \in Thread : Exists(path[u])'
    BY <2>2, <1>3 DEF Exists
  <2>4. Exists(<<>>)'
    BY <2>1, <1>1 DEF Lists
  <2>5. (\A b \in DOMAIN lock : b \in Buckets(b[1]) /\ Exists(b[1]))'
    BY <2>1, <1>1, <1>3 DEF Lists
  <2>6. (\A b \in DOMAIN lock : base[b].kind = "plist" => Exists(Below(b)))'
    BY <2>1, <1>1, <1>3 DEF Lists, Below
  <2>7. (\A c \in DOMAIN lock : c[1] # <<>> =>
           \E b \in DOMAIN lock : c[1] = Below(b) /\ base[b].kind = "plist")'
    BY <1>1, <1>3 DEF Lists, Below
  <2>8. QED
    BY <2>3, <2>4, <2>5, <2>6, <2>7 DEF Lists
<1>7. \A u \in Thread \ {t} : At(u)' = At(u) /\ (Holds(u)' <=> Holds(u))
  BY <1>4 DEF At, BucketOf, Holds
<1>8. ~ Holds(t) /\ ~ Holds(t)'
  BY <1>4 DEF Holds
<1>9. Held'
  BY <1>1, <1>3, <1>4, <1>7 DEF Held
<1>10. LockTellsType' /\ EListFits' /\ KeysUnique'
  BY <1>1, <1>3 DEF LockTellsType, EListFits, KeysUnique, Grown, Unique
<1>11. OneHolder'
  BY <1>1, <1>3, <1>7, <1>8 DEF OneHolder
<1>12. QED
  BY <1>5, <1>6, <1>9, <1>10, <1>11, InsideIsHolderNext DEF IInv

-----------------------------------------------------------------------------
(* E-Lists.                                                                 *)

LEMMA LeastOne == ASSUME NEW S \in SUBSET Nat, S # {}
                  PROVE  \E m \in S : \A o \in S : m <= o
<1>1. PICK m \in S : \A o \in S : ~ (<<o, m>> \in OpToRel(<, Nat))
  BY WFMin, NatLessThanWellFounded
<1>2. \A o \in S : ~ (o < m)
  BY <1>1, Zenon DEF OpToRel
<1>3. \A o \in S : m <= o
  BY <1>2
<1>4. QED
  BY <1>3

\* The search finds a key that is there.
LEMMA PositionIs ==
    ASSUME NEW pairs \in Seq(Pair), NEW k
    PROVE  /\ Position(pairs, k) \in Nat
           /\ Position(pairs, k) # 0 => /\ Position(pairs, k) \in 1..Len(pairs)
                                        /\ pairs[Position(pairs, k)].key = k
           /\ Position(pairs, k) = 0 => \A i \in 1..Len(pairs) : pairs[i].key # k
<1> DEFINE S == {i \in 1..Len(pairs) : pairs[i].key = k}
<1>1. Len(pairs) \in Nat /\ S \subseteq Nat
  OBVIOUS
<1>2. CASE S = {}
  <2>1. \A i \in 1..Len(pairs) : pairs[i].key # k
    BY <1>2
  <2>2. Position(pairs, k) = 0
    BY <2>1 DEF Position
  <2>3. QED
    BY <2>1, <2>2
<1>3. CASE S # {}
  <2>1. PICK m \in S : \A o \in S : m <= o
    BY <1>1, <1>3, LeastOne
  <2>2. m \in 1..Len(pairs) /\ pairs[m].key = k /\ \A j \in 1 .. m - 1 : pairs[j].key # k
    <3>1. ASSUME NEW j \in 1 .. m - 1, pairs[j].key = k
          PROVE  FALSE
      <4>1. j \in S
        BY <3>1, <1>1
      <4>2. m <= j
        BY <4>1, <2>1
      <4>3. QED
        BY <4>2, <1>1
    <3>2. QED
      BY <3>1
  <2> DEFINE n == CHOOSE i \in 1..Len(pairs) :
                     pairs[i].key = k /\ \A j \in 1 .. i - 1 : pairs[j].key # k
  <2>3. n \in 1..Len(pairs) /\ pairs[n].key = k
    BY <2>2
  <2>4. Position(pairs, k) = n
    BY <2>2 DEF Position
  <2> HIDE DEF n
  <2>5. n \in Nat /\ n # 0
    BY <2>3
  <2>6. QED
    BY <2>3, <2>4, <2>5
<1>4. QED
  BY <1>2, <1>3

LEMMA LookupIs ==
    ASSUME NEW pairs \in Seq(Pair), NEW k
    PROVE  /\ Lookup(pairs, k) \in Val \cup {None}
           /\ Lookup(pairs, k) = None <=> Position(pairs, k) = 0
           /\ Lookup(pairs, k) = None <=> \A i \in 1..Len(pairs) : pairs[i].key # k
           /\ Unique(pairs) => \A i \in 1..Len(pairs) :
                                 pairs[i].key = k => Lookup(pairs, k) = pairs[i].val
<1> DEFINE i0 == Position(pairs, k)
<1>1. /\ i0 \in Nat /\ (i0 # 0 => i0 \in 1..Len(pairs) /\ pairs[i0].key = k)
      /\ i0 = 0 => \A i \in 1..Len(pairs) : pairs[i].key # k
  BY PositionIs
<1>2. Lookup(pairs, k) = IF i0 = 0 THEN None ELSE pairs[i0].val
  BY DEF Lookup
<1> HIDE DEF i0
<1>3. \A i \in 1..Len(pairs) : pairs[i] \in Pair
  OBVIOUS
<1>4. i0 # 0 => pairs[i0].val \in Val
  BY <1>1, <1>3 DEF Pair
<1>5. Lookup(pairs, k) = None <=> i0 = 0
  BY <1>2, <1>4, Constants
<1>6. Unique(pairs) => \A i \in 1..Len(pairs) : pairs[i].key = k => Lookup(pairs, k) = pairs[i].val
  BY <1>1, <1>2 DEF Unique
<1>7. QED
  BY <1>1, <1>2, <1>4, <1>5, <1>6 DEF i0

\* What Without leaves.
LEMMA WithoutIs ==
    ASSUME NEW pairs \in Seq(Pair), NEW i \in 1..Len(pairs)
    PROVE  /\ Without(pairs, i) \in Seq(Pair) /\ Len(Without(pairs, i)) = Len(pairs) - 1
           /\ \A j \in 1 .. Len(pairs) - 1 :
                Without(pairs, i)[j] = IF j = i THEN pairs[Len(pairs)] ELSE pairs[j]
<1> DEFINE n == Len(pairs)
           s == [pairs EXCEPT ![i] = pairs[n]]
<1>1. n \in Nat /\ i \in 1..n /\ n \in 1..n
  OBVIOUS
<1>2. \A j \in 1..n : pairs[j] \in Pair
  OBVIOUS
<1>3. pairs[n] \in Pair
  BY <1>1, <1>2
<1>4. s \in Seq(Pair) /\ Len(s) = n
      /\ \A j \in 1..n : s[j] = IF j = i THEN pairs[n] ELSE pairs[j]
  BY <1>1, <1>3, ExceptSeq
<1> HIDE DEF s
<1>5. \A j \in 1 .. n - 1 : s[j] \in Pair
  BY <1>1, <1>2, <1>3, <1>4
<1> HIDE DEF n
<1>6. 1 \in Int /\ n - 1 \in Int
  BY <1>1
<1>7. /\ SubSeq(s, 1, n - 1) \in Seq(Pair)
      /\ Len(SubSeq(s, 1, n - 1)) = IF 1 <= n - 1 THEN (n - 1) - 1 + 1 ELSE 0
      /\ \A j \in 1 .. (n - 1) - 1 + 1 : SubSeq(s, 1, n - 1)[j] = s[1 + j - 1]
  BY <1>5, <1>6, SubSeqProperties
<1>8. Len(SubSeq(s, 1, n - 1)) = n - 1
  BY <1>1, <1>7
<1>9. \A j \in 1 .. n - 1 : SubSeq(s, 1, n - 1)[j] = s[j]
  <2> SUFFICES ASSUME NEW j \in 1 .. n - 1
               PROVE  SubSeq(s, 1, n - 1)[j] = s[j]
    OBVIOUS
  <2>1. j \in 1 .. (n - 1) - 1 + 1 /\ 1 + j - 1 = j
    BY <1>1
  <2>2. QED
    BY <2>1, <1>7
<1>10. \A j \in 1 .. n - 1 : j \in 1..n
  BY <1>1
<1>11. Without(pairs, i) = SubSeq(s, 1, n - 1)
  BY DEF Without, s, n
<1>12. QED
  BY <1>4, <1>7, <1>8, <1>9, <1>10, <1>11 DEF n

\* The elements that are picked out are elements, and not more than there were.
LEMMA InOrderType ==
    ASSUME NEW S, NEW s \in Seq(S), NEW I \in SUBSET (1..Len(s))
    PROVE  /\ InOrder(s, I) \in Seq(S) /\ Len(InOrder(s, I)) <= Len(s)
           /\ Len(InOrder(s, I)) \in Nat
<1> DEFINE m == Len(s)
           R(j) == {i \in I : i <= j}
<1>1. m \in Nat /\ \A i \in I : i \in Nat /\ 1 <= i /\ i <= m /\ ~ (i <= 0)
  <2>1. m \in Nat /\ \A i \in 1..m : i \in Nat /\ 1 <= i /\ i <= m /\ ~ (i <= 0)
    OBVIOUS
  <2>2. QED
    BY <2>1
<1>2. IsFiniteSet(I) /\ Cardinality(I) \in Nat /\ Cardinality(I) <= m
  <2>1. 1 \in Int /\ m \in Int
    BY <1>1
  <2>2. IsFiniteSet(1..m) /\ Cardinality(1..m) = IF 1 > m THEN 0 ELSE m - 1 + 1
    BY <2>1, FS_Interval
  <2>3. Cardinality(1..m) = m
    BY <2>2, <1>1
  <2>4. IsFiniteSet(I) /\ Cardinality(I) <= Cardinality(1..m)
    BY <2>2, FS_Subset
  <2>5. QED
    BY <2>3, <2>4, FS_CardinalityType
<1>3. \A j : IsFiniteSet(R(j)) /\ Cardinality(R(j)) \in Nat
  <2> SUFFICES ASSUME NEW j
               PROVE  IsFiniteSet(R(j)) /\ Cardinality(R(j)) \in Nat
    OBVIOUS
  <2>1. R(j) \in SUBSET I
    OBVIOUS
  <2> HIDE DEF R
  <2>2. IsFiniteSet(R(j))
    BY <2>1, <1>2, FS_Subset
  <2>3. QED
    BY <2>2, FS_CardinalityType
<1>4. ASSUME NEW n \in 1..Cardinality(I)
      PROVE  \E j \in I : Cardinality(R(j)) = n
  <2> DEFINE T == {j \in Nat : n <= Cardinality(R(j))}
  <2>1. R(m) = I
    BY <1>1
  <2>2. n \in Nat /\ 1 <= n /\ n <= Cardinality(I)
    BY <1>2
  <2>3. m \in T
    BY <2>1, <2>2, <1>1
  <2>4. PICK j \in T : \A o \in T : j <= o
    <3>1. T \in SUBSET Nat /\ T # {}
      BY <2>3
    <3> HIDE DEF T
    <3>2. QED
      BY <3>1, LeastOne
  <2>5. j \in Nat /\ n <= Cardinality(R(j))
    OBVIOUS
  <2>6. j # 0
    <3>1. R(0) = {}
      BY <1>1
    <3>2. Cardinality(R(0)) = 0
      BY <3>1, FS_EmptySet
    <3> HIDE DEF R, T
    <3>3. QED
      BY <3>2, <2>2, <2>5
  <2>7. j - 1 \in Nat /\ ~ (j - 1 \in T)
    <3>1. j - 1 \in Nat /\ ~ (j <= j - 1)
      BY <2>5, <2>6
    <3> HIDE DEF R, T
    <3>2. QED
      BY <3>1, <2>4
  <2>8. Cardinality(R(j - 1)) < n
    <3>1. Cardinality(R(j - 1)) \in Nat
      BY <1>3
    <3>2. ~ (n <= Cardinality(R(j - 1)))
      BY <2>7
    <3> HIDE DEF R
    <3>3. QED
      BY <3>1, <3>2, <2>2
  <2>9. \A i \in I : i <= j <=> (i <= j - 1 \/ i = j)
    BY <2>5
  <2>10. CASE j \notin I
    <3>1. R(j) = R(j - 1)
      BY <2>9, <2>10
    <3> HIDE DEF R
    <3>2. QED
      BY <3>1, <2>2, <2>5, <2>8, <1>3
  <2>11. CASE j \in I
    <3>1. R(j) = R(j - 1) \cup {j}
      BY <2>9, <2>11
    <3>2. j \notin R(j - 1)
      BY <2>5
    <3> HIDE DEF R
    <3>3. Cardinality(R(j)) = Cardinality(R(j - 1)) + 1
      BY <3>1, <3>2, <1>3, FS_AddElement
    <3>4. Cardinality(R(j)) = n
      BY <3>3, <2>2, <2>5, <2>8, <1>3
    <3>5. QED
      BY <3>4, <2>11
  <2>12. QED
    BY <2>10, <2>11
<1>5. \A n \in 1..Cardinality(I) : s[CHOOSE j \in I : Cardinality(R(j)) = n] \in S
  <2> SUFFICES ASSUME NEW n \in 1..Cardinality(I)
               PROVE  s[CHOOSE j \in I : Cardinality(R(j)) = n] \in S
    OBVIOUS
  <2>1. (CHOOSE j \in I : Cardinality(R(j)) = n) \in I
    BY <1>4
  <2>2. \A j \in I : s[j] \in S
    OBVIOUS
  <2>3. QED
    BY <2>1, <2>2
<1>6. InOrder(s, I) = [n \in 1..Cardinality(I) |-> s[CHOOSE j \in I : Cardinality(R(j)) = n]]
  BY DEF InOrder
<1> DEFINE f == [n \in 1..Cardinality(I) |-> s[CHOOSE j \in I : Cardinality(R(j)) = n]]
<1>7. f \in [1..Cardinality(I) -> S]
  BY <1>5
<1> HIDE DEF f
<1>8. f \in Seq(S) /\ Len(f) = Cardinality(I)
  BY <1>2, <1>7, LenProperties, IsASeq
<1>9. QED
  BY <1>2, <1>6, <1>8 DEF f

-----------------------------------------------------------------------------
(* Steps under the lock of a bucket.                                        *)

\* A thread changes what its bucket points at, and is ready to unlock.
LEMMA ChangeInv ==
    ASSUME IInv, NEW t \in Thread, pc[t] = "locked", NEW x \in Pointer, x.kind # "plist",
           Len(x.pairs) <= ELIST_SIZE, Unique(base[At(t)].pairs) => Unique(x.pairs),
           base' = [base EXCEPT ![At(t)] = x], pc' = [pc EXCEPT ![t] = "unlock"],
           ret' \in [Thread -> Val \cup {None}], UNCHANGED <<lock, req, path, ops>>
    PROVE  IInv' /\ (Grown' <=> Grown)
<1>1. Types /\ Lists /\ Held /\ LockTellsType /\ OneHolder /\ EListFits /\ KeysUnique
  BY InsideIsHolder DEF IInv
<1>2. At(t) \in DOMAIN lock /\ base[At(t)] \in Pointer
  BY <1>1, Places
<1>3. pc'[t] = "unlock" /\ (\A u \in Thread \ {t} : pc'[u] = pc[u])
      /\ base'[At(t)] = x /\ (\A c \in DOMAIN lock \ {At(t)} : base'[c] = base[c])
      /\ DOMAIN base' = DOMAIN lock /\ DOMAIN base = DOMAIN lock
  BY <1>1, <1>2 DEF Types
<1>4. Types'
  BY <1>1 DEF Types
<1>5. base[At(t)].kind # "plist"
  BY <1>1 DEF Held
<1>6. \A b \in DOMAIN lock : base'[b].kind = "plist" <=> base[b].kind = "plist"
  BY <1>3, <1>5
<1>7. Lists'
  BY <1>1, <1>6, ListsKept
<1>8. \A u : At(u)' = At(u)
  BY DEF At, BucketOf
<1>9. \A u \in Thread : At(u) \in DOMAIN lock /\ (Holds(u)' <=> Holds(u))
  BY <1>1, <1>3, Places DEF Holds
<1>10. Held'
  <2>1. ASSUME NEW u \in Thread
        PROVE  /\ pc'[u] \in {"locked", "unlock"} => base'[At(u)].kind # "plist"
               /\ pc'[u] = "calcify" => base'[At(u)].kind = "plist"
    <3>1. base'[At(u)].kind = "plist" <=> base[At(u)].kind = "plist"
      BY <1>6, <1>9
    <3>2. CASE u = t
      BY <3>2, <1>3
    <3>3. CASE u # t
      BY <3>1, <3>3, <1>1, <1>3 DEF Held
    <3>4. QED
      BY <3>2, <3>3
  <2>2. QED
    BY <2>1, <1>8 DEF Held
<1>11. LockTellsType'
  BY <1>1, <1>6 DEF LockTellsType
<1>12. OneHolder'
  BY <1>1, <1>8, <1>9 DEF OneHolder
<1>13. EListFits'
  BY <1>1, <1>3 DEF EListFits
<1>14. Grown' <=> Grown
  BY <1>3, <1>6 DEF Grown
<1>15. KeysUnique'
  <2> SUFFICES ASSUME ~ Grown, NEW b \in DOMAIN lock
               PROVE  Unique(base'[b].pairs)
    BY <1>14 DEF KeysUnique, Unique
  <2>1. Unique(base[b].pairs)
    BY <1>1 DEF KeysUnique
  <2>2. CASE b = At(t)
    BY <2>1, <2>2, <1>3
  <2>3. CASE b # At(t)
    BY <2>1, <2>3, <1>3
  <2>4. QED
    BY <2>2, <2>3
<1>16. QED
  BY <1>4, <1>7, <1>10, <1>11, <1>12, <1>13, <1>14, <1>15, InsideIsHolderNext DEF IInv

\* What get, remove and insert make of the E-List of their bucket: pairs is what
\* they find there and x what they leave.
LEMMA Changes ==
    ASSUME IInv, NEW t \in Thread, Get(t) \/ Remove(t) \/ Insert(t)
    PROVE  \E x \in Pointer :
             /\ pc[t] = "locked" /\ pc' = [pc EXCEPT ![t] = "unlock"]
             /\ base' = [base EXCEPT ![At(t)] = x]
             /\ UNCHANGED <<lock, req, path, ops>>
             /\ ret' = [ret EXCEPT ![t] = Found(t)] /\ Found(t) \in Val \cup {None}
             /\ x.kind # "plist" /\ Len(x.pairs) <= ELIST_SIZE
             /\ Unique(base[At(t)].pairs) => Unique(x.pairs)
             /\ \A k \in Key :
                  Unique(base[At(t)].pairs) =>
                     Lookup(x.pairs, k) =
                        IF k # req[t].key THEN Lookup(base[At(t)].pairs, k)
                        ELSE IF req[t].op = "remove" THEN None
                        ELSE IF req[t].op = "insert" /\ Found(t) = None THEN req[t].val
                        ELSE Found(t)
<1>1. Types /\ Lists /\ Held /\ EListFits
  BY DEF IInv
<1>2. At(t) \in DOMAIN lock /\ base[At(t)] \in Pointer /\ DOMAIN base = DOMAIN lock
      /\ base = [base EXCEPT ![At(t)] = base[At(t)]]
  <2>1. At(t) \in DOMAIN lock /\ base[At(t)] \in Pointer /\ base \in [DOMAIN lock -> Pointer]
    BY <1>1, Places DEF Types
  <2>2. QED
    BY <2>1
<1> DEFINE y == base[At(t)]  s == y.pairs  r == req[t]
<1>3. y.kind \in {"null", "elist"} /\ s \in Seq(Pair) /\ Len(s) \in Nat /\ Len(s) <= ELIST_SIZE
      /\ pc[t] = "locked" /\ y \in Pointer
  <2>1. pc[t] = "locked"
    BY DEF Get, Remove, Insert
  <2>2. QED
    BY <2>1, <1>1, <1>2, PointerFields DEF Held, EListFits
<1>4. r.key \in Key /\ r.op \in {"insert", "get", "remove"} /\ (r.op = "insert" => r.val \in Val)
  BY <1>1, RequestFields DEF Types
<1>5. Found(t) = Lookup(s, r.key) /\ Found(t) \in Val \cup {None}
  BY <1>3, LookupIs DEF Found
<1>6. pc' = [pc EXCEPT ![t] = "unlock"] /\ UNCHANGED <<lock, req, path, ops>>
      /\ ret' = [ret EXCEPT ![t] = Found(t)]
  BY DEF Get, Remove, Insert, Go, Result
\* Nothing is changed: get, a remove that misses and an insert that finds its key.
<1>7. CASE base' = base /\ ~ (r.op = "insert" /\ Found(t) = None)
                        /\ ~ (r.op = "remove" /\ Found(t) # None)
  <2>1. \A k \in Key : Lookup(s, k) =
                        IF k # r.key THEN Lookup(s, k)
                        ELSE IF r.op = "remove" THEN None
                        ELSE IF r.op = "insert" /\ Found(t) = None THEN r.val
                        ELSE Found(t)
    BY <1>5, <1>7
  <2>2. QED
    BY <2>1, <1>2, <1>3, <1>5, <1>6, <1>7
\* A remove that finds its key.
<1>8. CASE r.op = "remove" /\ Found(t) # None /\ Remove(t)
  <2> DEFINE i == Position(s, r.key)  w == Without(s, i)  x == [y EXCEPT !.pairs = w]
  <2>1. i \in 1..Len(s) /\ s[i].key = r.key /\ i # 0
    BY <1>3, <1>5, <1>8, LookupIs, PositionIs
  <2>2. base' = [base EXCEPT ![At(t)] = x]
    <3>1. base' = [base EXCEPT ![At(t)].pairs = w]
      BY <1>8, <2>1 DEF Remove
    <3>2. QED
      BY <3>1, <1>2
  <2>3. w \in Seq(Pair) /\ Len(w) = Len(s) - 1
        /\ \A j \in 1 .. Len(s) - 1 : w[j] = IF j = i THEN s[Len(s)] ELSE s[j]
    BY <1>3, <2>1, WithoutIs
  <2> HIDE DEF w
  <2>4. x \in Pointer /\ x.kind = y.kind /\ x.pairs = w
    BY <1>3, <2>3 DEF Pointer
  <2> HIDE DEF x, i
  <2>5. Len(w) \in Nat /\ Len(w) <= ELIST_SIZE
    BY <1>3, <2>1, <2>3, Constants
  <2> DEFINE From(j) == IF j = i THEN Len(s) ELSE j
  <2>6. \A j \in 1..Len(w) : From(j) \in 1..Len(s) /\ From(j) # i /\ w[j] = s[From(j)]
    BY <1>3, <2>1, <2>3
  <2>7. \A j, l \in 1..Len(w) : From(j) = From(l) => j = l
    BY <1>3, <2>1, <2>3
  <2>8. \A n \in 1..Len(s) : n # i => \E j \in 1..Len(w) : From(j) = n
    <3> SUFFICES ASSUME NEW n \in 1..Len(s), n # i
                 PROVE  \E j \in 1..Len(w) : From(j) = n
      OBVIOUS
    <3>1. CASE n = Len(s)
      <4>1. i \in 1..Len(w)
        BY <3>1, <1>3, <2>1, <2>3
      <4>2. QED
        BY <4>1, <3>1
    <3>2. CASE n # Len(s)
      <4>1. n \in 1..Len(w)
        BY <3>2, <1>3, <2>3
      <4>2. QED
        BY <4>1
    <3>3. QED
      BY <3>1, <3>2
  <2> HIDE DEF From
  <2>9. Unique(s) => Unique(w)
    BY <2>6, <2>7, SMTT(30) DEF Unique
  <2>10. ASSUME NEW k \in Key, Unique(s)
         PROVE  Lookup(w, k) = IF k # r.key THEN Lookup(s, k) ELSE None
    <3>1. CASE k = r.key
      <4>1. \A j \in 1..Len(w) : w[j].key # k
        BY <3>1, <2>1, <2>6, <2>10 DEF Unique
      <4>2. QED
        BY <4>1, <3>1, <2>3, LookupIs
    <3>2. CASE k # r.key /\ \E n \in 1..Len(s) : s[n].key = k
      <4>1. PICK n \in 1..Len(s) : s[n].key = k
        BY <3>2
      <4>2. PICK j \in 1..Len(w) : w[j] = s[n]
        BY <4>1, <3>2, <2>1, <2>6, <2>8
      <4>3. Lookup(s, k) = s[n].val
        BY <4>1, <1>3, <2>10, LookupIs
      <4>4. Lookup(w, k) = s[n].val
        BY <4>1, <4>2, <2>3, <2>9, <2>10, LookupIs
      <4>5. QED
        BY <4>3, <4>4, <3>2
    <3>3. CASE k # r.key /\ \A n \in 1..Len(s) : s[n].key # k
      <4>1. \A j \in 1..Len(w) : w[j].key # k
        BY <3>3, <2>6
      <4>2. Lookup(s, k) = None /\ Lookup(w, k) = None
        BY <4>1, <3>3, <1>3, <2>3, LookupIs
      <4>3. QED
        BY <4>2, <3>3
    <3>4. QED
      BY <3>1, <3>2, <3>3
  <2>11. QED
    BY <2>2, <2>4, <2>5, <2>9, <2>10, <1>3, <1>5, <1>6, <1>8
\* An insert that has room.
<1>9. CASE r.op = "insert" /\ Found(t) = None /\ Insert(t)
  <2> DEFINE kv == [key |-> r.key, val |-> r.val]  w == Append(s, kv)
  <2>1. base' = [base EXCEPT ![At(t)] = EList(w)] /\ Len(s) < ELIST_SIZE
    BY <1>9 DEF Insert, HasRoom
  <2>2. kv \in Pair
    BY <1>4, <1>9 DEF Pair
  <2>3. w \in Seq(Pair) /\ Len(w) = Len(s) + 1 /\ w[Len(s) + 1] = kv
        /\ \A j \in 1..Len(s) : w[j] = s[j]
    BY <1>3, <2>2
  <2> HIDE DEF w
  <2>4. EList(w) \in Pointer /\ EList(w).kind = "elist" /\ EList(w).pairs = w
    BY <2>3 DEF EList, Pointer
  <2>5. Len(w) <= ELIST_SIZE
    BY <1>3, <2>1, <2>3, Constants
  <2>6. \A j \in 1..Len(s) : s[j].key # r.key
    BY <1>3, <1>5, <1>9, LookupIs
  <2>7. \A j \in 1..Len(w) : j \in 1..Len(s) \/ j = Len(s) + 1
    BY <1>3, <2>3
  <2>8. \A j \in 1..Len(s) : j \in 1..Len(w)
    BY <1>3, <2>3
  <2>9. Len(s) + 1 \in 1..Len(w)
    BY <1>3, <2>3
  <2>10. kv.key = r.key /\ kv.val = r.val
    OBVIOUS
  <2> HIDE DEF kv
  <2>11. \A j \in 1..Len(w) : \/ j \in 1..Len(s) /\ w[j] = s[j] /\ w[j].key # r.key
                              \/ j = Len(s) + 1 /\ w[j].key = r.key
    BY <2>3, <2>6, <2>7, <2>10
  <2>12. Unique(s) => Unique(w)
    BY <2>11 DEF Unique
  <2>13. ASSUME NEW k \in Key, Unique(s)
         PROVE  Lookup(w, k) = IF k # r.key THEN Lookup(s, k) ELSE r.val
    <3>1. CASE k = r.key
      BY <3>1, <2>3, <2>9, <2>10, <2>12, <2>13, LookupIs
    <3>2. CASE k # r.key /\ \E n \in 1..Len(s) : s[n].key = k
      <4>1. PICK n \in 1..Len(s) : s[n].key = k
        BY <3>2
      <4>2. n \in 1..Len(w) /\ w[n] = s[n]
        BY <2>3, <2>8
      <4>3. Lookup(s, k) = s[n].val /\ Lookup(w, k) = w[n].val
        BY <4>1, <4>2, <1>3, <2>3, <2>12, <2>13, LookupIs
      <4>4. QED
        BY <4>2, <4>3, <3>2
    <3>3. CASE k # r.key /\ \A n \in 1..Len(s) : s[n].key # k
      <4>1. \A j \in 1..Len(w) : w[j].key # k
        BY <3>3, <2>11
      <4>2. Lookup(s, k) = None /\ Lookup(w, k) = None
        BY <4>1, <3>3, <1>3, <2>3, LookupIs
      <4>3. QED
        BY <4>2, <3>3
    <3>4. QED
      BY <3>1, <3>2, <3>3
  <2>14. QED
    BY <2>1, <2>4, <2>5, <2>12, <2>13, <1>3, <1>5, <1>6, <1>9
<1>10. QED
  <2>1. CASE Get(t)
    BY <2>1, <1>7 DEF Get
  <2>2. CASE Remove(t)
    <3>1. Found(t) = None => Position(s, r.key) = 0
      <4>1. s \in Seq(Pair) /\ Found(t) = Lookup(s, r.key)
        BY <1>3, <1>5
      <4> HIDE DEF s, r
      <4>2. Lookup(s, r.key) = None <=> Position(s, r.key) = 0
        BY <4>1, LookupIs
      <4>3. QED
        BY <4>1, <4>2
    <3>2. CASE Found(t) = None
      BY <2>2, <3>1, <3>2, <1>7 DEF Remove
    <3>3. CASE Found(t) # None
      BY <2>2, <3>3, <1>8 DEF Remove
    <3>4. QED
      BY <3>2, <3>3
  <2>3. CASE Insert(t)
    <3>1. CASE Found(t) = None
      BY <2>3, <3>1, <1>9 DEF Insert
    <3>2. CASE Found(t) # None
      BY <2>3, <3>2, <1>7 DEF Insert
    <3>3. QED
      BY <3>1, <3>2
  <2>4. QED
    BY <2>1, <2>2, <2>3

LEMMA UpdateInv ==
    ASSUME IInv, NEW t \in Thread, Get(t) \/ Remove(t) \/ Insert(t)
    PROVE  IInv' /\ (Grown' <=> Grown)
<1>1. PICK x \in Pointer :
             /\ pc[t] = "locked" /\ pc' = [pc EXCEPT ![t] = "unlock"]
             /\ base' = [base EXCEPT ![At(t)] = x]
             /\ UNCHANGED <<lock, req, path, ops>>
             /\ ret' = [ret EXCEPT ![t] = Found(t)] /\ Found(t) \in Val \cup {None}
             /\ x.kind # "plist" /\ Len(x.pairs) <= ELIST_SIZE
             /\ Unique(base[At(t)].pairs) => Unique(x.pairs)
  BY Changes
<1>2. ret' \in [Thread -> Val \cup {None}]
  BY <1>1 DEF IInv, Types
<1>3. QED
  BY <1>1, <1>2, ChangeInv

\* rehash: the buckets of the new P-List did not exist, so nobody is at them.
LEMMA RehashInv ==
    ASSUME IInv, NEW t \in Thread, Rehash(t)
    PROVE  IInv' /\ Grown'
<1>1. Types /\ Lists /\ Held /\ LockTellsType /\ OneHolder /\ EListFits
  BY InsideIsHolder DEF IInv
<1> DEFINE a == At(t)  s == base[a].pairs  p == path[t]  q == Below(a)  new == Buckets(q)
           Goes(i) == {j \in 1..Len(s) : level_hash(s[j].key, Depth(p) + 1, Count(p)) = i}
           Dest(i) == InOrder(s, Goes(i))
           Made(i) == IF Dest(i) = <<>> THEN Null ELSE EList(Dest(i))
<1>2. /\ a \in DOMAIN lock /\ a[1] = p /\ a[2] \in Nat /\ p \in Seq(Nat)
      /\ Depth(p) <= MaxDepth /\ base[a] \in Pointer /\ DOMAIN base = DOMAIN lock
      /\ \A b \in DOMAIN lock : b[1] \in Seq(Nat) /\ b[2] \in Nat /\ b = <<b[1], b[2]>>
  BY <1>1, Places DEF Types
<1>3. /\ pc[t] = "locked" /\ Depth(p) < MaxDepth
      /\ base' = [b \in DOMAIN base \cup new |->
                    IF b = a THEN PList ELSE IF b \notin new THEN base[b] ELSE Made(b[2])]
      /\ lock' = [b \in DOMAIN lock \cup new |->
                    IF b \in new THEN "E_UNLOCKED" ELSE lock[b]]
      /\ pc' = [pc EXCEPT ![t] = "calcify"] /\ UNCHANGED <<req, path, ret, ops>>
  BY <1>2 DEF Rehash, Go, Below
<1>4. base[a].kind # "plist" /\ s \in Seq(Pair) /\ Len(s) \in Nat /\ Len(s) <= ELIST_SIZE
  BY <1>1, <1>2, <1>3, PointerFields DEF Held, EListFits
<1>5. \A i : Made(i) \in Pointer /\ Made(i).kind # "plist" /\ Len(Made(i).pairs) <= ELIST_SIZE
  <2> SUFFICES ASSUME NEW i
               PROVE  Made(i) \in Pointer /\ Made(i).kind # "plist"
                      /\ Len(Made(i).pairs) <= ELIST_SIZE
    OBVIOUS
  <2>1. Goes(i) \in SUBSET (1..Len(s))
    OBVIOUS
  <2> HIDE DEF Goes, s
  <2>2. Dest(i) \in Seq(Pair) /\ Len(Dest(i)) <= Len(s) /\ Len(Dest(i)) \in Nat
    BY <2>1, <1>4, InOrderType
  <2> HIDE DEF Dest
  <2>3. Len(Dest(i)) <= ELIST_SIZE
    BY <2>2, <1>4, Constants
  <2>4. <<>> \in Seq(Pair) /\ Len(<<>>) <= ELIST_SIZE
    BY Constants
  <2>5. EList(Dest(i)) \in Pointer /\ EList(Dest(i)).kind = "elist"
        /\ EList(Dest(i)).pairs = Dest(i)
    BY <2>2 DEF EList, Pointer
  <2>6. Null \in Pointer /\ Null.kind = "null" /\ Null.pairs = <<>>
    BY <2>4 DEF Null, Pointer
  <2>7. QED
    BY <2>3, <2>4, <2>5, <2>6
<1>6. PList \in Pointer /\ PList.kind = "plist" /\ PList.pairs = <<>>
  <2>1. <<>> \in Seq(Pair)
    OBVIOUS
  <2>2. QED
    BY <2>1 DEF PList, Pointer
<1> HIDE DEF Made
<1>7. q \in Seq(Nat) /\ Depth(q) <= MaxDepth /\ q # <<>> /\ q = Append(a[1], a[2])
  <2>1. q = Append(a[1], a[2])
    BY DEF Below
  <2>2. q \in Seq(Nat) /\ Len(q) = Len(p) + 1 /\ Len(p) \in Nat
    BY <2>1, <1>2
  <2>3. q # <<>>
    BY <2>2
  <2>4. QED
    BY <2>1, <2>2, <2>3, <1>3, Constants DEF Depth
<1> HIDE DEF q
<1>8. \A b \in new : b[1] = q /\ b \in Buckets(b[1])
  BY DEF Buckets
<1>9. ASSUME NEW b \in DOMAIN lock, b \in new
      PROVE  FALSE
  <2>1. b[1] = q
    BY <1>8, <1>9
  <2>2. PICK c \in DOMAIN lock : q = Below(c) /\ base[c].kind = "plist"
    BY <2>1, <1>1, <1>7, <1>9 DEF Lists
  <2>3. c[1] = a[1] /\ c[2] = a[2]
    <3>1. Append(c[1], c[2]) = Append(a[1], a[2])
      BY <2>2, <1>7 DEF Below
    <3>2. c[1] \in Seq(Nat) /\ c[2] \in Nat /\ a[1] \in Seq(Nat) /\ a[2] \in Nat
      BY <1>2
    <3>3. ASSUME NEW x \in Seq(Nat), NEW y \in Seq(Nat), NEW i \in Nat, NEW j \in Nat,
                 x = c[1], i = c[2], y = a[1], j = a[2]
          PROVE  x = y /\ i = j
      <4>1. Append(x, i) = Append(y, j)
        BY <3>1, <3>3
      <4>2. QED
        BY <4>1, BelowUnique
    <3>4. QED
      BY <3>2, <3>3
  <2>4. c = a
    BY <2>2, <2>3, <1>2
  <2>5. QED
    BY <2>2, <2>4, <1>4
<1>10. a \notin new
  BY <1>2, <1>9
<1> DEFINE D == DOMAIN lock
<1>11. /\ DOMAIN lock' = D \cup new /\ DOMAIN base' = D \cup new
       /\ \A b \in D : lock'[b] = lock[b]
       /\ \A b \in new : lock'[b] = "E_UNLOCKED" /\ base'[b] = Made(b[2])
       /\ \A b \in D \ {a} : base'[b] = base[b]
       /\ base'[a] = PList
  BY <1>2, <1>3, <1>9, <1>10
<1>12. pc'[t] = "calcify" /\ \A u \in Thread \ {t} : pc'[u] = pc[u]
  BY <1>1, <1>3 DEF Types
<1>13. Types'
  <2>1. lock' \in [DOMAIN lock' -> {"E_LOCKED", "E_UNLOCKED", "P_UNLOCKED"}]
    <3>1. \A b \in D \cup new : lock'[b] \in {"E_LOCKED", "E_UNLOCKED", "P_UNLOCKED"}
      BY <1>1, <1>11 DEF Types
    <3>2. QED
      BY <3>1, <1>3, <1>11
  <2>2. base' \in [DOMAIN lock' -> Pointer]
    <3>1. \A b \in D \cup new : base'[b] \in Pointer
      <4>1. \A b \in D : base[b] \in Pointer
        BY <1>1 DEF Types
      <4>2. QED
        BY <4>1, <1>5, <1>6, <1>11
    <3>2. QED
      BY <3>1, <1>3, <1>11
  <2>3. QED
    BY <2>1, <2>2, <1>1, <1>3 DEF Types
<1>14. \A b \in D : Exists(b[1]) /\ b \in Buckets(b[1])
  BY <1>1 DEF Lists
<1>15. \A x : Exists(x) => Exists(x)'
  BY <1>11 DEF Exists
<1>16. \A x : x = q => Exists(x)'
  BY <1>7, <1>11 DEF Exists
<1>17. Lists'
  <2>1. \A b \in D \cup new : b \in Buckets(b[1]) /\ Exists(b[1])'
    BY <1>8, <1>14, <1>15, <1>16
  <2>2. Exists(<<>>)' /\ \A u \in Thread : Exists(path[u])'
    <3>1. Exists(<<>>)'
      BY <1>1, <1>15 DEF Lists
    <3>2. ASSUME NEW u \in Thread
          PROVE  Exists(path[u])'
      <4>1. Exists(path[u])
        BY <1>1 DEF Lists
      <4>2. \A x : x = path[u] => Exists(x)'
        BY <4>1, <1>15
      <4>3. QED
        BY <4>2, <1>3 DEF Exists
    <3>3. QED
      BY <3>1, <3>2
  <2>3. ASSUME NEW b \in D \cup new, base'[b].kind = "plist"
        PROVE  Exists(Below(b))'
    <3>1. b \in D
      BY <2>3, <1>5, <1>11
    <3>2. CASE b = a
      <4>1. Below(b) = q /\ Below(b)' = Below(b)
        BY <3>2, <1>7 DEF Below
      <4>2. QED
        BY <4>1, <1>16 DEF Exists
    <3>3. CASE b # a
      <4>1. Exists(Below(b))
        BY <3>1, <3>3, <2>3, <1>1, <1>11 DEF Lists
      <4>2. QED
        BY <4>1, <1>15 DEF Below
    <3>4. QED
      BY <3>2, <3>3
  <2>4. ASSUME NEW c \in D \cup new, c[1] # <<>>
        PROVE  \E b \in D \cup new : c[1] = Below(b) /\ base'[b].kind = "plist"
    <3>1. CASE c \in new
      BY <3>1, <1>2, <1>6, <1>7, <1>8, <1>11 DEF Below
    <3>2. CASE c \in D
      <4>1. PICK b \in D : c[1] = Below(b) /\ base[b].kind = "plist"
        BY <3>2, <2>4, <1>1 DEF Lists
      <4>2. QED
        BY <4>1, <1>6, <1>11
    <3>3. QED
      BY <3>1, <3>2
  <2>5. \A b : Below(b)' = Below(b)
    BY DEF Below
  <2>6. (\A b \in DOMAIN lock : b \in Buckets(b[1]) /\ Exists(b[1]))'
    BY <2>1, <1>11
  <2>7. (\A b \in DOMAIN lock : base[b].kind = "plist" => Exists(Below(b)))'
    BY <2>3, <1>11
  <2>8. (\A c \in DOMAIN lock : c[1] # <<>> =>
           \E b \in DOMAIN lock : c[1] = Below(b) /\ base[b].kind = "plist")'
    BY <2>4, <2>5, <1>11
  <2>9. QED
    BY <2>2, <2>6, <2>7, <2>8 DEF Lists
<1>18. \A u : At(u)' = At(u)
  BY <1>3 DEF At, BucketOf
<1>19. \A u \in Thread : At(u) \in D /\ (Holds(u)' <=> Holds(u))
  BY <1>1, <1>3, <1>12, Places DEF Holds
<1>20. \A u \in Thread : u # t /\ Holds(u) => At(u) # a
  BY <1>1, <1>2, <1>3 DEF OneHolder, Holds
<1>21. Held'
  <2> SUFFICES ASSUME NEW u \in Thread
               PROVE  /\ pc'[u] \in {"locked", "unlock"} => base'[At(u)].kind # "plist"
                      /\ pc'[u] = "calcify" => base'[At(u)].kind = "plist"
    BY <1>18 DEF Held
  <2>1. CASE u = t
    BY <2>1, <1>6, <1>11, <1>12
  <2>2. CASE u # t /\ Holds(u)
    <3>1. base'[At(u)] = base[At(u)]
      BY <2>2, <1>11, <1>19, <1>20
    <3>2. QED
      BY <3>1, <2>2, <1>1, <1>12 DEF Held
  <2>3. CASE u # t /\ ~ Holds(u)
    BY <2>3, <1>12 DEF Holds
  <2>4. QED
    BY <2>1, <2>2, <2>3
<1>22. lock[a] = "E_LOCKED"
  BY <1>1, <1>2, <1>3 DEF OneHolder, Holds
<1>23. LockTellsType'
  <2> SUFFICES ASSUME NEW b \in D \cup new
               PROVE  /\ lock'[b] = "P_UNLOCKED" => base'[b].kind = "plist"
                      /\ lock'[b] = "E_UNLOCKED" => base'[b].kind # "plist"
    BY <1>11 DEF LockTellsType
  <2>1. CASE b \in new
    BY <2>1, <1>5, <1>11
  <2>2. CASE b = a
    BY <2>2, <1>2, <1>11, <1>22
  <2>3. CASE b \in D \ {a}
    BY <2>3, <1>1, <1>11 DEF LockTellsType
  <2>4. QED
    BY <2>1, <2>2, <2>3
<1>24. OneHolder'
  <2> SUFFICES ASSUME NEW b \in D \cup new
               PROVE  /\ lock'[b] = "E_LOCKED" <=> \E u \in Thread : Holds(u) /\ At(u) = b
                      /\ \A u, v \in Thread : Holds(u) /\ Holds(v) /\ At(u) = b /\ At(v) = b
                                                 => u = v
    BY <1>11, <1>18, <1>19 DEF OneHolder
  <2>1. CASE b \in new
    BY <2>1, <1>9, <1>11, <1>19
  <2>2. CASE b \in D
    BY <2>2, <1>1, <1>11 DEF OneHolder
  <2>3. QED
    BY <2>1, <2>2
<1>25. EListFits'
  <2> SUFFICES ASSUME NEW b \in D \cup new
               PROVE  Len(base'[b].pairs) <= ELIST_SIZE
    BY <1>11 DEF EListFits
  <2>1. CASE b \in new
    BY <2>1, <1>5, <1>11
  <2>2. CASE b = a
    BY <2>2, <1>6, <1>11, Constants
  <2>3. CASE b \in D \ {a}
    BY <2>3, <1>1, <1>2, <1>11 DEF EListFits
  <2>4. QED
    BY <2>1, <2>2, <2>3
<1>26. Grown'
  BY <1>2, <1>6, <1>11 DEF Grown
<1>27. KeysUnique'
  BY <1>26 DEF KeysUnique
<1>28. QED
  BY <1>13, <1>17, <1>21, <1>23, <1>24, <1>25, <1>26, <1>27, InsideIsHolderNext DEF IInv

-----------------------------------------------------------------------------
(* The invariant, and what it says.                                         *)

LEMMA StutterInv == IInv /\ UNCHANGED vars => IInv'
<1> SUFFICES ASSUME IInv, UNCHANGED vars
             PROVE  IInv'
  OBVIOUS
<1>1. UNCHANGED <<lock, base, pc, req, path, ret, ops>>
  BY DEF vars
<1>2. \A u : At(u)' = At(u)
  BY <1>1 DEF At, BucketOf
<1>3. Types' /\ Held' /\ LockTellsType' /\ EListFits'
  BY <1>1, <1>2 DEF IInv, Types, Held, LockTellsType, EListFits
<1>4. Lists'
  BY <1>1, ListsKept DEF IInv
<1>5. OneInside'
  BY <1>1, <1>2 DEF IInv, OneInside, Inside
<1>6. KeysUnique'
  BY <1>1 DEF IInv, KeysUnique, Grown, Unique
<1>7. QED
  BY <1>3, <1>4, <1>5, <1>6 DEF IInv

LEMMA NextInv == IInv /\ [Next]_vars => IInv'
<1> SUFFICES ASSUME IInv, [Next]_vars
             PROVE  IInv'
  OBVIOUS
<1>1. ASSUME NEW t \in Thread, Step(t)
      PROVE  IInv'
  BY <1>1, LockInv, MoveInv, UpdateInv, RehashInv DEF Step
<1>2. ASSUME NEW t \in Thread, \E r \in Request : Call(t, r)
      PROVE  IInv'
  BY <1>2, MoveInv
<1>3. CASE Terminated \/ UNCHANGED vars
  BY <1>3, StutterInv DEF Terminated
<1>4. QED
  BY <1>1, <1>2, <1>3 DEF Next

LEMMA Invariance == Spec => []IInv
  BY InitInv, NextInv, PTL DEF Spec

\* The tree is well formed at every step of any number of threads, however deep it
\* grows: lock words tell the type of the pointer, no E-List is longer than its
\* array, and every thread is at a bucket that exists.
THEOREM TreeWellFormed == Spec => []TreeOK
<1>1. IInv => TreeOK
  <2> SUFFICES ASSUME IInv
               PROVE  TreeOK
    OBVIOUS
  <2>1. Types /\ Lists /\ LockTellsType /\ EListFits
    BY DEF IInv
  <2>2. \A t \in Thread : At(t) \in DOMAIN lock
    BY <2>1, Places
  <2>3. \A b \in DOMAIN base : base[b].kind \in {"null", "elist", "plist"}
                               /\ base[b].pairs \in Seq([key : Key, val : Val])
    BY <2>1, PointerFields DEF Types, Pair
  <2>4. DOMAIN base = DOMAIN lock
        /\ \A b \in DOMAIN lock : lock[b] \in {"E_LOCKED", "E_UNLOCKED", "P_UNLOCKED"}
    BY <2>1 DEF Types
  <2>5. TypeOK
    BY <2>1, <2>2, <2>3, <2>4 DEF Types, TypeOK
  <2>6. QED
    BY <2>1, <2>5 DEF TreeOK
<1>2. QED
  BY <1>1, Invariance, PTL

\* A bucket is locked exactly while one thread is between acquire and the store
\* that unlocks it, also across rehashes.
THEOREM BucketExclusion == Spec => []OneInside
<1>1. IInv => OneInside
  BY DEF IInv
<1>2. QED
  BY <1>1, Invariance, PTL

-----------------------------------------------------------------------------
(* The map.                                                                 *)

Shown(label) == CASE label = "idle" -> "idle" [] label = "unlock" -> "applied" [] OTHER -> "called"

LEMMA StatusSet ==
    ASSUME Types, NEW t \in Thread, NEW l, pc' = [pc EXCEPT ![t] = l]
    PROVE  Status' = [Status EXCEPT ![t] = Shown(l)] /\ Status[t] = Shown(pc[t])
<1>1. Status = [u \in Thread |-> Shown(pc[u])] /\ Status' = [u \in Thread |-> Shown(pc'[u])]
  BY DEF Status, Shown
<1>2. \A u \in Thread : pc'[u] = IF u = t THEN l ELSE pc[u]
  BY DEF Types
<1>3. QED
  BY <1>1, <1>2

LEMMA MapInit == Init => Map!Init
<1> SUFFICES ASSUME Init
             PROVE  Map!Init
  OBVIOUS
<1>1. Types /\ Lists
  BY InitInv DEF IInv
<1>2. ASSUME NEW k \in Key
      PROVE  Lookup(base[BucketOf(k, <<>>)].pairs, k) = None
  <2>1. base[BucketOf(k, <<>>)] = Null
    BY <1>1, Places DEF Init
  <2>2. <<>> \in Seq(Pair) /\ \A i \in 1..Len(<<>>) : <<>>[i].key # k
    OBVIOUS
  <2>3. Lookup(<<>>, k) = None
    BY <2>2, LookupIs
  <2>4. QED
    BY <2>1, <2>3 DEF Null
<1>3. Content = [k \in Key |-> None]
  BY <1>2 DEF Content
<1>4. Status = [t \in Thread |-> "idle"]
  BY DEF Init, Status
<1>5. req \in [Thread -> Request] /\ ret = [t \in Thread |-> None]
  BY <1>1 DEF Init, Types
<1>6. QED
  BY <1>3, <1>4, <1>5 DEF Map!Init, Map!Request, Request

\* Before the first rehash everybody is in the root P-List.
LEMMA AllAtRoot ==
    ASSUME IInv, ~ Grown, NEW t \in Thread
    PROVE  path[t] = <<>> /\ At(t) = BucketOf(req[t].key, <<>>)
<1>1. Types /\ Lists
  BY DEF IInv
<1>2. At(t) \in DOMAIN lock /\ At(t)[1] = path[t] /\ DOMAIN base = DOMAIN lock
  BY <1>1, Places DEF Types
<1>3. path[t] = <<>>
  BY <1>1, <1>2 DEF Lists, Grown
<1>4. QED
  BY <1>3 DEF At

\* get, remove and insert are the operations of a map, in one step.
LEMMA MapApply ==
    ASSUME IInv, ~ Grown, NEW t \in Thread, Get(t) \/ Remove(t) \/ Insert(t)
    PROVE  Map!Apply(t)
<1>1. Types /\ Lists /\ KeysUnique
  BY DEF IInv
<1> DEFINE a == At(t)  s == base[a].pairs  r == req[t]
<1>2. PICK x \in Pointer :
             /\ pc[t] = "locked" /\ pc' = [pc EXCEPT ![t] = "unlock"]
             /\ base' = [base EXCEPT ![a] = x] /\ UNCHANGED <<lock, req, path, ops>>
             /\ ret' = [ret EXCEPT ![t] = Found(t)]
             /\ \A k \in Key : Unique(s) =>
                     Lookup(x.pairs, k) =
                        IF k # r.key THEN Lookup(s, k)
                        ELSE IF r.op = "remove" THEN None
                        ELSE IF r.op = "insert" /\ Found(t) = None THEN r.val
                        ELSE Found(t)
  BY Changes
<1>3. a \in DOMAIN lock /\ a = BucketOf(r.key, <<>>) /\ r.key \in Key
      /\ base \in [DOMAIN lock -> Pointer]
  BY <1>1, AllAtRoot, Places, RequestFields DEF Types
<1>4. Unique(s)
  BY <1>1, <1>3 DEF KeysUnique
<1>5. Status[t] = "called" /\ Status' = [Status EXCEPT ![t] = "applied"]
  BY <1>1, <1>2, StatusSet DEF Shown
<1>6. Content[r.key] = Found(t)
  BY <1>3 DEF Content, Found
<1>7. r' = r
  BY <1>2
<1> DEFINE new == IF r.op = "remove" THEN None
                  ELSE IF r.op = "insert" /\ Found(t) = None THEN r.val
                  ELSE Found(t)
<1>8. \A k \in Key : Lookup(base'[BucketOf(k, <<>>)].pairs, k) =
                        IF k = r.key THEN new ELSE Lookup(base[BucketOf(k, <<>>)].pairs, k)
  <2> SUFFICES ASSUME NEW k \in Key
               PROVE  Lookup(base'[BucketOf(k, <<>>)].pairs, k) =
                        IF k = r.key THEN new ELSE Lookup(base[BucketOf(k, <<>>)].pairs, k)
    OBVIOUS
  <2>1. BucketOf(k, <<>>) \in DOMAIN lock
    BY <1>1, Places
  <2>2. CASE BucketOf(k, <<>>) = a
    <3>1. base'[BucketOf(k, <<>>)] = x
      BY <2>1, <2>2, <1>2, <1>3
    <3>2. Lookup(x.pairs, k) = IF k # r.key THEN Lookup(s, k) ELSE new
      BY <1>2, <1>4
    <3>3. QED
      BY <3>1, <3>2, <2>2
  <2>3. CASE BucketOf(k, <<>>) # a
    <3>1. base'[BucketOf(k, <<>>)] = base[BucketOf(k, <<>>)] /\ k # r.key
      BY <2>1, <2>3, <1>2, <1>3
    <3>2. QED
      BY <3>1
  <2>4. QED
    BY <2>2, <2>3
<1> HIDE DEF new
<1>9. Content' = [Content EXCEPT ![r.key] = new]
  <2>1. Content = [k \in Key |-> Lookup(base[BucketOf(k, <<>>)].pairs, k)]
        /\ Content' = [k \in Key |-> Lookup(base'[BucketOf(k, <<>>)].pairs, k)]
    BY DEF Content, BucketOf
  <2>2. QED
    BY <2>1, <1>3, <1>8
<1>10. new = Map!NewValue(r)
  BY <1>6 DEF new, Map!NewValue
<1>11. QED
  BY <1>2, <1>5, <1>6, <1>9, <1>10 DEF Map!Apply

\* Every step up to the first rehash is one of the map, or none.
LEMMA MapStep ==
    ASSUME IInv, [Next]_vars
    PROVE  [Grown' \/ Map!Next]_<<Content, Status, req, ret>>
<1>1. Types
  BY DEF IInv
<1>2. base' = base => Content' = Content
  BY DEF Content, BucketOf
<1>3. ASSUME NEW t \in Thread, Acquire(t) \/ Calcify(t)
      PROVE  UNCHANGED <<Content, Status, req, ret>>
  <2>1. base' = base /\ req' = req /\ ret' = ret
    BY <1>3 DEF Acquire, Calcify
  <2>2. PICK l \in {"locked", "acquire"} :
          pc' = [pc EXCEPT ![t] = l] /\ pc[t] \in {"acquire", "calcify"}
    BY <1>3 DEF Acquire, Calcify, Go
  <2>3. Status' = [Status EXCEPT ![t] = Shown(l)] /\ Status[t] = Shown(pc[t])
    BY <1>1, <2>2, StatusSet
  <2>4. Shown(l) = Shown(pc[t])
    BY <2>2 DEF Shown
  <2>5. Status' = Status
    <3>1. DOMAIN Status = Thread /\ Status = [u \in Thread |-> Status[u]]
      BY DEF Status
    <3>2. QED
      BY <3>1, <2>3, <2>4
  <2>6. QED
    BY <2>1, <2>5, <1>2
<1>4. ASSUME NEW t \in Thread, Descend(t)
      PROVE  UNCHANGED <<Content, Status, req, ret>>
  BY <1>2, <1>4 DEF Descend, Status
<1>5. ASSUME NEW t \in Thread, Unlock(t)
      PROVE  Map!Next
  <2>1. pc[t] = "unlock" /\ pc' = [pc EXCEPT ![t] = "idle"] /\ base' = base /\ req' = req
        /\ ret' = ret
    BY <1>5 DEF Unlock, Go
  <2>2. Status' = [Status EXCEPT ![t] = "idle"] /\ Status[t] = "applied"
    BY <1>1, <2>1, StatusSet DEF Shown
  <2>3. Map!Return(t)
    BY <2>1, <2>2, <1>2 DEF Map!Return
  <2>4. QED
    BY <2>3 DEF Map!Next
<1>6. ASSUME NEW t \in Thread, NEW r \in Request, Call(t, r)
      PROVE  Map!Next
  <2>1. pc[t] = "idle" /\ pc' = [pc EXCEPT ![t] = "acquire"] /\ base' = base /\ ret' = ret
        /\ req' = [req EXCEPT ![t] = r]
    BY <1>6 DEF Call, Go
  <2>2. Status' = [Status EXCEPT ![t] = "called"] /\ Status[t] = "idle"
    <3>1. Status' = [Status EXCEPT ![t] = Shown("acquire")] /\ Status[t] = Shown("idle")
      BY <1>1, <2>1, StatusSet
    <3>2. Shown("acquire") = "called" /\ Shown("idle") = "idle"
      BY DEF Shown
    <3>3. QED
      BY <3>1, <3>2
  <2>3. Map!Call(t, r)
    BY <2>1, <2>2, <1>2 DEF Map!Call
  <2>4. r \in Map!Request
    BY DEF Request, Map!Request
  <2>5. QED
    BY <2>3, <2>4 DEF Map!Next
<1>7. ASSUME NEW t \in Thread, Get(t) \/ Remove(t) \/ Insert(t)
      PROVE  Grown' \/ Map!Next
  BY <1>7, UpdateInv, MapApply DEF Map!Next
<1>8. ASSUME NEW t \in Thread, Rehash(t)
      PROVE  Grown'
  BY <1>8, RehashInv
<1>9. CASE Terminated \/ UNCHANGED vars
  BY <1>2, <1>9 DEF Terminated, vars, Status
<1>10. QED
  BY <1>3, <1>4, <1>5, <1>6, <1>7, <1>8, <1>9 DEF Next, Step

\* Until a bucket is rehashed, the operations of any number of threads on any keys
\* are atomic operations of a map, whatever the hash function and the sizes.
THEOREM MapUntilRehash == Spec => ImplementsMap
<1>1. IInv /\ [Next]_vars => [Grown' \/ Map!Next]_<<Content, Status, req, ret>>
  BY MapStep
<1>2. QED
  BY <1>1, MapInit, Invariance, PTL DEF Spec, ImplementsMap
=============================================================================
