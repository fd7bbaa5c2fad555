------------------------ MODULE SlabAllocatorProofs ------------------------
(***************************************************************************)
(* Theorems about SlabAllocator, for any number of threads, any requests   *)
(* and sizes that the assumptions on the constants allow.                  *)
(*                                                                         *)
(* All blocks, in the hands of callers or in a list, lie between head_ and *)
(* the end of the memory and apart from each other.  A new one is cut      *)
(* below head_.  The blocks of a list are as long as its class, so what    *)
(* memset clears is the block and nothing else.                            *)
(***************************************************************************)
EXTENDS SlabAllocator, TLAPS, SequenceTheorems

\* The class in which do_allocate serves a request.
ClassOf(req) == SlabClass(Rounded(req[1]))
Served == {req \in Requests : ClassOf(req) <= kMaxSlabClass}

Types ==
    /\ capacity \in Nat /\ head \in 0..capacity /\ region[2] = capacity
    /\ freelist \in [Thread -> [Class -> Seq(BlockType)]]
    /\ nonempty \in [Thread -> [Class -> BOOLEAN]]
    /\ pc \in [Thread -> {"idle", "cut", "gone"}]
    /\ want \in [Thread -> Requests] /\ \A t \in Thread : pc[t] = "cut" => want[t] \in Served
    /\ seen \in [Thread -> 0..capacity]
    /\ live \subseteq BlockType /\ data \subseteq 0..(capacity - 1)

\* A block of class c between head_ and the end of the memory.
Sound(b, c) == /\ head <= b.at /\ b.at + b.size <= capacity /\ b.at % Alignment = 0
               /\ b.req \in Served /\ ClassOf(b.req) = c /\ b.size = Rounded(b.req[1])
               /\ b.size = 2^c
AllSound == /\ \A b \in live : Sound(b, ClassOf(b.req))
            /\ \A t \in Thread, c \in Class : \A i \in 1..Len(freelist[t][c]) :
                 Sound(freelist[t][c][i], c)

Apart(b, d) == b.at + b.size <= d.at \/ d.at + d.size <= b.at
AllApart ==
    /\ \A b, d \in live : b # d => Apart(b, d)
    /\ \A b \in live, t \in Thread, c \in Class : \A i \in 1..Len(freelist[t][c]) :
         Apart(b, freelist[t][c][i])
    /\ \A t, u \in Thread, c, d \in Class :
         \A i \in 1..Len(freelist[t][c]), j \in 1..Len(freelist[u][d]) :
            (t = u /\ c = d /\ i = j) \/ Apart(freelist[t][c][i], freelist[u][d][j])

IInv == Types /\ AllSound /\ AllApart /\ BitsTell

-----------------------------------------------------------------------------
(* Arithmetic of requests, alignment and capacities.                        *)

\* Requests have at least a byte, and rounding does not shorten them.
LEMMA RequestTypes ==
    ASSUME NEW req \in Requests
    PROVE  /\ req[1] \in Nat \ {0} /\ Rounded(req[1]) \in Nat \ {0}
           /\ req[1] <= Rounded(req[1])
<1>1. Requests \subseteq (Nat \ {0}) \X (Nat \ {0}) /\ Alignment \in Nat \ {0}
  BY SlabAssumption
<1>2. req[1] \in Nat \ {0}
  BY <1>1
<1>3. QED
  BY <1>1, <1>2 DEF Rounded, Larger

\* A request that has a class is as long as the blocks of it.
LEMMA ServedFits ==
    ASSUME NEW req \in Served
    PROVE  /\ req \in Requests /\ ClassOf(req) \in Class
           /\ Rounded(req[1]) = 2^ClassOf(req) /\ Rounded(req[1]) % Alignment = 0
           /\ FreeClass(req) = ClassOf(req)
<1>1. req \in Requests /\ ClassOf(req) <= kMaxSlabClass
  BY DEF Served
<1>2. ClassOf(req) \in Nat /\ ClassOf(req) >= kMinSlabClass
  BY <1>1, CallersAssumption DEF ClassOf
<1>3. /\ Rounded(req[1]) = 2^ClassOf(req) /\ Rounded(req[1]) % Alignment = 0
      /\ SlabClass(req[2]) = ClassOf(req)
  BY <1>1, CallersAssumption DEF ClassOf
<1>4. ClassOf(req) \in Class
  BY <1>1, <1>2, SlabAssumption DEF Class
<1>5. QED
  BY <1>1, <1>3, <1>4 DEF FreeClass

LEMMA Division ==
    ASSUME NEW a \in Nat \ {0}, NEW x \in Nat
    PROVE  x \div a \in Int /\ x % a \in 0..(a - 1) /\ x = a * (x \div a) + (x % a)
<1>1. x \div a \in Int /\ x % a \in 0..(a - 1)
  OBVIOUS
<1>2. x = (x \div a) * a + (x % a)
  OBVIOUS
<1>3. QED
  BY <1>1, <1>2

\* The difference of two multiples is a multiple.
LEMMA Multiples ==
    ASSUME NEW a \in Nat \ {0}, NEW x \in Nat, NEW n \in Nat, n % a = 0
    PROVE  /\ x % a \in 0..x
           /\ (x - (x % a) - n) % a = 0
<1> DEFINE p == x \div a  q == n \div a
<1>1. p \in Int /\ q \in Int /\ x = a * p + (x % a) /\ n = a * q /\ x % a \in 0..(a - 1)
  <2>1. n = a * q + (n % a) /\ q \in Int
    BY Division
  <2>2. QED
    BY <2>1, Division
<1>2. x - (x % a) - n = a * p - a * q
  BY <1>1
<1>3. a * p - a * q = a * (p - q)
  BY <1>1
<1>4. (a * (p - q)) % a = 0
  BY <1>1
<1>5. p >= 0
  BY <1>1
<1>6. a * p >= 0
  BY <1>1, <1>5
<1>7. x % a <= x
  BY <1>1, <1>6
<1>8. QED
  BY <1>1, <1>2, <1>3, <1>4, <1>7

\* A capacity whose registration succeeds was not changed by the conversion.
LEMMA RegisteredWhole ==
    ASSUME NEW x \in RegionSizes, Registers(Requested(x))
    PROVE  Requested(x) \in Nat /\ ToInt(Requested(x)) = Requested(x)
<1> DEFINE cap == Requested(x)  m == 2^UintBits  h == 2^(UintBits - 1)
<1>1. cap \in 0..(m - 1) /\ m \in Nat \ {0} /\ h \in Nat
  BY CapacityAssumption
<1>2. ToInt(cap) >= 0
  BY DEF Registers, ValidateRegion
<1>3. ToInt(cap) = IF cap % m < h THEN cap % m ELSE (cap % m) - m
  BY DEF ToInt
<1> HIDE DEF cap, m, h
<1>4. cap % m = cap
  BY <1>1
<1>5. ToInt(cap) = cap
  BY <1>1, <1>2, <1>3, <1>4
<1>6. QED
  BY <1>1, <1>5 DEF cap

-----------------------------------------------------------------------------
(* Blocks and lists.                                                        *)

LEMMA BlockFields ==
    ASSUME NEW b \in BlockType, capacity \in Nat
    PROVE  /\ b.at \in Nat /\ b.at <= capacity /\ b.size \in Nat \ {0} /\ b.req \in Requests
           /\ b.req[1] \in Nat \ {0}
<1>1. b.at \in 0..capacity /\ b.size \in Nat \ {0} /\ b.req \in Requests
  BY DEF BlockType
<1>2. QED
  BY <1>1, RequestTypes

LEMMA ListTypes ==
    ASSUME Types, NEW t \in Thread, NEW c \in Class
    PROVE  /\ freelist[t][c] \in Seq(BlockType) /\ Len(freelist[t][c]) \in Nat
           /\ \A i \in 1..Len(freelist[t][c]) : freelist[t][c][i] \in BlockType
<1>1. freelist \in [Thread -> [Class -> Seq(BlockType)]]
  BY DEF Types
<1>2. freelist[t][c] \in Seq(BlockType)
  BY <1>1
<1>3. QED
  BY <1>2

\* One list of one thread is replaced.
LEMMA ListReplaced ==
    ASSUME NEW S, NEW f \in [Thread -> [Class -> S]], NEW t \in Thread, NEW c \in Class,
           NEW v \in S, NEW g, g = [f EXCEPT ![t][c] = v]
    PROVE  /\ g \in [Thread -> [Class -> S]] /\ g[t][c] = v
           /\ \A u \in Thread, d \in Class : ~(u = t /\ d = c) => g[u][d] = f[u][d]
<1>1. g = [f EXCEPT ![t] = [f[t] EXCEPT ![c] = v]]
  OBVIOUS
<1>2. f[t] \in [Class -> S]
  OBVIOUS
<1>3. [f[t] EXCEPT ![c] = v] \in [Class -> S]
  BY <1>2
<1>4. g \in [Thread -> [Class -> S]]
  BY <1>1, <1>3
<1>5. g[t] = [f[t] EXCEPT ![c] = v] /\ \A u \in Thread : u # t => g[u] = f[u]
  BY <1>1
<1>6. g[t][c] = v /\ \A d \in Class : d # c => g[t][d] = f[t][d]
  BY <1>2, <1>5
<1>7. QED
  BY <1>4, <1>5, <1>6

\* The same for the bit of a list.
LEMMA BitReplaced ==
    ASSUME NEW f \in [Thread -> [Class -> BOOLEAN]], NEW t \in Thread, NEW c \in Class,
           NEW v \in BOOLEAN, NEW g, g = [f EXCEPT ![t][c] = v]
    PROVE  /\ g \in [Thread -> [Class -> BOOLEAN]] /\ g[t][c] = v
           /\ \A u \in Thread, d \in Class : ~(u = t /\ d = c) => g[u][d] = f[u][d]
<1>1. g = [f EXCEPT ![t] = [f[t] EXCEPT ![c] = v]]
  OBVIOUS
<1>2. f[t] \in [Class -> BOOLEAN]
  OBVIOUS
<1>3. [f[t] EXCEPT ![c] = v] \in [Class -> BOOLEAN]
  BY <1>2
<1>4. g \in [Thread -> [Class -> BOOLEAN]]
  BY <1>1, <1>3
<1>5. g[t] = [f[t] EXCEPT ![c] = v] /\ \A u \in Thread : u # t => g[u] = f[u]
  BY <1>1
<1>6. g[t][c] = v /\ \A d \in Class : d # c => g[t][d] = f[t][d]
  BY <1>2, <1>5, Zenon
<1>7. QED
  BY <1>4, <1>5, <1>6, Zenon

\* A block put at the end of a list.
LEMMA Appended ==
    ASSUME NEW S, NEW s \in Seq(S), NEW x \in S
    PROVE  /\ Append(s, x) \in Seq(S) /\ Len(s) \in Nat /\ Append(s, x) # <<>>
           /\ Append(s, x)[Len(s) + 1] = x
           /\ \A i \in 1..Len(s) : Append(s, x)[i] = s[i]
           /\ \A i \in 1..Len(Append(s, x)) : i \in 1..Len(s) \/ i = Len(s) + 1
<1>1. Append(s, x) \in Seq(S) /\ Len(s) \in Nat /\ Len(Append(s, x)) = Len(s) + 1
  OBVIOUS
<1>2. Append(s, x)[Len(s) + 1] = x /\ \A i \in 1..Len(s) : Append(s, x)[i] = s[i]
  OBVIOUS
<1>3. Append(s, x) # <<>>
  BY <1>1
<1>4. QED
  BY <1>1, <1>2, <1>3

\* A block taken from the front of a list.
LEMMA Removed ==
    ASSUME NEW S, NEW s \in Seq(S), s # <<>>
    PROVE  /\ Tail(s) \in Seq(S) /\ Head(s) \in S /\ Head(s) = s[1] /\ 1 \in 1..Len(s)
           /\ \A i \in 1..Len(Tail(s)) : i + 1 \in 1..Len(s) /\ i + 1 # 1
                                         /\ Tail(s)[i] = s[i + 1]
<1>1. Tail(s) \in Seq(S) /\ Head(s) \in S /\ Len(Tail(s)) = Len(s) - 1 /\ Len(s) \in Nat
  BY HeadTailProperties
<1>2. Head(s) = s[1] /\ Len(s) # 0
  OBVIOUS
<1>3. \A i \in 1..Len(Tail(s)) : Tail(s)[i] = s[i + 1]
  BY HeadTailProperties
<1>4. QED
  BY <1>1, <1>2, <1>3

-----------------------------------------------------------------------------
(* The invariant: a memory without blocks.                                  *)

Empty ==
    /\ capacity \in Nat /\ head \in 0..capacity /\ region[2] = capacity
    /\ freelist \in [Thread -> [Class -> {<<>>}]]
    /\ nonempty \in [Thread -> [Class -> BOOLEAN]]
    /\ \A t \in Thread, c \in Class : nonempty[t][c] = FALSE
    /\ pc \in [Thread -> {"idle", "cut", "gone"}]
    /\ want \in [Thread -> Requests] /\ \A t \in Thread : pc[t] = "cut" => want[t] \in Served
    /\ seen \in [Thread -> 0..capacity]
    /\ live = {} /\ data \subseteq 0..(capacity - 1)

LEMMA EmptyInv == Empty => IInv
<1> SUFFICES ASSUME Empty PROVE IInv
  OBVIOUS
<1>1. \A t \in Thread, c \in Class : freelist[t][c] = <<>>
  BY DEF Empty
<1>2. \A t \in Thread, c \in Class : nonempty[t][c] = FALSE
  BY Zenon DEF Empty
<1>3. Types
  <2>1. <<>> \in Seq(BlockType)
    OBVIOUS
  <2>2. freelist \in [Thread -> [Class -> {<<>>}]]
    BY DEF Empty
  <2>3. freelist \in [Thread -> [Class -> Seq(BlockType)]]
    BY <2>1, <2>2
  <2>4. nonempty \in [Thread -> [Class -> BOOLEAN]]
    BY DEF Empty
  <2>5. live \subseteq BlockType
    BY DEF Empty
  <2>6. QED
    BY <2>3, <2>4, <2>5 DEF Types, Empty
<1>4. \A t \in Thread, c \in Class : \A i \in 1..Len(freelist[t][c]) : FALSE
  BY <1>1
<1>5. live = {}
  BY DEF Empty
<1>6. AllSound
  BY <1>4, <1>5 DEF AllSound
<1>7. AllApart
  BY <1>4, <1>5 DEF AllApart
<1>8. BitsTell
  BY <1>1, <1>2, Zenon DEF BitsTell
<1>9. QED
  BY <1>3, <1>6, <1>7, <1>8 DEF IInv

LEMMA EmptyNext == Empty' => IInv'
  BY EmptyInv, PTL

LEMMA NoRequestType == NoRequest \in Requests
  BY SlabAssumption DEF NoRequest

LEMMA InitInv == Init => IInv
<1> SUFFICES ASSUME Init PROVE Empty
  BY EmptyInv
<1>1. /\ freelist \in [Thread -> [Class -> {<<>>}]]
      /\ nonempty \in [Thread -> [Class -> BOOLEAN]]
      /\ \A t \in Thread, c \in Class : nonempty[t][c] = FALSE
  BY DEF Init
<1>2. /\ pc \in [Thread -> {"idle", "cut", "gone"}] /\ want \in [Thread -> Requests]
      /\ \A t \in Thread : pc[t] # "cut"
  BY NoRequestType DEF Init
<1>3. capacity = 0 /\ head = 0 /\ region[2] = 0 /\ live = {} /\ data = {}
  BY DEF Init
<1>4. seen \in [Thread -> 0..capacity]
  <2>1. 0 \in 0..capacity
    BY <1>3
  <2>2. seen = [t \in Thread |-> 0]
    BY DEF Init
  <2>3. QED
    BY <2>1, <2>2
<1>5. capacity \in Nat /\ head \in 0..capacity /\ region[2] = capacity /\ data \subseteq 0..(capacity - 1)
  BY <1>3
<1>6. QED
  BY <1>1, <1>2, <1>3, <1>4, <1>5, Zenon DEF Empty

LEMMA AbortInv ==
    ASSUME NEW message, Abort(message)
    PROVE  IInv'
<1>1. /\ freelist' \in [Thread -> [Class -> {<<>>}]]
      /\ nonempty' \in [Thread -> [Class -> BOOLEAN]]
      /\ \A t \in Thread, c \in Class : nonempty'[t][c] = FALSE
  BY DEF Abort
<1>2. /\ pc' \in [Thread -> {"idle", "cut", "gone"}] /\ want' \in [Thread -> Requests]
      /\ \A t \in Thread : pc'[t] # "cut"
  BY NoRequestType DEF Abort
<1>3. capacity' = 0 /\ head' = 0 /\ region'[2] = 0 /\ live' = {} /\ data' = {}
  BY DEF Abort
<1>4. seen' \in [Thread -> 0..capacity']
  BY <1>3 DEF Abort
<1>5. /\ capacity' \in Nat /\ head' \in 0..capacity' /\ region'[2] = capacity'
      /\ data' \subseteq 0..(capacity' - 1)
  BY <1>3
<1>6. Empty'
  BY <1>1, <1>2, <1>3, <1>4, <1>5, Zenon DEF Empty
<1>7. QED
  BY <1>6, EmptyNext

-----------------------------------------------------------------------------
(* The invariant: steps.                                                    *)

\* Steps that move no block.
LEMMA BlocksKept ==
    ASSUME AllSound, AllApart, UNCHANGED <<capacity, head, live, freelist>>
    PROVE  AllSound' /\ AllApart'
<1>1. AllSound'
  BY DEF AllSound, Sound
<1>2. AllApart'
  BY DEF AllApart, Apart
<1>3. QED
  BY <1>1, <1>2

\* Before there is memory, there are no blocks.
LEMMA NoRoom ==
    ASSUME capacity = 0, NEW b \in BlockType
    PROVE  ~(b.at + b.size <= capacity)
<1>1. b.at \in Nat /\ b.size \in Nat \ {0}
  BY BlockFields
<1>2. QED
  BY <1>1

LEMMA NoBlocks ==
    ASSUME Types, AllSound, capacity = 0
    PROVE  live = {}
<1>1. \A b \in live : b \in BlockType /\ b.at + b.size <= capacity
  BY DEF Types, AllSound, Sound
<1>2. QED
  BY <1>1, NoRoom

LEMMA ConstructInv ==
    ASSUME IInv, NEW x \in RegionSizes, NEW huge \in HugePages, Construct(x, huge)
    PROVE  IInv'
<1> DEFINE cap == Requested(x)
<1>1. CASE ~Registers(cap)
  BY <1>1, AbortInv DEF Construct
<1>2. CASE Registers(cap)
  <2>1. /\ capacity = 0 /\ capacity' = cap /\ head' = cap /\ region' = <<0, ToInt(cap)>>
        /\ data' = Contents(cap, huge) /\ UNCHANGED <<freelist, nonempty, local, live, fatal>>
    BY <1>2 DEF Construct
  <2>2. cap \in Nat /\ ToInt(cap) = cap
    BY <1>2, RegisteredWhole
  <2>3. Types /\ AllSound /\ BitsTell
    BY DEF IInv
  <2>4. \A b \in BlockType : ~(b.at + b.size <= capacity)
    BY <2>1, NoRoom
  <2>5. live = {}
    BY <2>1, <2>3, NoBlocks
  <2>6. \A t \in Thread, c \in Class : freelist[t][c] = <<>>
    <3> SUFFICES ASSUME NEW t \in Thread, NEW c \in Class PROVE freelist[t][c] = <<>>
      OBVIOUS
    <3>1. \A i \in 1..Len(freelist[t][c]) : freelist[t][c][i].at + freelist[t][c][i].size <= capacity
      BY <2>3 DEF AllSound, Sound
    <3>2. freelist[t][c] \in Seq(BlockType)
          /\ \A i \in 1..Len(freelist[t][c]) : freelist[t][c][i] \in BlockType
      BY <2>3, ListTypes
    <3>3. \A i \in 1..Len(freelist[t][c]) : FALSE
      BY <2>4, <3>1, <3>2
    <3>4. QED
      BY <3>2, <3>3
  <2>7. freelist \in [Thread -> [Class -> {<<>>}]]
    <3>1. freelist \in [Thread -> [Class -> Seq(BlockType)]]
      BY <2>3 DEF Types
    <3>2. QED
      BY <2>6, <3>1
  <2>8. nonempty \in [Thread -> [Class -> BOOLEAN]]
    BY <2>3 DEF Types
  <2>9. \A t \in Thread, c \in Class : nonempty[t][c] = FALSE
    <3>1. \A t \in Thread, c \in Class : ~nonempty[t][c]
      BY <2>3, <2>6, Zenon DEF BitsTell
    <3>2. QED
      BY <2>8, <3>1, Zenon
  <2>10. seen \in [Thread -> 0..cap]
    <3>1. seen \in [Thread -> 0..capacity] /\ 0..capacity \subseteq 0..cap
      BY <2>1, <2>2, <2>3 DEF Types
    <3>2. QED
      BY <3>1
  <2>11. Contents(cap, huge) \subseteq 0..(cap - 1)
    BY DEF Contents
  <2>12. /\ pc \in [Thread -> {"idle", "cut", "gone"}] /\ want \in [Thread -> Requests]
         /\ \A t \in Thread : pc[t] = "cut" => want[t] \in Served
    BY <2>3 DEF Types
  <2>13. UNCHANGED <<freelist, nonempty, pc, want, seen, live>>
    BY <2>1 DEF local
  <2>14. /\ capacity' \in Nat /\ head' \in 0..capacity' /\ region'[2] = capacity'
         /\ seen' \in [Thread -> 0..capacity'] /\ data' \subseteq 0..(capacity' - 1)
    BY <2>1, <2>2, <2>10, <2>11, <2>13
  <2>15. Empty'
    BY <2>5, <2>7, <2>8, <2>9, <2>12, <2>13, <2>14, Zenon DEF Empty
  <2>16. QED
    BY <2>15, EmptyNext
<1>3. QED
  BY <1>1, <1>2

\* What has a class is served.
LEMMA ReadHeadInv ==
    ASSUME IInv, NEW t \in Thread, NEW req \in Requests, ReadHead(t, req)
    PROVE  IInv'
<1>1. Types /\ AllSound /\ AllApart /\ BitsTell
  BY DEF IInv
<1>2. /\ ClassOf(req) <= kMaxSlabClass
      /\ pc' = [pc EXCEPT ![t] = "cut"] /\ want' = [want EXCEPT ![t] = req]
      /\ seen' = [seen EXCEPT ![t] = head]
      /\ UNCHANGED <<capacity, region, head, freelist, nonempty, live, data>>
  BY DEF ReadHead, ClassOf
<1>3. AllSound' /\ AllApart'
  BY <1>1, <1>2, BlocksKept
<1>4. BitsTell'
  BY <1>1, <1>2, Zenon DEF BitsTell
<1>5. req \in Served
  BY <1>2 DEF Served
<1>6. Types'
  <2>1. /\ pc \in [Thread -> {"idle", "cut", "gone"}] /\ want \in [Thread -> Requests]
        /\ \A u \in Thread : pc[u] = "cut" => want[u] \in Served
        /\ seen \in [Thread -> 0..capacity] /\ head \in 0..capacity
    BY <1>1 DEF Types
  <2>2. /\ pc' \in [Thread -> {"idle", "cut", "gone"}] /\ want' \in [Thread -> Requests]
        /\ seen' \in [Thread -> 0..capacity]
    BY <1>2, <2>1
  <2>3. \A u \in Thread : pc'[u] = "cut" => want'[u] \in Served
    BY <1>2, <1>5, <2>1
  <2>4. BlockType' = BlockType
    BY <1>2 DEF BlockType
  <2>5. QED
    BY <1>1, <1>2, <2>2, <2>3, <2>4 DEF Types
<1>7. QED
  BY <1>3, <1>4, <1>6 DEF IInv

\* The loop goes round again, or ends without memory.
LEMMA LoopInv ==
    ASSUME IInv, NEW t \in Thread, CutAgain(t) \/ OutOfMemory(t)
    PROVE  IInv'
<1>1. Types /\ AllSound /\ AllApart /\ BitsTell
  BY DEF IInv
<1>2. UNCHANGED <<capacity, region, head, freelist, nonempty, live, data>>
  BY DEF CutAgain, OutOfMemory
<1>3. AllSound' /\ AllApart'
  BY <1>1, <1>2, BlocksKept
<1>4. BitsTell'
  BY <1>1, <1>2, Zenon DEF BitsTell
<1>5. Types'
  <2>1. /\ capacity \in Nat /\ pc \in [Thread -> {"idle", "cut", "gone"}]
        /\ want \in [Thread -> Requests]
        /\ \A u \in Thread : pc[u] = "cut" => want[u] \in Served
        /\ seen \in [Thread -> 0..capacity] /\ head \in 0..capacity
    BY <1>1 DEF Types
  <2>2. BlockType' = BlockType
    BY <1>2 DEF BlockType
  <2>3. CASE CutAgain(t)
    <3>1. seen' = [seen EXCEPT ![t] = head] /\ UNCHANGED <<pc, want>>
      BY <2>3 DEF CutAgain
    <3>2. seen' \in [Thread -> 0..capacity]
      BY <2>1, <3>1
    <3>3. QED
      BY <1>1, <1>2, <2>2, <3>1, <3>2 DEF Types
  <2>4. CASE OutOfMemory(t)
    <3>1. /\ pc' = [pc EXCEPT ![t] = "idle"] /\ want' = [want EXCEPT ![t] = NoRequest]
          /\ seen' = [seen EXCEPT ![t] = 0]
      BY <2>4 DEF OutOfMemory, Return
    <3>2. /\ pc' \in [Thread -> {"idle", "cut", "gone"}] /\ want' \in [Thread -> Requests]
      BY <2>1, <3>1, NoRequestType
    <3>3. seen' \in [Thread -> 0..capacity]
      BY <2>1, <3>1
    <3>4. \A u \in Thread : pc'[u] = "cut" => want'[u] \in Served
      BY <2>1, <3>1
    <3>5. QED
      BY <1>1, <1>2, <2>2, <3>2, <3>3, <3>4 DEF Types
  <2>5. QED
    BY <2>3, <2>4
<1>6. QED
  BY <1>3, <1>4, <1>5 DEF IInv

\* The block that Cut makes lies directly under head_, or a little lower.
LEMMA CutBlock ==
    ASSUME IInv, NEW t \in Thread, Cut(t)
    PROVE  LET n == Rounded(want[t][1]) IN
           /\ want[t] \in Served /\ n \in Nat \ {0} /\ NewAt(t) \in Nat
           /\ NewAt(t) + n <= head /\ NewAt(t) % Alignment = 0
<1> DEFINE n == Rounded(want[t][1])  a == Alignment
<1>1. Types
  BY DEF IInv
<1>2. pc[t] = "cut" /\ head = seen[t] /\ NewAt(t) >= 0
  BY DEF Cut, Fits
<1>3. want[t] \in Served /\ capacity \in Nat /\ head \in 0..capacity
  BY <1>1, <1>2 DEF Types
<1>4. want[t] \in Requests /\ n % a = 0
  BY <1>3, ServedFits
<1>5. n \in Nat \ {0}
  BY <1>4, RequestTypes
<1>6. a \in Nat \ {0} /\ head \in Nat
  BY <1>3, SlabAssumption
<1>7. NewAt(t) = head - (head % a) - n
  BY <1>2 DEF NewAt, AlignDown
<1> HIDE DEF n, a
<1>8. head % a \in 0..head /\ (head - (head % a) - n) % a = 0
  BY <1>4, <1>5, <1>6, Multiples
<1>9. NewAt(t) \in Nat /\ NewAt(t) + n <= head /\ NewAt(t) % a = 0
  BY <1>2, <1>5, <1>6, <1>7, <1>8
<1>10. QED
  BY <1>3, <1>5, <1>9 DEF n, a

LEMMA CutInv ==
    ASSUME IInv, NEW t \in Thread, Cut(t)
    PROVE  IInv'
<1> DEFINE n == Rounded(want[t][1])  at == NewAt(t)  nb == Block(at, n, want[t])
<1>1. Types /\ AllSound /\ AllApart /\ BitsTell
  BY DEF IInv
<1>2. /\ head' = at /\ live' = live \cup {nb}
      /\ pc' = [pc EXCEPT ![t] = "idle"] /\ want' = [want EXCEPT ![t] = NoRequest]
      /\ seen' = [seen EXCEPT ![t] = 0]
      /\ UNCHANGED <<capacity, region, freelist, nonempty, data>>
  BY DEF Cut, Return
<1>3. /\ want[t] \in Served /\ n \in Nat \ {0} /\ at \in Nat /\ at + n <= head
      /\ at % Alignment = 0
  BY CutBlock
<1>4. capacity \in Nat /\ head \in 0..capacity
  BY <1>1 DEF Types
<1>5. nb.at = at /\ nb.size = n /\ nb.req = want[t]
  BY DEF Block
<1>6. nb \in BlockType
  <2>1. at \in 0..capacity /\ want[t] \in Requests
    BY <1>3, <1>4 DEF Served
  <2>2. QED
    BY <1>3, <2>1 DEF Block, BlockType
<1>7. head' <= head /\ head' \in 0..capacity
  BY <1>2, <1>3, <1>4
<1>8. at + n <= capacity
  BY <1>3, <1>4
<1>9. n = 2^ClassOf(want[t])
  BY <1>3, ServedFits
<1> HIDE DEF n, at, nb
<1>10. Types'
  <2>1. /\ pc \in [Thread -> {"idle", "cut", "gone"}] /\ want \in [Thread -> Requests]
        /\ \A u \in Thread : pc[u] = "cut" => want[u] \in Served
        /\ seen \in [Thread -> 0..capacity]
    BY <1>1 DEF Types
  <2>2. /\ pc' \in [Thread -> {"idle", "cut", "gone"}] /\ want' \in [Thread -> Requests]
    BY <1>2, <2>1, NoRequestType
  <2>3. seen' \in [Thread -> 0..capacity]
    BY <1>2, <1>4, <2>1
  <2>4. \A u \in Thread : pc'[u] = "cut" => want'[u] \in Served
    BY <1>2, <2>1
  <2>5. BlockType' = BlockType
    BY <1>2 DEF BlockType
  <2>6. live' \subseteq BlockType
    BY <1>1, <1>2, <1>6 DEF Types
  <2>7. QED
    BY <1>1, <1>2, <1>7, <2>2, <2>3, <2>4, <2>5, <2>6 DEF Types
\* Every other block lies above the old head_.
<1> DEFINE After(b, c) ==
             /\ head' <= b.at /\ b.at + b.size <= capacity' /\ b.at % Alignment = 0
             /\ b.req \in Served /\ ClassOf(b.req) = c /\ b.size = Rounded(b.req[1])
             /\ b.size = 2^c
<1>11. \A b \in BlockType, c \in Class : Sound(b, c) => After(b, c) /\ Apart(nb, b) /\ Apart(b, nb)
  <2> SUFFICES ASSUME NEW b \in BlockType, NEW c \in Class, Sound(b, c)
               PROVE  After(b, c) /\ Apart(nb, b) /\ Apart(b, nb)
    OBVIOUS
  <2>1. head <= b.at /\ b.at \in Nat
    BY <1>4, BlockFields DEF Sound
  <2>2. head' <= b.at
    BY <1>4, <1>7, <2>1
  <2>3. After(b, c)
    BY <1>2, <2>2 DEF Sound
  <2>4. nb.at + nb.size <= b.at
    BY <1>3, <1>4, <1>5, <2>1
  <2>5. QED
    BY <2>3, <2>4 DEF Apart
<1>12. \A b \in live : b \in BlockType /\ ClassOf(b.req) \in Class /\ Sound(b, ClassOf(b.req))
  <2>1. \A b \in live : b \in BlockType /\ Sound(b, ClassOf(b.req))
    BY <1>1 DEF Types, AllSound
  <2>2. \A b \in live : b.req \in Served
    BY <2>1 DEF Sound
  <2>3. QED
    BY <2>1, <2>2, ServedFits
<1>13. \A u \in Thread, c \in Class : \A i \in 1..Len(freelist[u][c]) :
          freelist[u][c][i] \in BlockType /\ Sound(freelist[u][c][i], c)
  BY <1>1, ListTypes DEF AllSound
<1>14. AllSound'
  <2>1. After(nb, ClassOf(nb.req))
    <3>1. head' <= nb.at
      BY <1>2, <1>3, <1>5
    <3>2. n = Rounded(want[t][1])
      BY DEF n
    <3>3. QED
      BY <1>2, <1>3, <1>5, <1>8, <1>9, <3>1, <3>2
  <2> HIDE DEF After
  <2>2. \A b \in live' : After(b, ClassOf(b.req))
    BY <1>2, <1>11, <1>12, <2>1
  <2>3. \A u \in Thread, c \in Class : \A i \in 1..Len(freelist[u][c]) : After(freelist[u][c][i], c)
    BY <1>11, <1>13
  <2>4. QED
    BY <1>2, <2>2, <2>3 DEF AllSound, Sound, After
<1>15. AllApart'
  <2>1. \A b, d \in live' : b # d => Apart(b, d)
    BY <1>1, <1>2, <1>11, <1>12 DEF AllApart
  <2>2. \A b \in live', u \in Thread, c \in Class : \A i \in 1..Len(freelist[u][c]) :
           Apart(b, freelist[u][c][i])
    BY <1>1, <1>2, <1>11, <1>13 DEF AllApart
  <2>3. \A u, v \in Thread, c, d \in Class :
          \A i \in 1..Len(freelist[u][c]), j \in 1..Len(freelist[v][d]) :
            (u = v /\ c = d /\ i = j) \/ Apart(freelist[u][c][i], freelist[v][d][j])
    BY <1>1 DEF AllApart
  <2>4. QED
    BY <1>2, <2>1, <2>2, <2>3 DEF AllApart, Apart
<1>16. BitsTell'
  BY <1>1, <1>2, Zenon DEF BitsTell
<1>17. QED
  BY <1>10, <1>14, <1>15, <1>16 DEF IInv

\* What the caller gets from a list is the block that waited there first.
LEMMA ReuseBlock ==
    ASSUME IInv, NEW t \in Thread, NEW req \in Requests, Reuse(t, req)
    PROVE  LET c == ClassOf(req)  s == freelist[t][c] IN
           /\ req \in Served /\ c \in Class /\ s \in Seq(BlockType) /\ s # <<>>
           /\ Head(s) \in BlockType /\ Head(s) = s[1] /\ 1 \in 1..Len(s) /\ Sound(s[1], c)
<1> DEFINE c == ClassOf(req)  s == freelist[t][c]
<1>1. Types /\ AllSound
  BY DEF IInv
<1>2. c <= kMaxSlabClass /\ s # <<>>
  BY DEF Reuse, ClassOf
<1>3. req \in Served
  BY <1>2 DEF Served
<1>4. c \in Class
  BY <1>3, ServedFits
<1>5. s \in Seq(BlockType)
  BY <1>1, <1>4, ListTypes
<1> HIDE DEF c
<1>6. Head(s) \in BlockType /\ Head(s) = s[1] /\ 1 \in 1..Len(s)
  BY <1>2, <1>5, Removed
<1>7. Sound(s[1], c)
  BY <1>1, <1>4, <1>6 DEF AllSound
<1>8. QED
  BY <1>2, <1>3, <1>4, <1>5, <1>6, <1>7 DEF c

LEMMA ReuseInv ==
    ASSUME IInv, NEW t \in Thread, NEW req \in Requests, Reuse(t, req)
    PROVE  IInv'
<1> DEFINE c == ClassOf(req)  s == freelist[t][c]  b == Head(s)  nb == Block(b.at, b.size, req)
           left == Tail(s)
           Src(u, d, i) == IF u = t /\ d = c THEN i + 1 ELSE i
<1>1. Types /\ AllSound /\ AllApart /\ BitsTell
  BY DEF IInv
<1>2. /\ freelist' = [freelist EXCEPT ![t][c] = left] /\ live' = live \cup {nb}
      /\ nonempty' = [nonempty EXCEPT ![t][c] = (left # <<>>)]
      /\ data' = data \ Cleared(b, c)
      /\ UNCHANGED <<capacity, region, head, pc, want, seen>>
  BY DEF Reuse, ClassOf, local
<1>3. /\ req \in Served /\ c \in Class /\ s \in Seq(BlockType) /\ s # <<>>
      /\ b \in BlockType /\ b = s[1] /\ 1 \in 1..Len(s) /\ Sound(b, c)
  BY ReuseBlock
<1>4. /\ left \in Seq(BlockType)
      /\ \A i \in 1..Len(left) : i + 1 \in 1..Len(s) /\ i + 1 # 1 /\ left[i] = s[i + 1]
  BY <1>3, Removed
<1>5. nb.at = b.at /\ nb.size = b.size /\ nb.req = req
  BY DEF Block
<1>6. nb \in BlockType
  <2>1. b.at \in 0..capacity /\ b.size \in Nat \ {0}
    BY <1>3 DEF BlockType
  <2>2. QED
    BY <2>1 DEF Block, BlockType
<1>7. freelist \in [Thread -> [Class -> Seq(BlockType)]]
      /\ nonempty \in [Thread -> [Class -> BOOLEAN]]
  BY <1>1 DEF Types
<1>8. /\ freelist' \in [Thread -> [Class -> Seq(BlockType)]] /\ freelist'[t][c] = left
      /\ \A u \in Thread, d \in Class : ~(u = t /\ d = c) => freelist'[u][d] = freelist[u][d]
  <2> HIDE DEF left, c
  <2>1. QED
    BY <1>2, <1>3, <1>4, <1>7, ListReplaced
<1>9. /\ nonempty' \in [Thread -> [Class -> BOOLEAN]] /\ nonempty'[t][c] = (left # <<>>)
      /\ \A u \in Thread, d \in Class : ~(u = t /\ d = c) => nonempty'[u][d] = nonempty[u][d]
  <2> HIDE DEF c, left
  <2>1. c \in Class /\ nonempty' = [nonempty EXCEPT ![t][c] = (left # <<>>)]
    BY <1>2, <1>3
  <2>2. nonempty \in [Thread -> [Class -> BOOLEAN]]
    BY <1>7
  <2>3. (left # <<>>) \in BOOLEAN
    OBVIOUS
  <2>4. QED
    BY <2>1, <2>2, <2>3, BitReplaced
<1> HIDE DEF c, nb, left
<1>10. \A u \in Thread, d \in Class : \A i \in 1..Len(freelist'[u][d]) :
          /\ Src(u, d, i) \in 1..Len(freelist[u][d])
          /\ freelist'[u][d][i] = freelist[u][d][Src(u, d, i)]
          /\ ~(u = t /\ d = c /\ Src(u, d, i) = 1)
  <2> SUFFICES ASSUME NEW u \in Thread, NEW d \in Class, NEW i \in 1..Len(freelist'[u][d])
               PROVE  /\ Src(u, d, i) \in 1..Len(freelist[u][d])
                      /\ freelist'[u][d][i] = freelist[u][d][Src(u, d, i)]
                      /\ ~(u = t /\ d = c /\ Src(u, d, i) = 1)
    OBVIOUS
  <2>1. CASE u = t /\ d = c
    BY <1>4, <1>8, <2>1
  <2>2. CASE ~(u = t /\ d = c)
    BY <1>8, <2>2
  <2>3. QED
    BY <2>1, <2>2
<1>11. \A u \in Thread, d \in Class : \A i, j \in Nat : Src(u, d, i) = Src(u, d, j) => i = j
  OBVIOUS
<1> HIDE DEF Src
<1>12. Types'
  <2>1. BlockType' = BlockType
    BY <1>2 DEF BlockType
  <2>2. live' \subseteq BlockType /\ data' \subseteq 0..(capacity - 1)
    BY <1>1, <1>2, <1>6 DEF Types
  <2>3. QED
    BY <1>1, <1>2, <1>8, <1>9, <2>1, <2>2 DEF Types
<1>13. AllSound'
  <2>1. Sound(nb, c)
    <3>1. Rounded(req[1]) = 2^c /\ ClassOf(req) = c
      BY <1>3, ServedFits DEF c
    <3>2. QED
      BY <1>3, <1>5, <3>1 DEF Sound
  <2>2. ClassOf(nb.req) = c
    BY <1>5 DEF c
  <2>3. \A x \in live' : Sound(x, ClassOf(x.req))
    BY <1>1, <1>2, <2>1, <2>2 DEF AllSound
  <2>4. \A u \in Thread, d \in Class : \A i \in 1..Len(freelist'[u][d]) : Sound(freelist'[u][d][i], d)
    BY <1>1, <1>10 DEF AllSound
  <2>5. QED
    BY <1>2, <2>3, <2>4 DEF AllSound, Sound
<1>14. AllApart'
  \* The place of the block that left the list is nobody else's.
  <2>1. \A x : (Apart(x, b) => Apart(x, nb)) /\ (Apart(b, x) => Apart(nb, x))
    BY <1>5 DEF Apart
  <2>2. \A x, y : Apart(x, y) => Apart(y, x)
    BY DEF Apart
  <2>3. \A x \in live : Apart(x, b)
    BY <1>1, <1>3 DEF AllApart
  <2>4. \A x, y \in live' : x # y => Apart(x, y)
    BY <1>1, <1>2, <2>1, <2>2, <2>3 DEF AllApart
  <2>5. \A u \in Thread, d \in Class : \A i \in 1..Len(freelist'[u][d]) : Apart(b, freelist'[u][d][i])
    <3> SUFFICES ASSUME NEW u \in Thread, NEW d \in Class, NEW i \in 1..Len(freelist'[u][d])
                 PROVE  Apart(b, freelist'[u][d][i])
      OBVIOUS
    <3>1. \A j \in 1..Len(freelist[u][d]) :
             (t = u /\ c = d /\ 1 = j) \/ Apart(freelist[t][c][1], freelist[u][d][j])
      BY <1>1, <1>3 DEF AllApart
    <3>2. QED
      BY <1>3, <1>10, <3>1
  <2>6. \A x \in live, u \in Thread, d \in Class : \A i \in 1..Len(freelist'[u][d]) :
           Apart(x, freelist'[u][d][i])
    BY <1>1, <1>10 DEF AllApart
  <2>7. \A x \in live', u \in Thread, d \in Class : \A i \in 1..Len(freelist'[u][d]) :
           Apart(x, freelist'[u][d][i])
    BY <1>2, <2>1, <2>5, <2>6
  <2>8. \A u, v \in Thread, d, e \in Class :
          \A i \in 1..Len(freelist'[u][d]), j \in 1..Len(freelist'[v][e]) :
            (u = v /\ d = e /\ i = j) \/ Apart(freelist'[u][d][i], freelist'[v][e][j])
    <3> SUFFICES ASSUME NEW u \in Thread, NEW v \in Thread, NEW d \in Class, NEW e \in Class,
                        NEW i \in 1..Len(freelist'[u][d]), NEW j \in 1..Len(freelist'[v][e]),
                        ~(u = v /\ d = e /\ i = j)
                 PROVE  Apart(freelist'[u][d][i], freelist'[v][e][j])
      OBVIOUS
    <3>1. i \in Nat /\ j \in Nat
      OBVIOUS
    <3>2. ~(u = v /\ d = e /\ Src(u, d, i) = Src(v, e, j))
      BY <1>11, <3>1
    <3>3. Apart(freelist[u][d][Src(u, d, i)], freelist[v][e][Src(v, e, j)])
      BY <1>1, <1>10, <3>2 DEF AllApart
    <3>4. QED
      BY <1>10, <3>3
  <2>9. QED
    BY <2>4, <2>7, <2>8 DEF AllApart, Apart
<1>15. BitsTell'
  <2> SUFFICES ASSUME NEW u \in Thread, NEW d \in Class
               PROVE  nonempty'[u][d] <=> freelist'[u][d] # <<>>
    BY DEF BitsTell
  <2>1. CASE u = t /\ d = c
    BY <1>8, <1>9, <2>1, Zenon
  <2>2. CASE ~(u = t /\ d = c)
    <3>1. nonempty[u][d] <=> freelist[u][d] # <<>>
      BY <1>1, Zenon DEF BitsTell
    <3>2. freelist'[u][d] = freelist[u][d]
      BY <1>8, <2>2
    <3>3. nonempty'[u][d] = nonempty[u][d]
      BY <1>9, <2>2, Zenon
    <3>4. QED
      BY <3>1, <3>2, <3>3, Zenon
  <2>3. QED
    BY <2>1, <2>2, Zenon
<1>16. QED
  BY <1>12, <1>13, <1>14, <1>15 DEF IInv

LEMMA DeallocateInv ==
    ASSUME IInv, NEW t \in Thread, NEW b \in live, Deallocate(t, b)
    PROVE  IInv'
<1> DEFINE c == FreeClass(b.req)  s == freelist[t][c]  more == Append(s, b)
<1>1. Types /\ AllSound /\ AllApart /\ BitsTell
  BY DEF IInv
<1>2. /\ freelist' = [freelist EXCEPT ![t][c] = more] /\ live' = live \ {b}
      /\ nonempty' = [nonempty EXCEPT ![t][c] = TRUE]
      /\ UNCHANGED <<capacity, region, head, pc, want, seen, data>>
  BY DEF Deallocate, local
<1>3. b \in BlockType /\ b.req \in Served /\ Sound(b, ClassOf(b.req))
  BY <1>1 DEF Types, AllSound, Sound
<1>4. c = ClassOf(b.req) /\ c \in Class
  BY <1>3, ServedFits
<1>5. s \in Seq(BlockType)
  BY <1>1, <1>4, ListTypes
<1> HIDE DEF c
<1>6. /\ more \in Seq(BlockType) /\ Len(s) \in Nat /\ more # <<>> /\ more[Len(s) + 1] = b
      /\ \A i \in 1..Len(s) : more[i] = s[i]
      /\ \A i \in 1..Len(more) : i \in 1..Len(s) \/ i = Len(s) + 1
  BY <1>3, <1>5, Appended
<1> HIDE DEF more
<1>7. freelist \in [Thread -> [Class -> Seq(BlockType)]]
      /\ nonempty \in [Thread -> [Class -> BOOLEAN]]
  BY <1>1 DEF Types
<1>8. /\ freelist' \in [Thread -> [Class -> Seq(BlockType)]] /\ freelist'[t][c] = more
      /\ \A u \in Thread, d \in Class : ~(u = t /\ d = c) => freelist'[u][d] = freelist[u][d]
  BY <1>2, <1>4, <1>6, <1>7, ListReplaced
<1>9. /\ nonempty' \in [Thread -> [Class -> BOOLEAN]] /\ nonempty'[t][c] = (more # <<>>)
      /\ \A u \in Thread, d \in Class : ~(u = t /\ d = c) => nonempty'[u][d] = nonempty[u][d]
  <2>1. (more # <<>>) \in BOOLEAN /\ c \in Class
    BY <1>4
  <2>2. nonempty' = [nonempty EXCEPT ![t][c] = (more # <<>>)]
    BY <1>2, <1>6
  <2>3. nonempty \in [Thread -> [Class -> BOOLEAN]]
    BY <1>7
  <2>4. QED
    BY <2>1, <2>2, <2>3, BitReplaced
\* A place in a list is an old one, or the new one.
<1>10. \A u \in Thread, d \in Class : \A i \in 1..Len(freelist'[u][d]) :
          \/ i \in 1..Len(freelist[u][d]) /\ freelist'[u][d][i] = freelist[u][d][i]
          \/ u = t /\ d = c /\ i = Len(s) + 1 /\ freelist'[u][d][i] = b
  <2> SUFFICES ASSUME NEW u \in Thread, NEW d \in Class, NEW i \in 1..Len(freelist'[u][d])
               PROVE  \/ i \in 1..Len(freelist[u][d]) /\ freelist'[u][d][i] = freelist[u][d][i]
                      \/ u = t /\ d = c /\ i = Len(s) + 1 /\ freelist'[u][d][i] = b
    OBVIOUS
  <2>1. CASE u = t /\ d = c
    BY <1>6, <1>8, <2>1
  <2>2. CASE ~(u = t /\ d = c)
    BY <1>8, <2>2
  <2>3. QED
    BY <2>1, <2>2
<1>11. Types'
  <2>1. BlockType' = BlockType
    BY <1>2 DEF BlockType
  <2>2. live' \subseteq BlockType
    BY <1>1, <1>2 DEF Types
  <2>3. QED
    BY <1>1, <1>2, <1>8, <1>9, <2>1, <2>2 DEF Types
<1>12. AllSound'
  <2>1. \A x \in live' : Sound(x, ClassOf(x.req))
    BY <1>1, <1>2 DEF AllSound
  <2>2. \A u \in Thread, d \in Class : \A i \in 1..Len(freelist'[u][d]) : Sound(freelist'[u][d][i], d)
    BY <1>1, <1>3, <1>4, <1>10 DEF AllSound
  <2>3. QED
    BY <1>2, <2>1, <2>2 DEF AllSound, Sound
<1>13. AllApart'
  <2>1. \A x, y : Apart(x, y) => Apart(y, x)
    BY DEF Apart
  <2>2. \A x, y \in live' : x # y => Apart(x, y)
    BY <1>1, <1>2 DEF AllApart
  <2>3. \A x \in live, u \in Thread, d \in Class : \A i \in 1..Len(freelist[u][d]) :
           Apart(x, freelist[u][d][i])
    BY <1>1 DEF AllApart
  <2>4. \A x \in live' : x \in live /\ Apart(x, b)
    BY <1>1, <1>2 DEF AllApart
  <2>5. \A x \in live', u \in Thread, d \in Class : \A i \in 1..Len(freelist'[u][d]) :
           Apart(x, freelist'[u][d][i])
    BY <1>10, <2>3, <2>4
  <2>6. \A u, v \in Thread, d, e \in Class :
          \A i \in 1..Len(freelist'[u][d]), j \in 1..Len(freelist'[v][e]) :
            (u = v /\ d = e /\ i = j) \/ Apart(freelist'[u][d][i], freelist'[v][e][j])
    <3> SUFFICES ASSUME NEW u \in Thread, NEW v \in Thread, NEW d \in Class, NEW e \in Class,
                        NEW i \in 1..Len(freelist'[u][d]), NEW j \in 1..Len(freelist'[v][e]),
                        ~(u = v /\ d = e /\ i = j)
                 PROVE  Apart(freelist'[u][d][i], freelist'[v][e][j])
      OBVIOUS
    <3>1. CASE /\ i \in 1..Len(freelist[u][d]) /\ freelist'[u][d][i] = freelist[u][d][i]
               /\ j \in 1..Len(freelist[v][e]) /\ freelist'[v][e][j] = freelist[v][e][j]
      BY <1>1, <3>1 DEF AllApart
    <3>2. CASE /\ i \in 1..Len(freelist[u][d]) /\ freelist'[u][d][i] = freelist[u][d][i]
               /\ freelist'[v][e][j] = b
      BY <2>1, <2>3, <3>2
    <3>3. CASE /\ freelist'[u][d][i] = b
               /\ j \in 1..Len(freelist[v][e]) /\ freelist'[v][e][j] = freelist[v][e][j]
      BY <2>3, <3>3
    <3>4. QED
      BY <1>10, <3>1, <3>2, <3>3
  <2>7. QED
    BY <2>2, <2>5, <2>6 DEF AllApart, Apart
<1>14. BitsTell'
  <2> SUFFICES ASSUME NEW u \in Thread, NEW d \in Class
               PROVE  nonempty'[u][d] <=> freelist'[u][d] # <<>>
    BY DEF BitsTell
  <2>1. CASE u = t /\ d = c
    BY <1>6, <1>8, <1>9, <2>1, Zenon
  <2>2. CASE ~(u = t /\ d = c)
    <3>1. nonempty[u][d] <=> freelist[u][d] # <<>>
      BY <1>1, Zenon DEF BitsTell
    <3>2. freelist'[u][d] = freelist[u][d]
      BY <1>8, <2>2
    <3>3. nonempty'[u][d] = nonempty[u][d]
      BY <1>9, <2>2, Zenon
    <3>4. QED
      BY <3>1, <3>2, <3>3, Zenon
  <2>3. QED
    BY <2>1, <2>2, Zenon
<1>15. QED
  BY <1>11, <1>12, <1>13, <1>14 DEF IInv

\* A caller can only reach the bytes of its own block.
LEMMA AskedInside ==
    ASSUME Types, AllSound, NEW b \in live
    PROVE  /\ Asked(b) \subseteq Extent(b) /\ Extent(b) \subseteq 0..(capacity - 1)
<1>1. b \in BlockType /\ Sound(b, ClassOf(b.req)) /\ capacity \in Nat
  BY DEF Types, AllSound
<1>2. b.at \in Nat /\ b.size \in Nat \ {0} /\ b.req \in Requests /\ b.req[1] \in Nat \ {0}
  BY <1>1, BlockFields
<1>3. b.size = Rounded(b.req[1]) /\ b.at + b.size <= capacity
  BY <1>1 DEF Sound
<1>4. b.req[1] <= b.size
  BY <1>2, <1>3, RequestTypes
<1>5. Asked(b) \subseteq Extent(b)
  BY <1>2, <1>4 DEF Asked, Extent
<1>6. Extent(b) \subseteq 0..(capacity - 1)
  BY <1>1, <1>2, <1>3 DEF Extent
<1>7. QED
  BY <1>5, <1>6

LEMMA StoreInv ==
    ASSUME IInv, NEW b \in live, Store(b)
    PROVE  IInv'
<1>1. Types /\ AllSound /\ AllApart /\ BitsTell
  BY DEF IInv
<1>2. /\ data' = data \cup Asked(b)
      /\ UNCHANGED <<capacity, region, head, freelist, nonempty, pc, want, seen, live>>
  BY DEF Store, local
<1>3. AllSound' /\ AllApart'
  BY <1>1, <1>2, BlocksKept
<1>4. BitsTell'
  BY <1>1, <1>2, Zenon DEF BitsTell
<1>5. data \subseteq 0..(capacity - 1) /\ Asked(b) \subseteq 0..(capacity - 1)
  BY <1>1, AskedInside DEF Types
<1>6. data' \subseteq 0..(capacity - 1)
  BY <1>2, <1>5
<1>7. BlockType' = BlockType
  BY <1>2 DEF BlockType
<1>8. Types'
  BY <1>1, <1>2, <1>6, <1>7 DEF Types
<1>9. QED
  BY <1>3, <1>4, <1>8 DEF IInv

LEMMA ThreadExitInv ==
    ASSUME IInv, NEW t \in Thread, ThreadExit(t)
    PROVE  IInv'
<1>1. Types /\ AllSound /\ AllApart /\ BitsTell
  BY DEF IInv
<1>2. /\ pc' = [pc EXCEPT ![t] = "gone"]
      /\ freelist' = [freelist EXCEPT ![t] = [c \in Class |-> <<>>]]
      /\ nonempty' = [nonempty EXCEPT ![t] = [c \in Class |-> FALSE]]
      /\ UNCHANGED <<capacity, region, head, want, seen, live, data>>
  BY DEF ThreadExit
<1>3. /\ freelist \in [Thread -> [Class -> Seq(BlockType)]]
      /\ pc \in [Thread -> {"idle", "cut", "gone"}]
      /\ \A u \in Thread : pc[u] = "cut" => want[u] \in Served
  BY <1>1 DEF Types
<1>4. nonempty \in [Thread -> [Class -> BOOLEAN]]
  BY <1>1 DEF Types
<1>5. freelist' \in [Thread -> [Class -> Seq(BlockType)]]
  <2>1. [c \in Class |-> <<>>] \in [Class -> Seq(BlockType)]
    OBVIOUS
  <2>2. QED
    BY <1>2, <1>3, <2>1
<1>6. nonempty' \in [Thread -> [Class -> BOOLEAN]]
  <2>1. [c \in Class |-> FALSE] \in [Class -> BOOLEAN]
    OBVIOUS
  <2>2. QED
    BY <1>2, <1>4, <2>1
<1>7. \A u \in Thread, d \in Class : freelist'[u][d] = IF u = t THEN <<>> ELSE freelist[u][d]
  BY <1>2, <1>3
<1>8. \A d \in Class : nonempty'[t][d] = FALSE
  BY <1>2, <1>4
<1>9. \A u \in Thread : u # t => nonempty'[u] = nonempty[u]
  BY <1>2, <1>4
<1>10. \A u \in Thread, d \in Class : \A i \in 1..Len(freelist'[u][d]) :
          i \in 1..Len(freelist[u][d]) /\ freelist'[u][d][i] = freelist[u][d][i]
  BY <1>7
<1>11. Types'
  <2>1. BlockType' = BlockType
    BY <1>2 DEF BlockType
  <2>2. /\ pc' \in [Thread -> {"idle", "cut", "gone"}]
        /\ \A u \in Thread : pc'[u] = "cut" => want'[u] \in Served
    BY <1>2, <1>3
  <2>3. QED
    BY <1>1, <1>2, <1>5, <1>6, <2>1, <2>2 DEF Types
<1>12. AllSound'
  <2>1. \A x \in live : Sound(x, ClassOf(x.req))
    BY <1>1 DEF AllSound
  <2>2. \A u \in Thread, d \in Class : \A i \in 1..Len(freelist'[u][d]) : Sound(freelist'[u][d][i], d)
    BY <1>1, <1>10 DEF AllSound
  <2>3. QED
    BY <1>2, <2>1, <2>2 DEF AllSound, Sound
<1>13. AllApart'
  <2>1. \A x, y \in live : x # y => Apart(x, y)
    BY <1>1 DEF AllApart
  <2>2. \A x \in live, u \in Thread, d \in Class : \A i \in 1..Len(freelist'[u][d]) :
           Apart(x, freelist'[u][d][i])
    BY <1>1, <1>10 DEF AllApart
  <2>3. \A u, v \in Thread, d, e \in Class :
          \A i \in 1..Len(freelist'[u][d]), j \in 1..Len(freelist'[v][e]) :
            (u = v /\ d = e /\ i = j) \/ Apart(freelist'[u][d][i], freelist'[v][e][j])
    BY <1>1, <1>10 DEF AllApart
  <2>4. QED
    BY <1>2, <2>1, <2>2, <2>3 DEF AllApart, Apart
<1>14. BitsTell'
  <2> SUFFICES ASSUME NEW u \in Thread, NEW d \in Class
               PROVE  nonempty'[u][d] <=> freelist'[u][d] # <<>>
    BY DEF BitsTell
  <2>1. CASE u = t
    <3>1. nonempty'[u][d] = FALSE
      BY <1>8, <2>1, Zenon
    <3>2. freelist'[u][d] = <<>>
      BY <1>7, <2>1
    <3>3. QED
      BY <3>1, <3>2, Zenon
  <2>2. CASE u # t
    <3>1. nonempty[u][d] <=> freelist[u][d] # <<>>
      BY <1>1, Zenon DEF BitsTell
    <3>2. freelist'[u][d] = freelist[u][d]
      BY <1>7, <2>2
    <3>3. nonempty'[u][d] = nonempty[u][d]
      BY <1>9, <2>2, Zenon
    <3>4. QED
      BY <3>1, <3>2, <3>3, Zenon
  <2>3. QED
    BY <2>1, <2>2, Zenon
<1>15. QED
  BY <1>11, <1>12, <1>13, <1>14 DEF IInv

LEMMA StutterInv == IInv /\ UNCHANGED vars => IInv'
<1> SUFFICES ASSUME IInv, UNCHANGED vars PROVE IInv'
  OBVIOUS
<1>1. Types /\ AllSound /\ AllApart /\ BitsTell
  BY DEF IInv
<1>2. UNCHANGED <<capacity, region, head, freelist, nonempty, pc, want, seen, live, data>>
  BY DEF vars, local
<1>3. AllSound' /\ AllApart'
  BY <1>1, <1>2, BlocksKept
<1>4. BitsTell'
  BY <1>1, <1>2, Zenon DEF BitsTell
<1>5. BlockType' = BlockType
  BY <1>2 DEF BlockType
<1>6. Types'
  BY <1>1, <1>2, <1>5 DEF Types
<1>7. QED
  BY <1>3, <1>4, <1>6 DEF IInv

LEMMA NextInv == IInv /\ [Next]_vars => IInv'
<1> SUFFICES ASSUME IInv, [Next]_vars PROVE IInv'
  OBVIOUS
<1>1. ASSUME NEW x \in RegionSizes, NEW huge \in HugePages, Construct(x, huge) PROVE IInv'
  BY <1>1, ConstructInv
<1>2. ASSUME NEW t \in Thread, NEW req \in Requests,
             Reuse(t, req) \/ ReadHead(t, req) \/ AllocateTooLong(t, req)
      PROVE  IInv'
  BY <1>2, ReuseInv, ReadHeadInv, AbortInv DEF AllocateTooLong
<1>3. ASSUME NEW t \in Thread, Cut(t) \/ CutAgain(t) \/ OutOfMemory(t) PROVE IInv'
  BY <1>3, CutInv, LoopInv
<1>4. ASSUME NEW t \in Thread, NEW b \in live, Deallocate(t, b) PROVE IInv'
  BY <1>4, DeallocateInv
<1>5. ASSUME NEW t \in Thread, ThreadExit(t) PROVE IInv'
  BY <1>5, ThreadExitInv
<1>6. ASSUME NEW b \in live, Store(b) PROVE IInv'
  BY <1>6, StoreInv
<1>7. CASE UNCHANGED vars
  BY <1>7, StutterInv
<1>8. QED
  BY <1>1, <1>2, <1>3, <1>4, <1>5, <1>6, <1>7 DEF Next

LEMMA Invariance == Spec => []IInv
<1>1. QED
  BY InitInv, NextInv, PTL DEF Spec

-----------------------------------------------------------------------------
(* What the invariant says of bytes and of places in lists.                 *)

LEMMA ApartDisjoint ==
    ASSUME NEW b \in BlockType, NEW d \in BlockType, capacity \in Nat, Apart(b, d)
    PROVE  Extent(b) \cap Extent(d) = {}
<1>1. b.at \in Nat /\ b.size \in Nat /\ d.at \in Nat /\ d.size \in Nat
  BY BlockFields
<1>2. QED
  BY <1>1 DEF Apart, Extent

LEMMA EntryPlace ==
    ASSUME Types, NEW e \in Entries
    PROVE  \E t \in Thread, c \in Class : \E i \in 1..Len(freelist[t][c]) : e = <<t, c, i>>
<1> DEFINE Places(u, d) == {<<u, d, i>> : i \in DOMAIN freelist[u][d]}
           All == {Places(u, d) : u \in Thread, d \in Class}
<1>1. PICK t \in Thread, c \in Class : e \in {<<t, c, i>> : i \in DOMAIN freelist[t][c]}
  <2>1. e \in UNION All
    BY DEF Entries
  <2> HIDE DEF Places
  <2>2. PICK S \in All : e \in S
    BY <2>1
  <2>3. \E t \in Thread, c \in Class : S = Places(t, c)
    BY <2>2
  <2>4. QED
    BY <2>2, <2>3 DEF Places
<1>2. PICK i \in DOMAIN freelist[t][c] : e = <<t, c, i>>
  BY <1>1
<1>3. freelist[t][c] \in Seq(BlockType)
  BY ListTypes
<1>4. DOMAIN freelist[t][c] = 1..Len(freelist[t][c])
  BY <1>3
<1>5. QED
  BY <1>2, <1>4

\* A block of a list, in the words of the properties.
LEMMA EntryFacts ==
    ASSUME Types, AllSound, NEW e \in Entries
    PROVE  /\ e[1] \in Thread /\ e[2] \in Class /\ e[3] \in 1..Len(freelist[e[1]][e[2]])
           /\ e = <<e[1], e[2], e[3]>> /\ Entry(e) \in BlockType /\ Sound(Entry(e), e[2])
<1>1. PICK t \in Thread, c \in Class : \E i \in 1..Len(freelist[t][c]) : e = <<t, c, i>>
  BY EntryPlace
<1>2. PICK i \in 1..Len(freelist[t][c]) : e = <<t, c, i>>
  BY <1>1
<1>3. e[1] = t /\ e[2] = c /\ e[3] = i
  BY <1>2
<1>4. Entry(e) = freelist[t][c][i]
  BY <1>3 DEF Entry
<1>5. freelist[t][c][i] \in BlockType /\ Sound(freelist[t][c][i], c)
  BY ListTypes DEF AllSound
<1>6. QED
  BY <1>2, <1>3, <1>4, <1>5

LEMMA NoOverlapHolds == IInv => NoOverlap
<1> SUFFICES ASSUME IInv PROVE NoOverlap
  OBVIOUS
<1>1. Types /\ AllSound /\ AllApart /\ capacity \in Nat /\ live \subseteq BlockType
  BY DEF IInv, Types
<1>2. \A b, d \in live : b # d => Extent(b) \cap Extent(d) = {}
  BY <1>1, ApartDisjoint DEF AllApart
<1>3. \A b \in live, e \in Entries : Extent(b) \cap Extent(Entry(e)) = {}
  <2> SUFFICES ASSUME NEW b \in live, NEW e \in Entries
               PROVE  Extent(b) \cap Extent(Entry(e)) = {}
    OBVIOUS
  <2>1. /\ e[1] \in Thread /\ e[2] \in Class /\ e[3] \in 1..Len(freelist[e[1]][e[2]])
        /\ Entry(e) \in BlockType
    BY <1>1, EntryFacts
  <2>2. Apart(b, freelist[e[1]][e[2]][e[3]])
    BY <1>1, <2>1 DEF AllApart
  <2>3. Apart(b, Entry(e)) /\ b \in BlockType
    BY <1>1, <2>2 DEF Entry
  <2>4. QED
    BY <1>1, <2>1, <2>3, ApartDisjoint
<1>4. \A e, f \in Entries : e # f => Extent(Entry(e)) \cap Extent(Entry(f)) = {}
  <2> SUFFICES ASSUME NEW e \in Entries, NEW f \in Entries, e # f
               PROVE  Extent(Entry(e)) \cap Extent(Entry(f)) = {}
    OBVIOUS
  <2>1. /\ e[1] \in Thread /\ e[2] \in Class /\ e[3] \in 1..Len(freelist[e[1]][e[2]])
        /\ Entry(e) \in BlockType /\ e = <<e[1], e[2], e[3]>>
    BY <1>1, EntryFacts
  <2>2. /\ f[1] \in Thread /\ f[2] \in Class /\ f[3] \in 1..Len(freelist[f[1]][f[2]])
        /\ Entry(f) \in BlockType /\ f = <<f[1], f[2], f[3]>>
    BY <1>1, EntryFacts
  <2>3. ~(e[1] = f[1] /\ e[2] = f[2] /\ e[3] = f[3])
    BY <2>1, <2>2, Zenon
  <2>4. Apart(freelist[e[1]][e[2]][e[3]], freelist[f[1]][f[2]][f[3]])
    BY <1>1, <2>1, <2>2, <2>3 DEF AllApart
  <2>5. Apart(Entry(e), Entry(f))
    BY <2>4 DEF Entry
  <2>6. QED
    BY <1>1, <2>1, <2>2, <2>5, ApartDisjoint
<1>5. QED
  BY <1>2, <1>3, <1>4 DEF NoOverlap

LEMMA BlocksOKHolds == IInv => BlocksOK
<1> SUFFICES ASSUME IInv PROVE BlocksOK
  OBVIOUS
<1>1. Types /\ AllSound /\ BitsTell
  BY DEF IInv
<1>2. TypeOK
  <2>1. \A t \in Thread, c \in Class : freelist[t][c] \in Seq(BlockType)
    BY <1>1, ListTypes
  <2>2. \A t \in Thread, c \in Class : nonempty[t][c] \in BOOLEAN
    BY <1>1 DEF Types
  <2>3. \A t \in Thread : /\ pc[t] \in {"idle", "cut", "gone"} /\ want[t] \in Requests
                          /\ seen[t] \in 0..capacity
    BY <1>1 DEF Types
  <2>4. /\ capacity \in Nat /\ head \in 0..capacity /\ live \subseteq BlockType
        /\ data \subseteq 0..(capacity - 1)
    BY <1>1 DEF Types
  <2>5. QED
    BY <2>1, <2>2, <2>3, <2>4, Zenon DEF TypeOK
<1>3. Satisfied
  <2> SUFFICES ASSUME NEW b \in live
               PROVE  /\ Asked(b) \subseteq Extent(b) /\ b.at % Alignment = 0
                      /\ b.at + b.size <= region[2]
    BY DEF Satisfied
  <2>1. Asked(b) \subseteq Extent(b)
    BY <1>1, AskedInside
  <2>2. QED
    BY <1>1, <2>1 DEF Types, AllSound, Sound
<1>4. FreedWhereSought
  <2> SUFFICES ASSUME NEW e \in Entries
               PROVE  e[2] = SlabClass(Rounded(Entry(e).req[1]))
    BY DEF FreedWhereSought
  <2>1. Sound(Entry(e), e[2])
    BY <1>1, EntryFacts
  <2>2. QED
    BY <2>1 DEF Sound, ClassOf
<1>5. QED
  BY <1>1, <1>2, <1>3, <1>4, Zenon DEF BlocksOK

-----------------------------------------------------------------------------
(* Theorems.                                                                *)

\* No byte belongs to two blocks, held or freed, whatever threads cut, free and
\* reuse at the same time (do_allocate, do_deallocate).
THEOREM BlocksNeverOverlap == Spec => []NoOverlap
<1>1. QED
  BY Invariance, NoOverlapHolds, PTL

\* Blocks satisfy their requests, alignments_ tells the truth and freed blocks wait
\* where do_allocate looks for them.
THEOREM BlocksAreRight == Spec => []BlocksOK
<1>1. QED
  BY Invariance, BlocksOKHolds, PTL

\* What memset clears is the block that is handed out again, to the byte.
LEMMA ClearedExactly ==
    ASSUME IInv, NEW t \in Thread, NEW req \in Requests, Reuse(t, req)
    PROVE  LET c == ClassOf(req)  b == Head(freelist[t][c]) IN
           /\ b \in BlockType /\ Cleared(b, c) = Extent(b)
           /\ \A d \in live : Extent(d) \cap Extent(b) = {}
           /\ Asked(Block(b.at, b.size, req)) \subseteq Extent(b)
<1> DEFINE c == ClassOf(req)  s == freelist[t][c]  b == Head(s)
<1>1. Types /\ AllApart /\ capacity \in Nat /\ live \subseteq BlockType
  BY DEF IInv, Types
<1>2. /\ req \in Served /\ c \in Class /\ b \in BlockType /\ b = s[1] /\ 1 \in 1..Len(s)
      /\ Sound(b, c)
  BY ReuseBlock
<1>3. Cleared(b, c) = Extent(b)
  BY <1>2 DEF Sound, Cleared, Extent
<1>4. \A d \in live : Apart(d, s[1])
  BY <1>1, <1>2 DEF AllApart
<1> HIDE DEF c, b
<1>5. \A d \in live : Extent(d) \cap Extent(b) = {}
  BY <1>1, <1>2, <1>4, ApartDisjoint
<1>6. Asked(Block(b.at, b.size, req)) \subseteq Extent(b)
  <2>1. b.size = Rounded(req[1])
    BY <1>2, ServedFits DEF Sound, c
  <2>2. b.at \in Nat /\ b.size \in Nat
    BY <1>1, <1>2, BlockFields
  <2>3. req[1] \in Nat \ {0} /\ req[1] <= b.size
    BY <2>1, RequestTypes
  <2>4. Asked(Block(b.at, b.size, req)) = b.at .. (b.at + req[1] - 1)
    BY DEF Asked, Block
  <2>5. QED
    BY <2>2, <2>3, <2>4 DEF Extent
<1>7. QED
  BY <1>2, <1>3, <1>5, <1>6 DEF c, b

\* One step of ClearsWhatItReuses.
StepKeeps == \A b \in live \cap live' : Asked(b) \cap data \subseteq data'
StepClears == head' = head => \A b \in live' \ live : Asked(b) \cap data' = {}

LEMMA StepOK == IInv /\ [Next]_vars => StepKeeps /\ StepClears
<1> SUFFICES ASSUME IInv, [Next]_vars PROVE StepKeeps /\ StepClears
  OBVIOUS
<1>1. Types /\ AllSound
  BY DEF IInv
<1>2. ASSUME NEW x \in RegionSizes, NEW huge \in HugePages, Construct(x, huge)
      PROVE  StepKeeps /\ StepClears
  <2>1. live = {}
    BY <1>1, <1>2, NoBlocks DEF Construct
  <2>2. live' = {}
    BY <1>2, <2>1 DEF Construct, Abort
  <2>3. QED
    BY <2>1, <2>2 DEF StepKeeps, StepClears
<1>3. ASSUME NEW t \in Thread, NEW req \in Requests, Reuse(t, req)
      PROVE  StepKeeps /\ StepClears
  <2> DEFINE c == ClassOf(req)  b == Head(freelist[t][c])  nb == Block(b.at, b.size, req)
  <2>1. data' = data \ Cleared(b, c) /\ live' = live \cup {nb}
    BY <1>3 DEF Reuse, ClassOf
  <2>2. /\ Cleared(b, c) = Extent(b) /\ \A d \in live : Extent(d) \cap Extent(b) = {}
        /\ Asked(nb) \subseteq Extent(b)
    BY <1>3, ClearedExactly
  <2> HIDE DEF b, c, nb
  <2>3. \A d \in live : Asked(d) \subseteq Extent(d)
    BY <1>1, AskedInside
  <2>4. StepKeeps
    BY <2>1, <2>2, <2>3 DEF StepKeeps
  <2>5. StepClears
    BY <2>1, <2>2 DEF StepClears
  <2>6. QED
    BY <2>4, <2>5
<1>4. ASSUME NEW t \in Thread, Cut(t) PROVE StepKeeps /\ StepClears
  <2>1. head' = NewAt(t) /\ data' = data
    BY <1>4 DEF Cut
  <2>2. NewAt(t) \in Nat /\ Rounded(want[t][1]) \in Nat \ {0}
        /\ NewAt(t) + Rounded(want[t][1]) <= head
    BY <1>4, CutBlock
  <2>3. head \in Nat
    BY <1>1 DEF Types
  <2>4. head' # head
    BY <2>1, <2>2, <2>3
  <2>5. QED
    BY <2>1, <2>4 DEF StepKeeps, StepClears
<1>5. ASSUME NEW t \in Thread, NEW req \in Requests, AllocateTooLong(t, req)
      PROVE  StepKeeps /\ StepClears
  BY <1>5 DEF AllocateTooLong, Abort, StepKeeps, StepClears
<1>6. ASSUME NEW t \in Thread,
             \/ \E req \in Requests : ReadHead(t, req)
             \/ CutAgain(t) \/ OutOfMemory(t) \/ ThreadExit(t)
             \/ \E b \in live : Deallocate(t, b)
      PROVE  StepKeeps /\ StepClears
  <2>1. data' = data /\ live' \subseteq live
    BY <1>6 DEF ReadHead, CutAgain, OutOfMemory, ThreadExit, Deallocate
  <2>2. QED
    BY <2>1 DEF StepKeeps, StepClears
<1>7. ASSUME NEW b \in live, Store(b) PROVE StepKeeps /\ StepClears
  BY <1>7 DEF Store, StepKeeps, StepClears
<1>8. CASE UNCHANGED vars
  BY <1>8 DEF vars, StepKeeps, StepClears
<1>9. QED
  BY <1>2, <1>3, <1>4, <1>5, <1>6, <1>7, <1>8 DEF Next

\* Clearing a reused block takes no data from a block that somebody keeps, and
\* leaves none in the block (the memset of do_allocate).
THEOREM MemsetClearsTheBlock == Spec => ClearsWhatItReuses
<1>1. IInv /\ [Next]_vars => [StepKeeps]_vars /\ [StepClears]_vars
  BY StepOK
<1>2. Spec => [][StepKeeps]_vars /\ [][StepClears]_vars
  BY <1>1, Invariance, PTL DEF Spec
<1>3. QED
  BY <1>2 DEF ClearsWhatItReuses, DataIsKept, ReusedIsClear, StepKeeps, StepClears
=============================================================================
