--------------------------- MODULE SlabAllocator ---------------------------
(***************************************************************************)
(* The registered memory of a node and the allocator in it: RdmaMemory,    *)
(* rdma_memory_resource and rdma_allocator.                                *)
(*                                                                         *)
(* New blocks are cut from the top of the memory down, by a loop of        *)
(* compare-and-swaps on head_.  Freed blocks go to a list of the freeing   *)
(* thread, by slab class, and are taken from there first.  alignments_ is  *)
(* one bit per list here, because rdma_allocator always asks for the same  *)
(* alignment.                                                              *)
(*                                                                         *)
(* Addresses are offsets from the beginning of the memory, which is        *)
(* aligned.  What is stored is one bit per byte: whether it holds data.    *)
(***************************************************************************)
EXTENDS Integers, Sequences

CONSTANTS
    Thread,         \* application threads
    Requests,       \* <<bytes allocated, bytes given back>> of the callers
    Alignment,      \* what rdma_allocator asks for, a power of two
    kMinSlabClass,
    kMaxSlabClass,
    Word,           \* sizeof(uint64_t), which MemoryPool::Init adds
    UintBits,       \* width of int and of the uint32_t capacity of Init
    HugePages,      \* whether there may be huge pages, or none
    RegionSizes     \* exponents of the capacities that callers ask for

ASSUME SlabAssumption ==
    /\ Requests \subseteq (Nat \ {0}) \X (Nat \ {0}) /\ Requests # {}
    /\ Alignment \in Nat \ {0}
    /\ kMinSlabClass \in Nat /\ kMaxSlabClass \in Nat
    /\ Word \in Nat /\ UintBits \in Nat /\ RegionSizes \subseteq Nat
    /\ HugePages \subseteq BOOLEAN

VARIABLES
    capacity,   \* capacity_, 0 before the memory exists
    region,     \* the default one of memory_regions_: <<offset, length>>
    head,       \* head_
    freelist,   \* freelists_ of a thread
    nonempty,   \* alignments_ of a thread
    pc,         \* where a thread is
    want,       \* the request that a thread is serving
    seen,       \* __e
    live,       \* blocks in the hands of the callers
    data,       \* bytes that hold data
    fatal       \* the assertion that failed, "" when none did

local == <<pc, want, seen>>
vars == <<capacity, region, head, freelist, nonempty, local, live, data, fatal>>

Class == kMinSlabClass..kMaxSlabClass
NoRequest == CHOOSE r \in Requests : TRUE

\* A block: where it is, how long it really is and which request it serves.
Block(at, size, req) == [at |-> at, size |-> size, req |-> req]
Extent(b) == b.at .. (b.at + b.size - 1)
Asked(b) == b.at .. (b.at + b.req[1] - 1)

-----------------------------------------------------------------------------
\* Conversion of a size to int.
ToInt(x) == LET y == x % 2^UintBits
            IN IF y < 2^(UintBits - 1) THEN y ELSE y - 2^UintBits

\* Both are int; a sum that overflows is negative, and a huge unsigned number.
ValidateRegion(offset, length, cap) ==
    /\ offset >= 0 /\ length >= 0
    /\ ToInt(offset + length) >= 0
    /\ offset + length <= cap

\* kLogTable, looked up byte by byte.
FloorLog2(x) == CHOOSE r \in 0..x : 2^r <= x /\ x < 2^(r + 1)

UpperLog2(x) == LET r == FloorLog2(x) IN IF 2^r < x THEN r + 1 ELSE r

Larger(a, b) == IF a > b THEN a ELSE b

\* A request is at least as long as its alignment, but not when it is freed.
Rounded(bytes) == Larger(bytes, Alignment)
SlabClass(bytes) == Larger(kMinSlabClass, UpperLog2(bytes))
\* Mutant: callers give back the bytes they asked for.
FreeClassAsked(req) == SlabClass(req[1])
FreeClass(req) == SlabClass(req[2])

AlignDown(x) == x - (x % Alignment)

\* All callers ask for powers of two (E-Lists, P-Lists and single words), and what
\* they give back is what they asked for, raised to the alignment.
ASSUME CallersAssumption ==
    \A req \in Requests :
        LET c == SlabClass(Rounded(req[1])) IN
        /\ c \in Nat /\ c >= kMinSlabClass
        /\ c <= kMaxSlabClass => /\ Rounded(req[1]) = 2^c
                                 /\ Rounded(req[1]) % Alignment = 0
                                 /\ SlabClass(req[2]) = c

-----------------------------------------------------------------------------
Init ==
    /\ capacity = 0 /\ region = <<0, 0>> /\ head = 0
    /\ freelist = [t \in Thread |-> [c \in Class |-> <<>>]]
    /\ nonempty = [t \in Thread |-> [c \in Class |-> FALSE]]
    /\ pc = [t \in Thread |-> "idle"]
    /\ want = [t \in Thread |-> NoRequest]
    /\ seen = [t \in Thread |-> 0]
    /\ live = {} /\ data = {} /\ fatal = ""

Running == capacity > 0 /\ fatal = ""

\* A failed assertion ends the process, and everything in it.
Abort(message) ==
    /\ capacity' = 0 /\ region' = <<0, 0>> /\ head' = 0
    /\ freelist' = [t \in Thread |-> [c \in Class |-> <<>>]]
    /\ nonempty' = [t \in Thread |-> [c \in Class |-> FALSE]]
    /\ pc' = [t \in Thread |-> "gone"]
    /\ want' = [t \in Thread |-> NoRequest]
    /\ seen' = [t \in Thread |-> 0]
    /\ live' = {} /\ data' = {} /\ fatal' = message

\* The memory that MemoryPool::Init asks for: a uint32_t, and a word more.
Requested(x) == (2^x % 2^UintBits) + Word

\* A power of two below 2^UintBits is at most half of it, which leaves room for a word.
ASSUME CapacityAssumption ==
    /\ 2^UintBits \in Nat \ {0} /\ 2^(UintBits - 1) \in Nat
    /\ \A x \in RegionSizes : Requested(x) \in 0 .. (2^UintBits - 1)

\* Memory of the system allocator may hold anything, huge pages hold zeros.
Contents(cap, huge) == IF huge THEN {} ELSE 0..(cap - 1)

\* RegisterMemoryRegion for the whole memory, whose length becomes an int.
Registers(cap) == ValidateRegion(0, ToInt(cap), cap)

\* The memory is made, of huge pages if there are any, and registered.  The lists
\* of the threads are empty, so clearing the bits of the calling one changes
\* nothing.
Construct(x, huge) ==
    LET cap == Requested(x)
    IN /\ capacity = 0 /\ fatal = ""
       /\ \/ /\ Registers(cap)
             /\ capacity' = cap /\ head' = cap
             /\ region' = <<0, ToInt(cap)>>
             /\ data' = Contents(cap, huge)
             /\ UNCHANGED <<freelist, nonempty, local, live, fatal>>
          \/ /\ ~Registers(cap)
             /\ Abort("Requested memory region invalid")

-----------------------------------------------------------------------------
\* Mutant: one byte too many is cleared.
ClearedBeyond(b, c) == b.at .. (b.at + 2^c)

\* What memset clears: the size of the class, whatever the block's is.
Cleared(b, c) == b.at .. (b.at + 2^c - 1)

\* do_allocate finds a block of the class: the first one, since all have the
\* same alignment.
Reuse(t, req) ==
    LET c == SlabClass(Rounded(req[1]))
        b == Head(freelist[t][c])
        left == Tail(freelist[t][c])
    IN /\ Running /\ pc[t] = "idle"
       /\ c <= kMaxSlabClass
       /\ nonempty[t][c]
       /\ freelist[t][c] # <<>>
       /\ freelist' = [freelist EXCEPT ![t][c] = left]
       /\ nonempty' = [nonempty EXCEPT ![t][c] = (left # <<>>)]
       /\ data' = data \ Cleared(b, c)
       /\ live' = live \cup {Block(b.at, b.size, req)}
       /\ UNCHANGED <<capacity, region, head, local, fatal>>

\* do_allocate finds none and reads head_.
ReadHead(t, req) ==
    LET c == SlabClass(Rounded(req[1]))
    IN /\ Running /\ pc[t] = "idle"
       /\ c <= kMaxSlabClass
       /\ nonempty[t][c] => freelist[t][c] = <<>>
       /\ pc' = [pc EXCEPT ![t] = "cut"]
       /\ want' = [want EXCEPT ![t] = req]
       /\ seen' = [seen EXCEPT ![t] = head]
       /\ UNCHANGED <<capacity, region, head, freelist, nonempty, live, data, fatal>>

\* There is no list for so long a block.
AllocateTooLong(t, req) ==
    /\ Running /\ pc[t] = "idle"
    /\ SlabClass(Rounded(req[1])) > kMaxSlabClass
    /\ Abort("Invalid allocation requested")

\* __d: the new block ends at an aligned address.
NewAt(t) == AlignDown(seen[t]) - Rounded(want[t][1])

Return(t) == /\ pc' = [pc EXCEPT ![t] = "idle"]
             /\ want' = [want EXCEPT ![t] = NoRequest]
             /\ seen' = [seen EXCEPT ![t] = 0]

Fits(t) == NewAt(t) >= 0

\* Mutants: head_ is stored without a comparison; what was seen is not renewed.
StoreHead(t) ==
    /\ pc[t] = "cut" /\ Fits(t)
    /\ head' = NewAt(t)
    /\ live' = live \cup {Block(NewAt(t), Rounded(want[t][1]), want[t])}
    /\ Return(t)
    /\ UNCHANGED <<capacity, region, freelist, nonempty, data, fatal>>
RetryStale(t) == /\ pc[t] = "cut" /\ Fits(t) /\ head # seen[t]
                 /\ UNCHANGED vars

\* compare_exchange_strong succeeds: the block is the caller's.
Cut(t) ==
    /\ pc[t] = "cut" /\ Fits(t)
    /\ head = seen[t]
    /\ head' = NewAt(t)
    /\ live' = live \cup {Block(NewAt(t), Rounded(want[t][1]), want[t])}
    /\ Return(t)
    /\ UNCHANGED <<capacity, region, freelist, nonempty, data, fatal>>

\* It fails and loads head_ for the next round.
CutAgain(t) ==
    /\ pc[t] = "cut" /\ Fits(t)
    /\ head # seen[t]
    /\ seen' = [seen EXCEPT ![t] = head]
    /\ UNCHANGED <<capacity, region, head, freelist, nonempty, pc, want, live, data, fatal>>

\* "OOM!": the call returns nullptr.
OutOfMemory(t) ==
    /\ pc[t] = "cut" /\ ~Fits(t)
    /\ Return(t)
    /\ UNCHANGED <<capacity, region, head, freelist, nonempty, live, data, fatal>>

-----------------------------------------------------------------------------
\* do_deallocate, by any thread that holds the block.
Deallocate(t, b) ==
    LET c == FreeClass(b.req)
    IN /\ Running /\ pc[t] = "idle"
       /\ freelist' = [freelist EXCEPT ![t][c] = Append(@, b)]
       /\ nonempty' = [nonempty EXCEPT ![t][c] = TRUE]
       /\ live' = live \ {b}
       /\ UNCHANGED <<capacity, region, head, local, data, fatal>>

\* The caller stores into its block.
Store(b) ==
    /\ Running
    /\ data' = data \cup Asked(b)
    /\ UNCHANGED <<capacity, region, head, freelist, nonempty, local, live, fatal>>

\* A thread ends, and its lists with it: their blocks are lost.
ThreadExit(t) ==
    /\ Running /\ pc[t] = "idle"
    /\ pc' = [pc EXCEPT ![t] = "gone"]
    /\ freelist' = [freelist EXCEPT ![t] = [c \in Class |-> <<>>]]
    /\ nonempty' = [nonempty EXCEPT ![t] = [c \in Class |-> FALSE]]
    /\ UNCHANGED <<capacity, region, head, want, seen, live, data, fatal>>

Next ==
    \/ \E x \in RegionSizes, huge \in HugePages : Construct(x, huge)
    \/ \E t \in Thread :
         \/ \E req \in Requests : Reuse(t, req) \/ ReadHead(t, req) \/ AllocateTooLong(t, req)
         \/ Cut(t) \/ CutAgain(t) \/ OutOfMemory(t)
         \/ \E b \in live : Deallocate(t, b)
         \/ ThreadExit(t)
    \/ \E b \in live : Store(b)

Spec == Init /\ [][Next]_vars

\* A thread inside the loop goes on.
FairSpec == Spec /\ \A t \in Thread : WF_vars(Cut(t) \/ CutAgain(t) \/ OutOfMemory(t))

-----------------------------------------------------------------------------
(* Properties.                                                              *)

Entries == UNION {{<<t, c, i>> : i \in DOMAIN freelist[t][c]} : t \in Thread, c \in Class}
Entry(e) == freelist[e[1]][e[2]][e[3]]

BlockType == [at : 0..capacity, size : Nat \ {0}, req : Requests]

TypeOK ==
    /\ capacity \in Nat /\ head \in 0..capacity
    /\ \A t \in Thread, c \in Class :
         freelist[t][c] \in Seq(BlockType) /\ nonempty[t][c] \in BOOLEAN
    /\ \A t \in Thread : /\ pc[t] \in {"idle", "cut", "gone"}
                          /\ want[t] \in Requests
                          /\ seen[t] \in 0..capacity
    /\ live \subseteq BlockType
    /\ data \subseteq 0..(capacity - 1)

\* No byte belongs to two blocks, whether callers hold them or they wait in the
\* lists of whatever threads, although threads cut blocks at the same time and
\* free what others allocated.
NoOverlap ==
    /\ \A b, d \in live : b # d => Extent(b) \cap Extent(d) = {}
    /\ \A b \in live, e \in Entries : Extent(b) \cap Extent(Entry(e)) = {}
    /\ \A e, f \in Entries : e # f => Extent(Entry(e)) \cap Extent(Entry(f)) = {}

\* do_allocate "Returns a region of RDMA-accessible memory that satisfies the
\* given memory allocation request of `bytes` with `alignment`": long enough,
\* aligned and inside the region that is registered with the adapter.
Satisfied ==
    \A b \in live : /\ Asked(b) \subseteq Extent(b)
                    /\ b.at % Alignment = 0
                    /\ b.at + b.size <= region[2]

\* alignments_ says of every list whether there is a block in it, so that the
\* search of a list that it announces finds one, and none is forgotten.
BitsTell ==
    \A t \in Thread, c \in Class : nonempty[t][c] <=> freelist[t][c] # <<>>

\* A freed block waits in the list in which the request it served would look:
\* do_deallocate does not raise the size to the alignment, as do_allocate does,
\* so this rests on what the callers give back.
FreedWhereSought ==
    \A e \in Entries : e[2] = SlabClass(Rounded(Entry(e).req[1]))

\* What allocation and release rely on: blocks satisfy their requests, alignments_
\* tells the truth about the lists, and freed blocks can be found again.
BlocksOK == TypeOK /\ Satisfied /\ BitsTell /\ FreedWhereSought

\* No step takes data out of a block that a caller keeps: not the clearing of a
\* block that is reused, either.
DataIsKept ==
    [][\A b \in live \cap live' : Asked(b) \cap data \subseteq data']_vars

\* A block that comes from a list is clear when the caller gets it.
ReusedIsClear ==
    [][head' = head => \A b \in live' \ live : Asked(b) \cap data' = {}]_vars

\* memset clears what is handed out again, and nothing that somebody keeps.
ClearsWhatItReuses == DataIsKept /\ ReusedIsClear

\* The loop ends for everybody: whoever fails lost to a thread that took memory,
\* memory is never put back under head_, and there is only so much of it.
AllocationReturns ==
    \A t \in Thread : pc[t] = "cut" ~> pc[t] # "cut"
=============================================================================
