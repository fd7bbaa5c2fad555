-------------------------- MODULE MCSlabAllocator --------------------------
(***************************************************************************)
(* Instances of SlabAllocator for TLC.  Four bytes stand for the 64 of     *)
(* rdma_allocator.  Two bytes stand for the uint64_t of temp_lock and      *)
(* temp_ptr, which destroy gives back as eight of them; the other requests *)
(* are those of E-Lists and P-Lists, powers of two.                        *)
(***************************************************************************)
EXTENDS SlabAllocator

MCRequests == {<<2, 4>>, <<8, 8>>, <<16, 16>>}
=============================================================================
