----------------------------- MODULE MemoryPool -----------------------------
(***************************************************************************)
(* The thread_local pool that fiber stacks come from (dispatcher.hpp,      *)
(* MemoryPool, GetMemoryPool, CustomStackAllocator).  All blocks have one  *)
(* size, so a block is just a number: the n-th block obtained from malloc  *)
(* is block n.  A stack context s holds block sp[s], or no block (0).      *)
(*                                                                         *)
(* The pool lives as long as its thread's thread_local objects: it is      *)
(* constructed by the first call of GetMemoryPool() and destroyed at       *)
(* thread exit.  A block given back after that touches a destroyed queue,  *)
(* which C++ leaves undefined: `overrun` records that it happened.         *)
(***************************************************************************)
EXTENDS Naturals, Sequences, Functions

CONSTANTS Stacks,      \* the stack contexts, one per fiber ever launched
          HeapBlocks   \* how many blocks malloc can supply (bound)

ASSUME HeapBlocksAssumption == HeapBlocks \in Nat \ {0}

VARIABLES allocated_blocks,  \* the queue of blocks that wait to be reused
          mallocs,           \* number of blocks obtained from malloc
          sp,                \* sp[s]: the block s runs on, 0 if none
          freed,             \* blocks handed to std::free by ~MemoryPool
          lifetime,          \* "unborn", "alive" or "destroyed"
          overrun            \* a block came back to a destroyed pool

poolVars == <<allocated_blocks, mallocs, sp, freed, lifetime, overrun>>

Blocks == 1..HeapBlocks

PoolInit ==
  /\ allocated_blocks = <<>>
  /\ mallocs = 0
  /\ sp = [s \in Stacks |-> 0]
  /\ freed = {}
  /\ lifetime = "unborn"
  /\ overrun = FALSE

-----------------------------------------------------------------------------
\* MemoryPool::allocate when a returned block is waiting: reuse the oldest.
ReuseNoPop(s) ==   \* mutant: the block stays in the queue
  /\ allocated_blocks # <<>>
  /\ sp' = [sp EXCEPT ![s] = Head(allocated_blocks)]
  /\ UNCHANGED <<allocated_blocks, mallocs>>

Reuse(s) ==
  /\ allocated_blocks # <<>>
  /\ sp' = [sp EXCEPT ![s] = Head(allocated_blocks)]
  /\ allocated_blocks' = Tail(allocated_blocks)
  /\ UNCHANGED mallocs

\* MemoryPool::allocate when none is waiting and malloc succeeds.
MallocUnchecked(s) ==   \* mutant: the result of malloc is not tested
  /\ allocated_blocks = <<>>
  /\ mallocs' = mallocs + 1
  /\ sp' = [sp EXCEPT ![s] = mallocs + 1]
  /\ UNCHANGED allocated_blocks

Malloc(s) ==
  /\ allocated_blocks = <<>>
  /\ mallocs < HeapBlocks
  /\ mallocs' = mallocs + 1
  /\ sp' = [sp EXCEPT ![s] = mallocs + 1]
  /\ UNCHANGED allocated_blocks

\* CustomStackAllocator::allocate; the first use constructs the pool.
Allocate(s) ==
  /\ lifetime # "destroyed"
  /\ sp[s] = 0
  /\ lifetime' = "alive"
  /\ Reuse(s) \/ Malloc(s)
  /\ UNCHANGED <<freed, overrun>>

\* The branch of MemoryPool::allocate that throws std::bad_alloc.
AllocateThrows ==
  /\ lifetime # "destroyed"
  /\ allocated_blocks = <<>>
  /\ mallocs = HeapBlocks

\* CustomStackAllocator::deallocate on a live pool.
DeallocateDrops(s) ==   \* mutant: the block is not queued for reuse
  /\ sp[s] # 0
  /\ lifetime = "alive"
  /\ sp' = [sp EXCEPT ![s] = 0]
  /\ UNCHANGED <<allocated_blocks, mallocs, freed, lifetime, overrun>>

Deallocate(s) ==
  /\ sp[s] # 0
  /\ lifetime = "alive"
  /\ allocated_blocks' = Append(allocated_blocks, sp[s])
  /\ sp' = [sp EXCEPT ![s] = 0]
  /\ UNCHANGED <<mallocs, freed, lifetime, overrun>>

\* CustomStackAllocator::deallocate after the pool's destructor has run.
DeallocateLate(s) ==
  /\ sp[s] # 0
  /\ lifetime = "destroyed"
  /\ overrun' = TRUE
  /\ sp' = [sp EXCEPT ![s] = 0]
  /\ UNCHANGED <<allocated_blocks, mallocs, freed, lifetime>>

\* ~MemoryPool: the loop pops every waiting block and frees it.
Destroy ==
  /\ lifetime = "alive"
  /\ lifetime' = "destroyed"
  /\ freed' = freed \cup Range(allocated_blocks)
  /\ allocated_blocks' = <<>>
  /\ UNCHANGED <<mallocs, sp, overrun>>

PoolNext ==
  \/ \E s \in Stacks : Allocate(s) \/ Deallocate(s) \/ DeallocateLate(s)
  \/ Destroy

PoolSpec == PoolInit /\ [][PoolNext]_poolVars

-----------------------------------------------------------------------------
PoolTypeOK ==
  /\ allocated_blocks \in Seq(Blocks)
  /\ mallocs \in 0..HeapBlocks
  /\ sp \in [Stacks -> 0..HeapBlocks]
  /\ freed \subseteq Blocks
  /\ lifetime \in {"unborn", "alive", "destroyed"}
  /\ overrun \in BOOLEAN

InUse == {sp[s] : s \in Stacks} \ {0}

\* Two fibers never run on one stack, and a block that waits for reuse or was
\* given to std::free is under no fiber and is not queued twice (allocate pops
\* exactly what it hands out, free pushes exactly what came back).
NoSharedBlock ==
  /\ \A s, t \in Stacks : sp[s] = sp[t] /\ sp[s] # 0 => s = t
  /\ IsInjective(allocated_blocks)
  /\ Range(allocated_blocks) \cap InUse = {}
  /\ freed \cap (InUse \cup Range(allocated_blocks)) = {}

\* Until a block comes back to a destroyed pool, each block malloc returned is
\* under a fiber, waiting for reuse, or freed: none is leaked.
NoBlockLost ==
  ~overrun => 1..mallocs = InUse \cup Range(allocated_blocks) \cup freed

\* The inductive invariant: no block is known that malloc has not returned, so
\* the next block of malloc is a new one; and only a destroyed pool has freed
\* blocks or was handed one too late.
PoolInv ==
  /\ PoolTypeOK
  /\ NoSharedBlock
  /\ NoBlockLost
  /\ lifetime # "destroyed" => freed = {} /\ ~overrun
  /\ InUse \cup Range(allocated_blocks) \cup freed \subseteq 1..mallocs
=============================================================================
