-------------------------- MODULE MemoryPoolProofs --------------------------
(***************************************************************************)
(* The safety of the stack pool for any number of fibers and heap blocks.  *)
(* PoolInv (MemoryPool.tla) is inductive: one lemma per operation, because *)
(* EventLoopProofs uses them for the steps of the event loop.              *)
(***************************************************************************)
EXTENDS MemoryPool, SequenceLemmas

\* The new pool satisfies the invariant.
LEMMA PoolInitInv == PoolInit => PoolInv
<1> SUFFICES ASSUME PoolInit PROVE PoolInv
  OBVIOUS
<1> USE DEF PoolInit
<1>1. Range(allocated_blocks) = {} /\ IsInjective(allocated_blocks)
  BY DEF Range, IsInjective
<1>2. InUse = {}
  BY DEF InUse
<1>3. PoolTypeOK
  <2>1. /\ allocated_blocks \in Seq(Blocks)
        /\ 0 \in 0..HeapBlocks
    BY HeapBlocksAssumption, EmptySeq
  <2>2. overrun \in BOOLEAN
    OBVIOUS
  <2> QED
    BY <2>1, <2>2 DEF PoolTypeOK
<1> QED
  BY <1>1, <1>2, <1>3 DEF PoolInv, NoSharedBlock, NoBlockLost

\* MemoryPool::allocate hands out a block that no fiber has.
LEMMA AllocateInv ==
  ASSUME PoolInv, NEW s \in Stacks, Allocate(s)
  PROVE  PoolInv'
<1> USE DEF PoolInv, PoolTypeOK, NoSharedBlock, Blocks
<1>1. InUse' = InUse \cup {sp'[s]} /\ sp'[s] # 0
  <2>1. sp[s] = 0 /\ sp' = [sp EXCEPT ![s] = sp'[s]] /\ sp'[s] # 0
    BY HeadTailRange, HeapBlocksAssumption DEF Allocate, Reuse, Malloc
  <2> QED
    BY <2>1 DEF InUse
<1>2. CASE Reuse(s)
  <2> USE <1>2 DEF Reuse
  <2> DEFINE b == Head(allocated_blocks)
  <2>1. /\ b \in Blocks
        /\ allocated_blocks' \in Seq(Blocks)
        /\ Range(allocated_blocks) = {b} \cup Range(allocated_blocks')
    BY HeadTailRange
  <2>2. IsInjective(allocated_blocks') /\ b \notin Range(allocated_blocks')
    BY TailInjectiveQueue
  <2>3. b \notin InUse
    BY <2>1
  <2>4. sp' = [sp EXCEPT ![s] = b]
    OBVIOUS
  <2> HIDE DEF b
  <2>5. PoolTypeOK'
    BY <2>1, <2>4 DEF Allocate
  <2>6. \A u, t \in Stacks : sp'[u] = sp'[t] /\ sp'[u] # 0 => u = t
    BY <2>3, <2>4 DEF InUse
  <2>7. InUse' = InUse \cup {b}
    BY <1>1, <2>4
  <2>8. /\ mallocs' = mallocs /\ freed' = freed /\ overrun' = overrun
    BY DEF Allocate
  <2>9. NoSharedBlock'
    BY <2>1, <2>2, <2>3, <2>6, <2>7, <2>8
  <2>10. NoBlockLost'
    BY <2>1, <2>7, <2>8 DEF NoBlockLost
  <2>11. lifetime # "destroyed" /\ freed = {} /\ ~overrun
    BY DEF Allocate
  <2> QED
    BY <2>1, <2>5, <2>7, <2>8, <2>9, <2>10, <2>11
<1>3. CASE Malloc(s)
  <2> USE <1>3 DEF Malloc
  <2> DEFINE b == mallocs + 1
  <2>1. /\ b \in Blocks /\ b # 0
        /\ 1..b = 1..mallocs \cup {b} /\ b \notin 1..mallocs
    BY HeapBlocksAssumption
  <2>2. sp' = [sp EXCEPT ![s] = b] /\ mallocs' = b
    OBVIOUS
  <2> HIDE DEF b
  <2>3. b \notin InUse /\ b \notin Range(allocated_blocks) /\ b \notin freed
    BY <2>1
  <2>4. PoolTypeOK'
    BY <2>1, <2>2 DEF Allocate
  <2>5. \A u, t \in Stacks : sp'[u] = sp'[t] /\ sp'[u] # 0 => u = t
    BY <2>2, <2>3 DEF InUse
  <2>6. InUse' = InUse \cup {b}
    BY <1>1, <2>2
  <2>7. /\ allocated_blocks' = allocated_blocks
        /\ freed' = freed /\ overrun' = overrun
    BY DEF Allocate
  <2>8. NoSharedBlock'
    BY <2>3, <2>5, <2>6, <2>7
  <2>9. NoBlockLost'
    BY <2>1, <2>2, <2>6, <2>7 DEF NoBlockLost
  <2>10. lifetime # "destroyed" /\ freed = {} /\ ~overrun
    BY DEF Allocate
  <2>11. /\ PoolTypeOK' /\ NoSharedBlock' /\ NoBlockLost'
         /\ (lifetime # "destroyed" => freed = {} /\ ~overrun)'
    BY <2>4, <2>7, <2>8, <2>9, <2>10
  <2>12. (InUse \cup Range(allocated_blocks) \cup freed)' \subseteq 1..mallocs'
    BY <2>1, <2>2, <2>6, <2>7
  <2> QED
    BY <2>11, <2>12
<1> QED
  BY <1>2, <1>3 DEF Allocate

\* MemoryPool::free queues the block the fiber ran on, and the fiber loses it.
LEMMA DeallocateInv ==
  ASSUME PoolInv, NEW s \in Stacks, Deallocate(s)
  PROVE  PoolInv'
<1> USE DEF PoolInv, PoolTypeOK, NoSharedBlock
<1> DEFINE b == sp[s]
<1>1. b \in InUse /\ b \in Blocks
  BY DEF Deallocate, InUse, Blocks
<1>2. /\ allocated_blocks' = Append(allocated_blocks, b)
      /\ sp' = [sp EXCEPT ![s] = 0]
      /\ UNCHANGED <<mallocs, freed, lifetime, overrun>>
  BY DEF Deallocate
<1>3. InUse' = InUse \ {b}
  BY <1>1, <1>2 DEF InUse
<1> HIDE DEF b
<1>4. /\ allocated_blocks' \in Seq(Blocks)
      /\ Range(allocated_blocks') = Range(allocated_blocks) \cup {b}
      /\ IsInjective(allocated_blocks')
  <2>1. /\ b \notin Range(allocated_blocks) /\ b \in Blocks
        /\ allocated_blocks \in Seq(Blocks) /\ IsInjective(allocated_blocks)
    BY <1>1
  <2>2. IsInjective(Append(allocated_blocks, b))
    BY <2>1, AppendInjectiveQueue
  <2>3. Append(allocated_blocks, b) \in Seq(Blocks)
    BY <2>1, AppendProperties
  <2>4. Range(Append(allocated_blocks, b)) = Range(allocated_blocks) \cup {b}
    BY <2>1, RangeAppend
  <2> QED
    BY <1>2, <2>2, <2>3, <2>4
<1>5. PoolTypeOK'
  BY <1>2, <1>4, HeapBlocksAssumption
<1>6. \A u, t \in Stacks : sp'[u] = sp'[t] /\ sp'[u] # 0 => u = t
  BY <1>2
<1>7. NoSharedBlock'
  BY <1>1, <1>2, <1>3, <1>4, <1>6
<1>8. NoBlockLost'
  BY <1>1, <1>2, <1>3, <1>4 DEF NoBlockLost
<1> QED
  BY <1>1, <1>2, <1>3, <1>4, <1>5, <1>7, <1>8

\* A block given to a destroyed pool is lost, but shared by nobody.
LEMMA DeallocateLateInv ==
  ASSUME PoolInv, NEW s \in Stacks, DeallocateLate(s)
  PROVE  PoolInv'
<1> USE DEF PoolInv, PoolTypeOK, DeallocateLate
<1>1. InUse' \subseteq InUse
  BY DEF InUse
<1>2. PoolTypeOK'
  <2>1. sp' \in [Stacks -> 0..HeapBlocks]
    BY HeapBlocksAssumption
  <2>2. overrun' \in BOOLEAN
    OBVIOUS
  <2> QED
    BY <2>1, <2>2
<1>3. \A u, t \in Stacks : sp'[u] = sp'[t] /\ sp'[u] # 0 => u = t
  BY DEF NoSharedBlock
<1>4. NoSharedBlock'
  BY <1>1, <1>3 DEF NoSharedBlock
<1>5. NoBlockLost'
  BY DEF NoBlockLost
<1> QED
  BY <1>1, <1>2, <1>4, <1>5

\* ~MemoryPool frees exactly the blocks that wait for reuse.
LEMMA DestroyInv ==
  ASSUME PoolInv, Destroy
  PROVE  PoolInv'
<1> USE DEF PoolInv, PoolTypeOK, Destroy, Blocks
<1>1. InUse' = InUse
  BY DEF InUse
<1>2. allocated_blocks' \in Seq(Blocks) /\ Range(allocated_blocks') = {}
      /\ IsInjective(allocated_blocks')
  BY EmptySeq DEF Range, IsInjective
<1>3. Range(allocated_blocks) \subseteq 1..HeapBlocks
  BY RangeOfSeq
<1>4. PoolTypeOK'
  BY <1>2, <1>3
<1>5. NoSharedBlock'
  BY <1>1, <1>2 DEF NoSharedBlock
<1>6. NoBlockLost'
  BY <1>1, <1>2 DEF NoBlockLost
<1> QED
  BY <1>1, <1>2, <1>4, <1>5, <1>6

\* A step that leaves the pool alone leaves the invariant alone.
LEMMA PoolStutterInv ==
  ASSUME PoolInv, UNCHANGED poolVars
  PROVE  PoolInv'
BY DEF PoolInv, PoolTypeOK, NoSharedBlock, NoBlockLost, InUse, poolVars

\* Every step of the pool keeps the invariant.
LEMMA PoolStepInv ==
  ASSUME PoolInv, [PoolNext]_poolVars
  PROVE  PoolInv'
BY AllocateInv, DeallocateInv, DeallocateLateInv, DestroyInv, PoolStutterInv
   DEF PoolNext

\* The pool keeps its invariant for ever.
THEOREM PoolInvariance == PoolSpec => []PoolInv
BY PoolInitInv, PoolStepInv, PTL DEF PoolSpec

\* Every variable of the pool keeps its shape.
THEOREM PoolTypeCorrect == PoolSpec => []PoolTypeOK
<1>1. PoolInv => PoolTypeOK
  BY DEF PoolInv
<1> QED
  BY <1>1, PoolInvariance, PTL

\* No stack is ever under two fibers, nor reused or freed under one.
THEOREM StacksNeverShared == PoolSpec => []NoSharedBlock
<1>1. PoolInv => NoSharedBlock
  BY DEF PoolInv
<1> QED
  BY <1>1, PoolInvariance, PTL

\* No block is leaked while blocks come back to a live pool.
THEOREM NoStackLeaked == PoolSpec => []NoBlockLost
<1>1. PoolInv => NoBlockLost
  BY DEF PoolInv
<1> QED
  BY <1>1, PoolInvariance, PTL
=============================================================================
