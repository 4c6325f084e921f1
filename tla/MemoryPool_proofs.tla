-------------------------- MODULE MemoryPool_proofs --------------------------
(***************************************************************************)
(* Proofs about MemoryPool: when at most one thread allocates, the free    *)
(* list is sound whatever the number of releasing threads and of blocks.   *)
(* The inductive invariant is PoolInv; each action of Allocate and         *)
(* Deallocate has a lemma, with a step per conjunct.                       *)
(***************************************************************************)
EXTENDS MemoryPool, TLAPS

\* A pool starts with every block in pool_ and an empty free list.
LEMMA PoolInit == Init => PoolInv
  <1> SUFFICES ASSUME Init PROVE PoolInv
    OBVIOUS
  <1>1. Len(list) = 0 /\ list \in Seq(Blocks)
    BY DEF Init
  <1>2. TypeOK
    BY <1>1 DEF Init, TypeOK, Words
  <1>3. OneObjectPerBlock /\ FreeListIntact /\ NoBlockLost
    BY <1>1 DEF Init, OneObjectPerBlock, FreeListIntact, NoBlockLost
  <1>4. OnePlace /\ LocalsCurrent
    BY <1>1 DEF Init, OnePlace, LocalsCurrent, Listed, Releasing
  <1> QED
    BY <1>2, <1>3, <1>4 DEF PoolInv

\* The block Allocate loads from head_ is the newest of the free list.
LEMMA LoadStep ==
  ASSUME SingleAllocator, PoolInv, NEW t \in Threads, AllocateLoad(t)
  PROVE  PoolInv'
  <1> USE DEF Goto
  <1>0. TypeOK /\ OneObjectPerBlock /\ FreeListIntact /\ NoBlockLost /\ OnePlace /\ LocalsCurrent
    BY DEF PoolInv
  <1>1. /\ t \in Allocators /\ pc[t] = "idle" /\ block' = [block EXCEPT ![t] = head]
        /\ pc' = [pc EXCEPT ![t] = IF head = Null THEN "malloc" ELSE "next"]
        /\ UNCHANGED <<head, word, raw, live, link, list>>
    BY DEF AllocateLoad
  <1>2. TypeOK'
    BY <1>0, <1>1 DEF TypeOK
  <1>3. OneObjectPerBlock' /\ FreeListIntact'
    BY <1>0, <1>1 DEF OneObjectPerBlock, FreeListIntact
  <1>4. /\ pc'[t] = (IF head = Null THEN "malloc" ELSE "next") /\ block'[t] = head
        /\ \A u \in Threads : u # t => pc'[u] = pc[u] /\ block'[u] = block[u]
    BY <1>0, <1>1 DEF TypeOK
  <1>5. \A u \in Threads : (Releasing(u)' <=> Releasing(u)) /\ (Releasing(u) => block'[u] = block[u])
    BY <1>1, <1>4 DEF Releasing
  <1>6. NoBlockLost'
    BY <1>0, <1>1, <1>5 DEF NoBlockLost, Listed
  <1>7. OnePlace'
    BY <1>0, <1>1, <1>5 DEF OnePlace, Listed
  <1>8. head # Null => Len(list) \in 1 .. Len(list) /\ list[Len(list)] = head
    BY <1>0 DEF FreeListIntact, TypeOK
  <1>9. LocalsCurrent'
    BY <1>0, <1>1, <1>4, <1>8 DEF LocalsCurrent
  <1> QED
    BY <1>2, <1>3, <1>6, <1>7, <1>9 DEF PoolInv

\* The link Allocate reads is that of the block on the free list.
LEMMA NextStep ==
  ASSUME SingleAllocator, PoolInv, NEW t \in Threads, AllocateNext(t)
  PROVE  PoolInv'
  <1> USE DEF Goto
  <1>0. TypeOK /\ OneObjectPerBlock /\ FreeListIntact /\ NoBlockLost /\ OnePlace /\ LocalsCurrent
    BY DEF PoolInv
  <1>1. /\ pc[t] = "next" /\ block[t] \in Blocks
        /\ link' = [link EXCEPT ![t] = word[block[t]]] /\ pc' = [pc EXCEPT ![t] = "pop"]
        /\ UNCHANGED <<head, word, raw, live, block, list>>
    BY DEF AllocateNext
  <1>2. TypeOK'
    BY <1>0, <1>1 DEF TypeOK
  <1>3. OneObjectPerBlock' /\ FreeListIntact'
    BY <1>0, <1>1 DEF OneObjectPerBlock, FreeListIntact
  <1>4. /\ pc'[t] = "pop" /\ link'[t] = word[block[t]]
        /\ \A u \in Threads : u # t => pc'[u] = pc[u] /\ link'[u] = link[u]
    BY <1>0, <1>1 DEF TypeOK
  <1>5. \A u \in Threads : Releasing(u)' <=> Releasing(u)
    BY <1>1, <1>4 DEF Releasing
  <1>6. NoBlockLost' /\ OnePlace'
    BY <1>0, <1>1, <1>5 DEF NoBlockLost, OnePlace, Listed
  <1>7. LocalsCurrent'
    <2>1. PICK i \in 1 .. Len(list) : list[i] = block[t]
      BY <1>0, <1>1 DEF LocalsCurrent
    <2>2. word[block[t]] = IF i = 1 THEN Null ELSE list[i - 1]
      BY <1>0, <2>1 DEF FreeListIntact
    <2>3. t \in Allocators
      BY <1>0, <1>1 DEF LocalsCurrent
    <2> QED
      BY <1>0, <1>1, <1>4, <2>1, <2>2, <2>3 DEF LocalsCurrent
  <1> QED
    BY <1>2, <1>3, <1>6, <1>7 DEF PoolInv

\* The block Allocate pops is the newest, and the link it read is current:
\* nobody else could have popped it and pushed it back.
LEMMA PopStep ==
  ASSUME SingleAllocator, PoolInv, NEW t \in Threads, AllocatePop(t)
  PROVE  PoolInv'
  <1> USE AllocatorsAssumption, WordsAssumption DEF Goto
  <1>0. TypeOK /\ OneObjectPerBlock /\ FreeListIntact /\ NoBlockLost /\ OnePlace /\ LocalsCurrent
    BY DEF PoolInv
  <1>1. CASE ~PopSucceeds(t)
    <2> USE <1>0, <1>1 DEF AllocatePop, Construct
    <2>1. TypeOK'
      BY DEF TypeOK
    <2>2. OneObjectPerBlock' /\ FreeListIntact'
      BY DEF OneObjectPerBlock, FreeListIntact
    <2>3. \A u \in Threads : Releasing(u)' <=> Releasing(u)
      BY DEF TypeOK, Releasing
    <2>4. NoBlockLost' /\ OnePlace'
      BY <2>3 DEF NoBlockLost, OnePlace, Listed
    <2>5. LocalsCurrent'
      BY DEF TypeOK, LocalsCurrent
    <2> QED
      BY <2>1, <2>2, <2>4, <2>5 DEF PoolInv
  <1>2. CASE PopSucceeds(t)
    <2> DEFINE n == Len(list)
               b == block[t]
    <2>1. /\ pc[t] = "pop" /\ head = b /\ head' = link[t]
          /\ list' = SubSeq(list, 1, n - 1)
          /\ live' = [live EXCEPT ![b] = @ + 1] /\ word' = [word EXCEPT ![b] = Data]
          /\ pc' = [pc EXCEPT ![t] = "idle"]
          /\ UNCHANGED <<raw, block, link>>
      BY <1>2 DEF AllocatePop, PopSucceeds, Construct
    <2>2. PICK i \in 1 .. n : list[i] = b /\ link[t] = IF i = 1 THEN Null ELSE list[i - 1]
      BY <1>0, <2>1 DEF LocalsCurrent
    <2>3. n \in Nat /\ n > 0 /\ i = n /\ b \in Blocks /\ Listed(b)
      BY <1>0, <2>1, <2>2 DEF TypeOK, FreeListIntact, OnePlace, Listed
    <2>4. /\ list' \in Seq(Blocks) /\ Len(list') = n - 1
          /\ \A j \in 1 .. n - 1 : list'[j] = list[j] /\ list[j] # b
      BY <1>0, <2>1, <2>2, <2>3 DEF TypeOK, OnePlace
    <2>5. \A c \in Blocks : Listed(c)' <=> Listed(c) /\ c # b
      BY <2>2, <2>3, <2>4 DEF Listed
    <2>6. \A u \in Threads : Releasing(u)' <=> Releasing(u)
      BY <1>0, <2>1 DEF TypeOK, Releasing
    <2>7. live[b] = 0 /\ b \notin raw /\ \A u \in Threads : Releasing(u) => block[u] # b
      BY <1>0, <2>3 DEF TypeOK, OnePlace
    <2>8. TypeOK'
      BY <1>0, <2>1, <2>3, <2>4 DEF TypeOK, Words
    <2>9. OneObjectPerBlock'
      BY <1>0, <2>1, <2>3, <2>7 DEF TypeOK, OneObjectPerBlock
    <2>10. FreeListIntact'
      <3>1. list' = << >> <=> n = 1
        BY <2>3, <2>4
      <3>2. head' = IF n = 1 THEN Null ELSE list[n - 1]
        BY <2>1, <2>2, <2>3
      <3>3. \A j \in 1 .. n - 1 : word'[list[j]] = word[list[j]]
        BY <1>0, <2>1, <2>4 DEF TypeOK
      <3>4. head' = IF list' = << >> THEN Null ELSE list'[Len(list')]
        BY <2>3, <2>4, <3>1, <3>2
      <3>5. \A j \in 1 .. n - 1 : word'[list'[j]] = IF j = 1 THEN Null ELSE list'[j - 1]
        BY <1>0, <2>3, <2>4, <3>3 DEF FreeListIntact
      <3> QED
        BY <2>4, <3>4, <3>5 DEF FreeListIntact
    <2>11. NoBlockLost'
      <3> SUFFICES ASSUME NEW c \in Blocks
                   PROVE  \/ c \in raw' \/ live'[c] > 0 \/ Listed(c)'
                          \/ \E u \in Threads : Releasing(u)' /\ block'[u] = c
        BY DEF NoBlockLost
      <3>1. CASE c = b
        BY <1>0, <2>1, <2>3, <2>7, <3>1 DEF TypeOK
      <3>2. CASE c # b
        BY <1>0, <2>1, <2>3, <2>5, <2>6, <3>2 DEF TypeOK, NoBlockLost
      <3> QED
        BY <3>1, <3>2
    <2>12. OnePlace'
      <3>1. \A c \in Blocks \ {b} : live'[c] = live[c]
        BY <1>0, <2>1, <2>3 DEF TypeOK
      <3>2. \A j, k \in 1 .. n - 1 : list'[j] = list'[k] => j = k
        BY <1>0, <2>3, <2>4 DEF OnePlace
      <3>3. \A c \in raw : live'[c] = 0 /\ ~Listed(c)'
        BY <1>0, <2>5, <2>7, <3>1 DEF OnePlace, TypeOK
      <3>4. \A c \in Blocks : Listed(c)' => live'[c] = 0
        BY <1>0, <2>5, <3>1 DEF OnePlace
      <3>5. \A u \in Threads : Releasing(u) =>
               /\ block[u] \in Blocks \ raw
               /\ live'[block[u]] = 0
               /\ ~Listed(block[u])'
               /\ \A v \in Threads : Releasing(v) /\ block[v] = block[u] => v = u
        <4> SUFFICES ASSUME NEW u \in Threads, Releasing(u)
                     PROVE  /\ block[u] \in Blocks \ raw
                            /\ live'[block[u]] = 0
                            /\ ~Listed(block[u])'
                            /\ \A v \in Threads : Releasing(v) /\ block[v] = block[u] => v = u
          OBVIOUS
        <4>1. /\ block[u] \in Blocks \ raw /\ live[block[u]] = 0 /\ ~Listed(block[u])
              /\ \A v \in Threads : Releasing(v) /\ block[v] = block[u] => v = u
          BY <1>0 DEF OnePlace
        <4>2. ~Listed(block[u])'
          <5>1. \A j \in 1 .. n : list[j] # block[u]
            BY <4>1 DEF Listed
          <5>2. \A j \in 1 .. n - 1 : list'[j] # block'[u]
            BY <2>1, <2>3, <2>4, <5>1
          <5> QED
            BY <2>4, <5>2 DEF Listed
        <4> QED
          BY <2>7, <3>1, <4>1, <4>2
      <3> QED
        BY <2>1, <2>4, <2>6, <3>2, <3>3, <3>4, <3>5 DEF OnePlace
    <2>13. LocalsCurrent'
      <3>1. \A u \in Threads : u # t => pc'[u] = pc[u]
        BY <1>0, <2>1 DEF TypeOK
      <3>2. pc'[t] = "idle"
        BY <1>0, <2>1 DEF TypeOK
      <3>3. \A u \in Threads : pc'[u] \notin {"next", "pop"}
        BY <1>0, <2>1, <3>1, <3>2 DEF LocalsCurrent, SingleAllocator
      <3>4. \A u \in Threads : pc'[u] = "push" => word'[block[u]] = link[u]
        BY <1>0, <2>1, <2>3, <2>7, <3>1, <3>2 DEF LocalsCurrent, Releasing, OnePlace, TypeOK
      <3>5. \A u \in Threads : pc'[u] = "malloc" => u \in Allocators
        BY <1>0, <3>1, <3>2 DEF LocalsCurrent
      <3> QED
        BY <2>1, <3>3, <3>4, <3>5 DEF LocalsCurrent
    <2> QED
      BY <2>8, <2>9, <2>10, <2>11, <2>12, <2>13 DEF PoolInv
  <1> QED
    BY <1>1, <1>2

\* pool_.malloc() moves a block from the raw ones to the live ones.
LEMMA MallocStep ==
  ASSUME SingleAllocator, PoolInv, NEW t \in Threads, AllocateMalloc(t)
  PROVE  PoolInv'
  <1> USE AllocatorsAssumption, WordsAssumption DEF Goto
  <1>0. TypeOK /\ OneObjectPerBlock /\ FreeListIntact /\ NoBlockLost /\ OnePlace /\ LocalsCurrent
    BY DEF PoolInv
  <1>1. /\ pc[t] = "malloc" /\ pc' = [pc EXCEPT ![t] = "idle"]
        /\ UNCHANGED <<head, block, link, list>>
    BY DEF AllocateMalloc
  <1>2. \A u \in Threads : (Releasing(u)' <=> Releasing(u)) /\ (u # t => pc'[u] = pc[u])
    BY <1>0, <1>1 DEF TypeOK, Releasing
  <1>3. pc'[t] = "idle"
    BY <1>0, <1>1 DEF TypeOK
  <1>4. ASSUME NEW b \in raw, raw' = raw \ {b}, Construct(b)
        PROVE  PoolInv'
    <2>1. /\ live' = [live EXCEPT ![b] = @ + 1] /\ word' = [word EXCEPT ![b] = Data]
          /\ b \in Blocks /\ live[b] = 0 /\ ~Listed(b)
          /\ \A u \in Threads : Releasing(u) => block[u] # b
      BY <1>0, <1>4 DEF Construct, OnePlace, TypeOK
    <2>2. /\ live'[b] = 1
          /\ \A c \in Blocks \ {b} : live'[c] = live[c] /\ word'[c] = word[c]
      BY <1>0, <2>1 DEF TypeOK
    <2>3. TypeOK'
      BY <1>0, <1>1, <1>4, <2>1 DEF TypeOK, Words
    <2>4. OneObjectPerBlock'
      BY <1>0, <2>1, <2>2 DEF OneObjectPerBlock
    <2>5. \A i \in 1 .. Len(list) : list[i] \in Blocks \ {b}
      BY <1>0, <2>1 DEF TypeOK, Listed
    <2>6. FreeListIntact'
      BY <1>0, <1>1, <2>2, <2>5 DEF FreeListIntact
    <2>7. NoBlockLost'
      <3> SUFFICES ASSUME NEW c \in Blocks
                   PROVE  \/ c \in raw' \/ live'[c] > 0 \/ Listed(c)'
                          \/ \E u \in Threads : Releasing(u)' /\ block'[u] = c
        BY DEF NoBlockLost
      <3>1. CASE c = b
        BY <2>2, <3>1
      <3>2. CASE c # b
        BY <1>0, <1>1, <1>2, <1>4, <2>2, <3>2 DEF NoBlockLost, Listed
      <3> QED
        BY <3>1, <3>2
    <2>8. OnePlace'
      BY <1>0, <1>1, <1>2, <1>4, <2>1, <2>2 DEF OnePlace, Listed, TypeOK
    <2>9. LocalsCurrent'
      BY <1>0, <1>1, <1>2, <1>3, <2>1, <2>2 DEF LocalsCurrent, Releasing, OnePlace
    <2> QED
      BY <2>3, <2>4, <2>6, <2>7, <2>8, <2>9 DEF PoolInv
  <1>5. ASSUME UNCHANGED <<raw, live, word>>
        PROVE  PoolInv'
    <2>1. TypeOK' /\ OneObjectPerBlock' /\ FreeListIntact'
      BY <1>0, <1>1, <1>5 DEF TypeOK, OneObjectPerBlock, FreeListIntact
    <2>2. NoBlockLost' /\ OnePlace'
      BY <1>0, <1>1, <1>2, <1>5 DEF NoBlockLost, OnePlace, Listed
    <2>3. LocalsCurrent'
      BY <1>0, <1>1, <1>2, <1>3, <1>5 DEF LocalsCurrent
    <2> QED
      BY <2>1, <2>2, <2>3 DEF PoolInv
  <1> QED
    BY <1>4, <1>5 DEF AllocateMalloc

\* Deallocate takes the block of a live object off the live ones.
LEMMA ReleaseStep ==
  ASSUME SingleAllocator, PoolInv, NEW t \in Threads, NEW b \in Blocks, DeallocateLoad(t, b)
  PROVE  PoolInv'
  <1> USE DEF Goto
  <1>0. TypeOK /\ OneObjectPerBlock /\ FreeListIntact /\ NoBlockLost /\ OnePlace /\ LocalsCurrent
    BY DEF PoolInv
  <1>1. /\ pc[t] = "idle" /\ live[b] > 0 /\ live' = [live EXCEPT ![b] = @ - 1]
        /\ block' = [block EXCEPT ![t] = b] /\ link' = [link EXCEPT ![t] = head]
        /\ pc' = [pc EXCEPT ![t] = "link"]
        /\ UNCHANGED <<head, word, raw, list>>
    BY DEF DeallocateLoad
  <1>2. TypeOK'
    BY <1>0, <1>1 DEF TypeOK, Words
  <1>3. live'[b] = 0 /\ \A c \in Blocks \ {b} : live'[c] = live[c]
    BY <1>0, <1>1 DEF TypeOK, OneObjectPerBlock
  <1>4. OneObjectPerBlock'
    BY <1>0, <1>3 DEF OneObjectPerBlock
  <1>5. FreeListIntact'
    BY <1>0, <1>1 DEF FreeListIntact
  <1>6. /\ pc'[t] = "link" /\ block'[t] = b
        /\ \A u \in Threads : u # t => pc'[u] = pc[u] /\ block'[u] = block[u] /\ link'[u] = link[u]
    BY <1>0, <1>1 DEF TypeOK
  <1>7. /\ Releasing(t)' /\ ~Releasing(t)
        /\ \A u \in Threads : u # t => (Releasing(u)' <=> Releasing(u))
    BY <1>1, <1>6 DEF Releasing
  <1>8. b \notin raw /\ ~Listed(b) /\ \A u \in Threads : Releasing(u) => block[u] # b
    BY <1>0, <1>1 DEF OnePlace
  <1>9. NoBlockLost'
    <2> SUFFICES ASSUME NEW c \in Blocks
                 PROVE  \/ c \in raw' \/ live'[c] > 0 \/ Listed(c)'
                        \/ \E u \in Threads : Releasing(u)' /\ block'[u] = c
      BY DEF NoBlockLost
    <2>1. CASE c = b
      BY <1>6, <1>7, <2>1
    <2>2. CASE c # b
      <3>1. c \in raw \/ live[c] > 0 \/ Listed(c) \/ \E u \in Threads : Releasing(u) /\ block[u] = c
        BY <1>0 DEF NoBlockLost
      <3>2. Listed(c)' <=> Listed(c)
        BY <1>1 DEF Listed
      <3> QED
        BY <1>1, <1>3, <1>6, <1>7, <2>2, <3>1, <3>2
    <2> QED
      BY <2>1, <2>2
  <1>10. OnePlace'
    BY <1>0, <1>1, <1>3, <1>6, <1>7, <1>8 DEF OnePlace, Listed, TypeOK
  <1>11. LocalsCurrent'
    BY <1>0, <1>1, <1>6 DEF LocalsCurrent
  <1> QED
    BY <1>2, <1>4, <1>5, <1>9, <1>10, <1>11 DEF PoolInv

\* Deallocate links a block that is in no list.
LEMMA LinkStep ==
  ASSUME SingleAllocator, PoolInv, NEW t \in Threads, DeallocateLink(t)
  PROVE  PoolInv'
  <1> USE DEF Goto
  <1>0. TypeOK /\ OneObjectPerBlock /\ FreeListIntact /\ NoBlockLost /\ OnePlace /\ LocalsCurrent
    BY DEF PoolInv
  <1>1. /\ pc[t] = "link" /\ word' = [word EXCEPT ![block[t]] = link[t]]
        /\ pc' = [pc EXCEPT ![t] = "push"]
        /\ UNCHANGED <<head, raw, live, block, link, list>>
    BY DEF DeallocateLink
  <1>2. TypeOK'
    BY <1>0, <1>1 DEF TypeOK
  <1>3. /\ block[t] \in Blocks /\ ~Listed(block[t])
        /\ \A u \in Threads : Releasing(u) /\ block[u] = block[t] => u = t
    BY <1>0, <1>1 DEF OnePlace, Releasing
  <1>4. word'[block[t]] = link[t] /\ \A c \in Blocks : c # block[t] => word'[c] = word[c]
    BY <1>0, <1>1, <1>3 DEF TypeOK
  <1>5. OneObjectPerBlock'
    BY <1>0, <1>1 DEF OneObjectPerBlock
  <1>6. \A i \in 1 .. Len(list) : list[i] \in Blocks /\ list[i] # block[t]
    BY <1>0, <1>3 DEF TypeOK, Listed
  <1>7. FreeListIntact'
    BY <1>0, <1>1, <1>4, <1>6 DEF FreeListIntact
  <1>8. pc'[t] = "push" /\ \A u \in Threads : u # t => pc'[u] = pc[u]
    BY <1>0, <1>1 DEF TypeOK
  <1>9. \A u \in Threads : Releasing(u)' <=> Releasing(u)
    BY <1>1, <1>8 DEF Releasing
  <1>10. NoBlockLost' /\ OnePlace'
    BY <1>0, <1>1, <1>9 DEF NoBlockLost, OnePlace, Listed
  <1>11. LocalsCurrent'
    <2>1. \A u \in Threads : pc'[u] = "push" => word'[block[u]] = link[u]
      BY <1>0, <1>3, <1>4, <1>8 DEF LocalsCurrent, OnePlace, Releasing
    <2> QED
      BY <1>0, <1>1, <1>8, <2>1 DEF LocalsCurrent
  <1> QED
    BY <1>2, <1>5, <1>7, <1>10, <1>11 DEF PoolInv

\* Deallocate pushes a block whose link is the head it replaces.
LEMMA PushStep ==
  ASSUME SingleAllocator, PoolInv, NEW t \in Threads, DeallocatePush(t)
  PROVE  PoolInv'
  <1> USE AllocatorsAssumption, WordsAssumption DEF Goto
  <1>0. TypeOK /\ OneObjectPerBlock /\ FreeListIntact /\ NoBlockLost /\ OnePlace /\ LocalsCurrent
    BY DEF PoolInv
  <1>1. CASE ~PushSucceeds(t)
    <2>0. /\ pc[t] = "push" /\ link' = [link EXCEPT ![t] = head] /\ pc' = [pc EXCEPT ![t] = "link"]
          /\ UNCHANGED <<head, list, word, raw, live, block>>
      BY <1>1 DEF DeallocatePush
    <2>1. TypeOK'
      BY <1>0, <2>0 DEF TypeOK
    <2>2. OneObjectPerBlock' /\ FreeListIntact'
      BY <1>0, <2>0 DEF OneObjectPerBlock, FreeListIntact
    <2>3. \A u \in Threads : Releasing(u)' <=> Releasing(u)
      BY <1>0, <2>0 DEF TypeOK, Releasing
    <2>4. NoBlockLost' /\ OnePlace'
      BY <1>0, <2>0, <2>3 DEF NoBlockLost, OnePlace, Listed
    <2>5. \A u \in Threads : u # t => pc'[u] = pc[u] /\ link'[u] = link[u]
      BY <1>0, <2>0 DEF TypeOK
    <2>6. pc'[t] = "link"
      BY <1>0, <2>0 DEF TypeOK
    <2>7. LocalsCurrent'
      BY <1>0, <2>0, <2>5, <2>6 DEF LocalsCurrent
    <2> QED
      BY <2>1, <2>2, <2>4, <2>7 DEF PoolInv
  <1>2. CASE PushSucceeds(t)
    <2> DEFINE n == Len(list)
               b == block[t]
    <2>1. /\ pc[t] = "push" /\ head = link[t] /\ head' = b
          /\ list' = Append(list, b) /\ pc' = [pc EXCEPT ![t] = "idle"]
          /\ UNCHANGED <<word, raw, live, block, link>>
      BY <1>2 DEF DeallocatePush, PushSucceeds
    <2>2. /\ b \in Blocks \ raw /\ live[b] = 0 /\ ~Listed(b)
          /\ \A u \in Threads : Releasing(u) /\ block[u] = b => u = t
      BY <1>0, <2>1 DEF OnePlace, Releasing
    <2>3. /\ n \in Nat /\ list' \in Seq(Blocks) /\ Len(list') = n + 1 /\ list'[n + 1] = b
          /\ \A j \in 1 .. n : list'[j] = list[j] /\ list[j] # b
      BY <1>0, <2>1, <2>2 DEF TypeOK, Listed
    <2>4. \A c \in Blocks : Listed(c)' <=> Listed(c) \/ c = b
      BY <2>2, <2>3 DEF Listed
    <2>5. \A u \in Threads : (Releasing(u)' <=> Releasing(u) /\ u # t) /\ (u # t => pc'[u] = pc[u])
      BY <1>0, <2>1 DEF TypeOK, Releasing
    <2>6. pc'[t] = "idle"
      BY <1>0, <2>1 DEF TypeOK
    <2>7. TypeOK'
      BY <1>0, <2>1, <2>2, <2>3 DEF TypeOK, Words
    <2>8. OneObjectPerBlock'
      BY <1>0, <2>1 DEF OneObjectPerBlock
    <2>9. FreeListIntact'
      <3>1. word[b] = IF n = 0 THEN Null ELSE list[n]
        BY <1>0, <2>1, <2>3 DEF LocalsCurrent, FreeListIntact, TypeOK
      <3>2. \A j \in 1 .. n + 1 : word[list'[j]] = IF j = 1 THEN Null ELSE list'[j - 1]
        BY <1>0, <2>3, <3>1 DEF FreeListIntact
      <3>3. list' # << >>
        BY <2>3
      <3> QED
        BY <2>1, <2>3, <3>2, <3>3 DEF FreeListIntact
    <2>10. NoBlockLost'
      BY <1>0, <2>1, <2>4, <2>5 DEF NoBlockLost
    <2>11. OnePlace'
      <3>1. \A i, j \in 1 .. n + 1 : list'[i] = list'[j] => i = j
        BY <1>0, <2>3 DEF OnePlace
      <3>2. \A c \in raw : live[c] = 0 /\ ~Listed(c)'
        BY <1>0, <2>2, <2>4 DEF OnePlace, TypeOK
      <3>3. \A c \in Blocks : Listed(c)' => live[c] = 0
        BY <1>0, <2>2, <2>4 DEF OnePlace
      <3>4. ASSUME NEW u \in Threads, Releasing(u), u # t
            PROVE  ~Listed(block[u])'
        <4>1. ~Listed(block[u]) /\ block[u] # b
          BY <1>0, <2>2, <3>4 DEF OnePlace
        <4>2. \A j \in 1 .. n : list[j] # block[u]
          BY <4>1 DEF Listed
        <4>3. \A j \in 1 .. n + 1 : list'[j] # block'[u]
          BY <2>1, <2>3, <4>1, <4>2
        <4> QED
          BY <2>3, <4>3 DEF Listed
      <3> QED
        BY <1>0, <2>1, <2>3, <2>5, <3>1, <3>2, <3>3, <3>4 DEF OnePlace
    <2>12. LocalsCurrent'
      <3>1. \A u \in Threads : pc'[u] \in {"next", "pop"} =>
               \E i \in 1 .. n + 1 :
                 /\ list'[i] = block[u]
                 /\ pc'[u] = "pop" => link[u] = IF i = 1 THEN Null ELSE list'[i - 1]
        <4> SUFFICES ASSUME NEW u \in Threads, pc'[u] \in {"next", "pop"}
                     PROVE  \E i \in 1 .. n + 1 :
                              /\ list'[i] = block[u]
                              /\ pc'[u] = "pop" => link[u] = IF i = 1 THEN Null ELSE list'[i - 1]
          OBVIOUS
        <4>1. pc'[u] = pc[u]
          BY <2>5, <2>6
        <4>2. PICK i \in 1 .. n :
                 list[i] = block[u] /\ (pc[u] = "pop" => link[u] = IF i = 1 THEN Null ELSE list[i - 1])
          BY <1>0, <4>1 DEF LocalsCurrent
        <4> QED
          BY <2>3, <4>1, <4>2
      <3>2. \A u \in Threads : pc'[u] = "push" => word[block[u]] = link[u]
        BY <1>0, <2>5, <2>6 DEF LocalsCurrent
      <3>3. \A u \in Threads : pc'[u] \in {"next", "pop", "malloc"} => u \in Allocators
        BY <1>0, <2>5, <2>6 DEF LocalsCurrent
      <3> QED
        BY <2>1, <2>3, <3>1, <3>2, <3>3 DEF LocalsCurrent
    <2> QED
      BY <2>7, <2>8, <2>9, <2>10, <2>11, <2>12 DEF PoolInv
  <1> QED
    BY <1>1, <1>2

\* Every step of the pool keeps its invariant.
LEMMA PoolStep ==
  ASSUME SingleAllocator, PoolInv, [Next]_vars
  PROVE  PoolInv'
  <1>1. CASE UNCHANGED vars
    BY <1>1 DEF vars, PoolInv, TypeOK, OneObjectPerBlock, FreeListIntact, NoBlockLost,
                OnePlace, LocalsCurrent, Listed, Releasing
  <1>2. CASE Next
    BY <1>2, LoadStep, NextStep, PopStep, MallocStep, ReleaseStep, LinkStep, PushStep DEF Next
  <1> QED
    BY <1>1, <1>2

\* With one allocating thread and any number of releasing ones, Allocate and
\* Deallocate keep the free list sound and lose no block.
THEOREM Invariance == ASSUME SingleAllocator PROVE Spec => []PoolInv
  BY PoolInit, PoolStep, PTL DEF Spec

\* With one allocating thread Allocate never returns a block that still holds
\* an object.
THEOREM NoSharedBlock == ASSUME SingleAllocator PROVE Spec => []OneObjectPerBlock
  <1>1. PoolInv => OneObjectPerBlock
    BY DEF PoolInv
  <1> QED
    BY <1>1, Invariance, PTL

\* With one allocating thread every block comes back to the free list or is
\* still in use: the pool does not leak.
THEOREM NothingLeaks == ASSUME SingleAllocator PROVE Spec => [](FreeListIntact /\ NoBlockLost)
  <1>1. PoolInv => FreeListIntact /\ NoBlockLost
    BY DEF PoolInv
  <1> QED
    BY <1>1, Invariance, PTL

==============================================================================
