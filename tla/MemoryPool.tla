----------------------------- MODULE MemoryPool -----------------------------
(***************************************************************************)
(* common::MemoryPoolThreadSafety: a free list of blocks, linked through   *)
(* the first word of each free block, in front of a boost::pool.           *)
(*                                                                         *)
(* One action is one access to shared memory.  Accesses are sequentially   *)
(* consistent, and pool_.malloc(), which no lock protects, is one step.    *)
(***************************************************************************)
EXTENDS Integers, Sequences

CONSTANTS
  Threads,
  Allocators,   \* the threads that call Allocate; any thread may Deallocate
  Blocks,       \* the blocks of pool_
  Null,         \* nullptr
  Data          \* a word of a constructed object, the address of no block

ASSUME AllocatorsAssumption == Allocators \subseteq Threads
ASSUME WordsAssumption == Null \notin Blocks /\ Data \notin Blocks /\ Null # Data

VARIABLES
  head,    \* head_
  word,    \* first word of each block
  raw,     \* blocks that pool_ has not handed out yet
  live,    \* number of objects alive in each block
  pc,      \* where each thread is in Allocate or Deallocate
  block,   \* local of each thread: block of Allocate, obj of Deallocate
  link,    \* local of each thread: next of Allocate, head of Deallocate
  list     \* the free list the calls promise, oldest block first

vars == <<head, word, raw, live, pc, block, link, list>>

-----------------------------------------------------------------------------

Words == Blocks \cup {Null, Data}

Init ==
  /\ head = Null
  /\ word = [b \in Blocks |-> Null]
  /\ raw = Blocks
  /\ live = [b \in Blocks |-> 0]
  /\ pc = [t \in Threads |-> "idle"]
  /\ block = [t \in Threads |-> Null]
  /\ link = [t \in Threads |-> Null]
  /\ list = << >>

Goto(t, label) == pc' = [pc EXCEPT ![t] = label]

\* new (b) T(...): an object now lives in the block.
Construct(b) ==
  /\ live' = [live EXCEPT ![b] = @ + 1]
  /\ word' = [word EXCEPT ![b] = Data]

\* Allocate loads head_.
AllocateLoad(t) ==
  /\ t \in Allocators
  /\ pc[t] = "idle"
  /\ block' = [block EXCEPT ![t] = head]
  /\ Goto(t, IF head = Null THEN "malloc" ELSE "next")
  /\ UNCHANGED <<head, word, raw, live, link, list>>

\* Allocate reads the link of the block it saw.
AllocateNext(t) ==
  /\ pc[t] = "next"
  /\ block[t] \in Blocks
  /\ link' = [link EXCEPT ![t] = word[block[t]]]
  /\ Goto(t, "pop")
  /\ UNCHANGED <<head, word, raw, live, block, list>>

\* Mutant of PopSucceeds: the exchange does not compare head_.
PopAnyHead(t) == head # Null

PopSucceeds(t) == head = block[t]

\* Allocate's compare-and-exchange, tried once.
AllocatePop(t) ==
  /\ pc[t] = "pop"
  /\ \/ /\ PopSucceeds(t)
        /\ head' = link[t]
        /\ list' = SubSeq(list, 1, Len(list) - 1)
        /\ Construct(block[t])
        /\ Goto(t, "idle")
     \/ /\ ~PopSucceeds(t)
        /\ Goto(t, "malloc")
        /\ UNCHANGED <<head, list, live, word>>
  /\ UNCHANGED <<raw, block, link>>

\* Allocate falls back on pool_.malloc(), and returns nullptr when that fails.
AllocateMalloc(t) ==
  /\ pc[t] = "malloc"
  /\ \/ \E b \in raw : raw' = raw \ {b} /\ Construct(b)
     \/ raw = {} /\ UNCHANGED <<raw, live, word>>
  /\ Goto(t, "idle")
  /\ UNCHANGED <<head, block, link, list>>

\* Deallocate destroys the object and loads head_.
DeallocateLoad(t, b) ==
  /\ pc[t] = "idle"
  /\ live[b] > 0
  /\ live' = [live EXCEPT ![b] = @ - 1]
  /\ block' = [block EXCEPT ![t] = b]
  /\ link' = [link EXCEPT ![t] = head]
  /\ Goto(t, "link")
  /\ UNCHANGED <<head, word, raw, list>>

\* Deallocate links the block to the head it saw.
DeallocateLink(t) ==
  /\ pc[t] = "link"
  /\ word' = [word EXCEPT ![block[t]] = link[t]]
  /\ Goto(t, "push")
  /\ UNCHANGED <<head, raw, live, block, link, list>>

\* Mutant of PushSucceeds: a plain store instead of the exchange.
PushAlways(t) == TRUE

PushSucceeds(t) == head = link[t]

\* Deallocate's compare-and-exchange; a failure reloads head_ and links again.
DeallocatePush(t) ==
  /\ pc[t] = "push"
  /\ \/ /\ PushSucceeds(t)
        /\ head' = block[t]
        /\ list' = Append(list, block[t])
        /\ Goto(t, "idle")
        /\ UNCHANGED link
     \/ /\ ~PushSucceeds(t)
        /\ link' = [link EXCEPT ![t] = head]
        /\ Goto(t, "link")
        /\ UNCHANGED <<head, list>>
  /\ UNCHANGED <<word, raw, live, block>>

Next ==
  \E t \in Threads :
    \/ AllocateLoad(t)
    \/ AllocateNext(t)
    \/ AllocatePop(t)
    \/ AllocateMalloc(t)
    \/ \E b \in Blocks : DeallocateLoad(t, b)
    \/ DeallocateLink(t)
    \/ DeallocatePush(t)

Spec == Init /\ [][Next]_vars

-----------------------------------------------------------------------------

\* Types of the shared words, of the locals and of the ghost list.
TypeOK ==
  /\ head \in Words
  /\ word \in [Blocks -> Words]
  /\ raw \subseteq Blocks
  /\ live \in [Blocks -> Nat]
  /\ pc \in [Threads -> {"idle", "next", "pop", "malloc", "link", "push"}]
  /\ block \in [Threads -> Words]
  /\ link \in [Threads -> Words]
  /\ list \in Seq(Blocks)

Releasing(t) == pc[t] \in {"link", "push"}

Listed(b) == \E i \in 1 .. Len(list) : list[i] = b

\* "it is thread safety version" (mem_pool.h): whatever the interleaving of
\* Allocate and Deallocate, no block holds two objects.
OneObjectPerBlock == \A b \in Blocks : live[b] <= 1

\* The words in memory spell the free list: head_ is its newest block, the
\* first word of each block its predecessor.
FreeListIntact ==
  /\ head = (IF list = << >> THEN Null ELSE list[Len(list)])
  /\ \A i \in 1 .. Len(list) : word[list[i]] = IF i = 1 THEN Null ELSE list[i - 1]

\* Allocate and Deallocate lose no block: each is raw, alive, on the free
\* list or on its way there.
NoBlockLost ==
  \A b \in Blocks :
    \/ b \in raw
    \/ live[b] > 0
    \/ Listed(b)
    \/ \E t \in Threads : Releasing(t) /\ block[t] = b

\* A block is in one of those places only.
OnePlace ==
  /\ \A i, j \in 1 .. Len(list) : list[i] = list[j] => i = j
  /\ \A b \in raw : live[b] = 0 /\ ~Listed(b)
  /\ \A b \in Blocks : Listed(b) => live[b] = 0
  /\ \A t \in Threads : Releasing(t) =>
       /\ block[t] \in Blocks \ raw
       /\ live[block[t]] = 0
       /\ ~Listed(block[t])
       /\ \A u \in Threads : Releasing(u) /\ block[u] = block[t] => u = t

\* What the locals of a call know: the block a single allocator saw stays on
\* the list, with the link it read; a linked block keeps its link.
LocalsCurrent ==
  /\ \A t \in Threads : pc[t] \in {"next", "pop", "malloc"} => t \in Allocators
  /\ \A t \in Threads : pc[t] \in {"next", "pop"} =>
       \E i \in 1 .. Len(list) :
         /\ list[i] = block[t]
         /\ pc[t] = "pop" => link[t] = IF i = 1 THEN Null ELSE list[i - 1]
  /\ \A t \in Threads : pc[t] = "push" => word[block[t]] = link[t]

\* The inductive invariant of the pool with one allocating thread.
PoolInv ==
  /\ TypeOK
  /\ OneObjectPerBlock
  /\ FreeListIntact
  /\ NoBlockLost
  /\ OnePlace
  /\ LocalsCurrent

\* At most one thread allocates.
SingleAllocator == \A t, u \in Allocators : t = u

=============================================================================
