---------------------------- MODULE VcosNamedSem ----------------------------
(***************************************************************************)
(* Named semaphores (vcos_generic_named_sem.c): a sorted list of counted   *)
(* semaphores whose blocks come from a block pool that grows by subpools   *)
(* (vcos_generic_blockpool.c).  Each call holds its module's lock          *)
(* throughout and is one step.                                             *)
(***************************************************************************)
EXTENDS Naturals, Sequences, SequencesExt, FiniteSets, FiniteSetsExt, Functions

CONSTANTS
  Names,      \* the names in use, numbers in their order
  Handles,    \* the clients' VCOS_NAMED_SEMAPHORE_T
  Blocks,     \* NUM_SEMS: blocks of the first subpool
  Subpools,   \* extension subpools
  Extension,  \* num_extension_blocks
  MaxFails    \* bound: failures of vcos_malloc and vcos_semaphore_create

Ids == 0 .. Subpools
Sizes == [i \in Ids |-> IF i = 0 THEN Blocks ELSE Extension]
Elements == UNION {{<<i, k>> : k \in 0 .. Sizes[i] - 1} : i \in Ids}
Null == <<>>
FreeList == Subpools + 1   \* no subpool: the header is a link of the free list

VARIABLES
  present,    \* subpools with memory (start and mem)
  freeList,   \* free_list of each subpool
  available,  \* available_blocks
  owner,      \* header of each block: its subpool, or FreeList
  impl,       \* VCOS_NAMED_SEMAPHORE_IMPL_T in each block
  head,       \* sems_in_use
  inUse, totalRefs,  \* sems_in_use_count, sems_total_ref_count
  actual,     \* sem->actual of each handle
  lost,       \* history: blocks of semaphores that could not be created
  fails       \* so far

poolVars == <<present, freeList, available, owner>>
listVars == <<impl, head, inUse, totalRefs>>
nvars == <<poolVars, listVars, actual, lost, fails>>

Blank == [name |-> 0, refs |-> 0, next |-> Null, prev |-> Null]

\* vcos_generic_blockpool_subpool_init links the blocks from first to last,
\* so that the last is the first to go.
FreshList(i) == [k \in 1 .. Sizes[i] |-> <<i, Sizes[i] - k>>]

\* _vcos_named_semaphore_init
NInit ==
  /\ present = {0}
  /\ freeList = [i \in Ids |-> IF i = 0 THEN FreshList(0) ELSE <<>>]
  /\ available = [i \in Ids |-> IF i = 0 THEN Blocks ELSE 0]
  /\ owner = [b \in Elements |-> FreeList]
  /\ impl = [b \in Elements |-> Blank] /\ head = Null /\ inUse = 0 /\ totalRefs = 0
  /\ actual = [h \in Handles |-> Null]
  /\ lost = {} /\ fails = 0

-----------------------------------------------------------------------------
(* The block pool                                                          *)

\* vcos_generic_blockpool_alloc: from the first subpool with a free block,
\* else from a new one.  A subpool that cannot be allocated is skipped.
Alloc(b, failed) ==
  LET full == \A i \in present : available[i] = 0
      absent == Ids \ present
      fresh == absent \ failed
      i == IF full THEN Min(fresh) ELSE Min({j \in present : available[j] > 0})
      list == IF full THEN FreshList(i) ELSE freeList[i]
  IN /\ IF full THEN /\ fresh # {} /\ failed = {j \in absent : j < Min(fresh)}
                ELSE failed = {}
     /\ b = Head(list)
     /\ present' = present \cup {i}
     /\ freeList' = [freeList EXCEPT ![i] = Tail(list)]
     /\ available' = [available EXCEPT ![i] = Len(list) - 1]
     /\ owner' = [owner EXCEPT ![b] = b[1]]

\* No block is left and no memory is to be had.
AllocFails(failed) ==
  /\ \A i \in present : available[i] = 0
  /\ failed = Ids \ present
  /\ UNCHANGED poolVars

\* Mutant: the block goes to the list of the first subpool.
BlockFreeFirst(b) ==
  /\ freeList' = [freeList EXCEPT ![0] = <<b>> \o @]
  /\ available' = [available EXCEPT ![0] = @ + 1]
  /\ owner' = [owner EXCEPT ![b] = FreeList]
  /\ UNCHANGED present

\* vcos_generic_blockpool_free: the subpool is found through the header.
\* Nothing ever sets VCOS_BLOCKPOOL_SUBPOOL_FLAG_EXTENSION (the flags are not
\* used by vcos_generic_blockpool_subpool_init), so that its memory stays.
BlockFree(b) ==
  /\ freeList' = [freeList EXCEPT ![owner[b]] = <<b>> \o @]
  /\ available' = [available EXCEPT ![owner[b]] = @ + 1]
  /\ owner' = [owner EXCEPT ![b] = FreeList]
  /\ UNCHANGED present

\* vcos_generic_blockpool_elem_from_handle, which checks the block's header,
\* of a handle made by vcos_generic_blockpool_elem_to_handle.
ElemFromHandle(i, k) ==
  IF i \in present /\ k < Sizes[i] /\ owner[<<i, k>>] = i THEN <<i, k>> ELSE Null
AvailableCount == SumFunction([i \in Ids |-> IF i \in present THEN available[i] ELSE Extension])
UsedCount == SumFunction([i \in Ids |-> IF i \in present THEN Sizes[i] - available[i] ELSE 0])

-----------------------------------------------------------------------------
(* The list                                                                *)

\* The blocks reached from sems_in_use, in order.
InList ==
  LET walk[n \in 0 .. Cardinality(Elements)] ==
        IF n = 0 THEN IF head = Null THEN <<>> ELSE <<head>>
        ELSE LET w == walk[n - 1] IN
             IF w = <<>> \/ impl[Last(w)].next = Null THEN w
             ELSE Append(w, impl[Last(w)].next)
  IN walk[Cardinality(Elements)]

\* The first element of the list whose name is not beyond name: names go down.
Found(name) ==
  LET smaller == {i \in DOMAIN InList : impl[InList[i]].name <= name}
  IN IF smaller = {} THEN Null ELSE InList[Min(smaller)]

\* Mutant: the element behind keeps its old neighbour.
LinkForgets(b, name, at) ==
  LET before == IF at # Null THEN impl[at].prev
                ELSE IF InList = <<>> THEN Null ELSE Last(InList)
  IN /\ impl' = [c \in Elements |->
            IF c = b THEN [name |-> name, refs |-> 1, next |-> at, prev |-> before]
            ELSE IF c = before THEN [impl[c] EXCEPT !.next = b]
            ELSE impl[c]]
     /\ head' = IF head = at THEN b ELSE head

\* The new element goes before at, or to the end.
Link(b, name, at) ==
  LET before == IF at # Null THEN impl[at].prev
                ELSE IF InList = <<>> THEN Null ELSE Last(InList)
  IN /\ impl' = [c \in Elements |->
            IF c = b THEN [name |-> name, refs |-> 1, next |-> at, prev |-> before]
            ELSE IF c = at THEN [impl[c] EXCEPT !.prev = b]
            ELSE IF c = before THEN [impl[c] EXCEPT !.next = b]
            ELSE impl[c]]
     /\ head' = IF head = at THEN b ELSE head

\* vcos_generic_named_semaphore_create: a name in use gets a reference,
CreateKnown(h, name) ==
  LET at == Found(name) IN
  /\ actual[h] = Null /\ at # Null /\ impl[at].name = name
  /\ impl' = [impl EXCEPT ![at].refs = @ + 1]
  /\ totalRefs' = totalRefs + 1
  /\ actual' = [actual EXCEPT ![h] = at]
  /\ UNCHANGED <<poolVars, head, inUse, lost, fails>>

\* another gets a block.
Create(h, name, failed) ==
  LET at == Found(name) IN
  /\ actual[h] = Null /\ (at # Null => impl[at].name # name)
  /\ fails + Cardinality(failed) <= MaxFails /\ fails' = fails + Cardinality(failed)
  /\ \E b \in Elements :
       /\ Alloc(b, failed) /\ Link(b, name, at)
       /\ actual' = [actual EXCEPT ![h] = b]
  /\ inUse' = inUse + 1 /\ totalRefs' = totalRefs + 1
  /\ UNCHANGED lost

CreateNoBlock(h, name, failed) ==
  LET at == Found(name) IN
  /\ actual[h] = Null /\ (at # Null => impl[at].name # name)
  /\ fails + Cardinality(failed) <= MaxFails /\ fails' = fails + Cardinality(failed)
  /\ AllocFails(failed)
  /\ UNCHANGED <<listVars, actual, lost>>

\* vcos_semaphore_create fails: the block is not given back.
CreateNoSemaphore(h, name) ==
  LET at == Found(name) IN
  /\ actual[h] = Null /\ (at # Null => impl[at].name # name)
  /\ fails < MaxFails /\ fails' = fails + 1
  /\ \E b \in Elements : Alloc(b, {}) /\ lost' = lost \cup {b}
  /\ UNCHANGED <<listVars, actual>>

\* vcos_named_semaphore_delete: the last reference unlinks the semaphore.
\* The handle is not cleared otherwise; its client forgets it.
Delete(h) ==
  LET b == actual[h] IN
  /\ b # Null
  /\ totalRefs' = totalRefs - 1
  /\ actual' = [actual EXCEPT ![h] = Null]
  /\ IF impl[b].refs > 1
     THEN impl' = [impl EXCEPT ![b].refs = @ - 1] /\ UNCHANGED <<poolVars, head, inUse>>
     ELSE /\ inUse' = inUse - 1
          /\ impl' = [c \in Elements |->
                IF c = b THEN Blank
                ELSE IF c = impl[b].prev THEN [impl[c] EXCEPT !.next = impl[b].next]
                ELSE IF c = impl[b].next THEN [impl[c] EXCEPT !.prev = impl[b].prev]
                ELSE impl[c]]
          /\ head' = IF head = b THEN impl[b].next ELSE head
          /\ BlockFree(b)
  /\ UNCHANGED <<lost, fails>>

NNext ==
  \E h \in Handles :
    \/ Delete(h)
    \/ \E n \in Names :
         \/ CreateKnown(h, n) \/ CreateNoSemaphore(h, n)
         \/ \E failed \in SUBSET Ids : Create(h, n, failed) \/ CreateNoBlock(h, n, failed)

NSpec == NInit /\ [][NNext]_nvars

-----------------------------------------------------------------------------
(* Properties                                                              *)

\* A name has one semaphore, counted once for each handle; the list is linked
\* both ways and in the order of the names, which the search relies on.
OneSemaphorePerName ==
  /\ \A i \in 1 .. Len(InList) - 1 :
       /\ impl[InList[i]].name > impl[InList[i + 1]].name
       /\ impl[InList[i + 1]].prev = InList[i]
  /\ head # Null => impl[head].prev = Null
  /\ \A b \in ToSet(InList) :
       impl[b].refs = Cardinality({h \in Handles : actual[h] = b}) /\ impl[b].refs > 0
  /\ \A h \in Handles : actual[h] # Null => actual[h] \in ToSet(InList)
  /\ inUse = Len(InList)
  /\ totalRefs = Cardinality({h \in Handles : actual[h] # Null})

\* Each block is in use, lost, or in the free list of its own subpool; the
\* counters agree, and a handle finds the blocks in use and no other.
BlocksAccounted ==
  /\ \A i \in present :
       /\ available[i] = Len(freeList[i])
       /\ ToSet(freeList[i]) =
            {b \in Elements : b[1] = i} \ (ToSet(InList) \cup lost)
       /\ IsInjective(freeList[i])
  /\ \A b \in Elements :
       ElemFromHandle(b[1], b[2]) = IF b \in ToSet(InList) \cup lost THEN b ELSE Null
  /\ UsedCount = Len(InList) + Cardinality(lost)
  /\ AvailableCount + UsedCount = Cardinality(Elements)

\* Free the subpool if it was dynamically allocated: violated, for nothing
\* sets its flag.
SubpoolsFreed ==
  \A i \in present \ {0} : available[i] < Sizes[i]
=============================================================================
