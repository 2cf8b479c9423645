-------------------------------- MODULE Heap ---------------------------------
(***************************************************************************)
(* kernel/sys/heap.c: the first fit allocator of the kernel, header by     *)
(* header. Memory is modelled: headers and payload share the cells of the  *)
(* heap, and a payload may hold anything, a picture of a header included.  *)
(*                                                                         *)
(* The unit is the 8 byte cell: HEAP_ALIGNMENT is 8, malloc_t is 8 bytes,  *)
(* requests are rounded up to 8, so every address and size the code works  *)
(* with is a whole number of cells. malloc and free run with interrupts    *)
(* off, so one call is in progress at a time; an iteration of their loops  *)
(* is a step here.                                                         *)
(***************************************************************************)
EXTENDS Integers

CONSTANTS
  HeapBase,   \* system_heap.base, in cells
  HeapSize,   \* system_heap.size, in cells
  Requests,   \* the sizes callers ask for, rounded up to cells
  Payloads    \* what callers store in the memory they own

Cell == [size : Nat, reserved : {0, 1}]
Zero == [size |-> 0, reserved |-> 0]

ASSUME HeapAssumption ==
  /\ HeapBase \in Nat \ {0} /\ HeapSize \in Nat \ {0}
  /\ Requests \subseteq Nat \ {0}
  /\ Payloads \subseteq Cell

VARIABLES
  mem,                    \* the cells of the heap, each read as a malloc_t
  used,                   \* system_heap.used
  current_block_address,  \* the high-water mark
  pc,                     \* "idle", "malloc" or "free": the call in progress
  sz,                     \* malloc's rounded request
  block_iter,             \* the loop variable of malloc and of free
  alloc,                  \* free's block
  prev_alloc,             \* free's previous block, NULL if none
  \* What the callers, not the code, keep:
  owned,                  \* owned[p]: cells asked for by the holder of p, or 0
  freed,                  \* pointers freed since malloc last returned memory
  \* History:
  headers,                \* addresses of the headers below the high-water mark
  wasFull                 \* did the high-water mark ever reach the heap's end

heapVars == <<mem, used, current_block_address>>
callVars == <<pc, sz, block_iter, alloc, prev_alloc>>
ownerVars == <<owned, freed>>
history == <<headers, wasFull>>
vars == <<heapVars, callVars, ownerVars, history>>

NULL    == 0
HeapEnd == HeapBase + HeapSize           \* system_heap.end
Cells   == HeapBase .. (HeapEnd - 1)

(* memset of n cells from a.                                               *)
Fill(m, a, n, v) == [c \in Cells |-> IF c \in a .. (a + n - 1) THEN v ELSE m[c]]

(* Definitions named ...Slip are the one that follows with a mistake in it;*)
(* the properties are checked to notice it.                                *)

(* sizeof(malloc_t) plus the payload.                                      *)
Total(a) == mem[a].size + 1
NextBlockSlip(a) == a + mem[a].size
NextBlock(a) == a + Total(a)

-----------------------------------------------------------------------------
Init ==
  /\ mem = [c \in Cells |-> Zero]
  /\ used = 0
  /\ current_block_address = HeapBase
  /\ pc = "idle"
  /\ sz = 0 /\ block_iter = NULL /\ alloc = NULL /\ prev_alloc = NULL
  /\ owned = [c \in Cells |-> 0] /\ freed = {}
  /\ headers = {} /\ wasFull = FALSE

(* The locals of a call are gone once it returns.                          *)
Return ==
  /\ pc' = "idle"
  /\ sz' = 0 /\ block_iter' = NULL /\ alloc' = NULL /\ prev_alloc' = NULL

-----------------------------------------------------------------------------
(* malloc                                                                  *)

MallocCall(n) ==
  /\ pc = "idle"
  /\ pc' = "malloc"
  /\ sz' = n
  /\ block_iter' = HeapBase
  /\ UNCHANGED <<heapVars, alloc, prev_alloc, ownerVars, history>>

FitsStrictSlip(a) == mem[a].reserved = 0 /\ mem[a].size > sz
FitsAnySlip(a) == mem[a].reserved = 0
FitsReservedSlip(a) == mem[a].size >= sz
Fits(a) == mem[a].reserved = 0 /\ mem[a].size >= sz

(* A block that does not match: move to the next header.                   *)
MallocNext ==
  /\ pc = "malloc"
  /\ block_iter < current_block_address
  /\ ~Fits(block_iter)
  /\ block_iter' = NextBlock(block_iter)
  /\ UNCHANGED <<heapVars, pc, sz, alloc, prev_alloc, ownerVars, history>>

(* The caller of malloc becomes the owner of the payload at a.             *)
Give(a) ==
  /\ owned' = [owned EXCEPT ![a + 1] = sz]
  /\ freed' = {}

RemainingSlip == Total(block_iter) - sz
Remaining == Total(block_iter) - (sz + 1)

(* What is left must hold a header and 16 bytes.                           *)
CanSplit == Remaining >= 3

MallocSplit ==
  /\ pc = "malloc"
  /\ block_iter < current_block_address
  /\ Fits(block_iter)
  /\ CanSplit
  /\ mem' = [mem EXCEPT
       ![block_iter] = [size |-> sz, reserved |-> 1],
       ![block_iter + sz + 1] = [size |-> Remaining - 1, reserved |-> 0]]
  /\ used' = used + sz + 1
  /\ headers' = headers \cup {block_iter + sz + 1}
  /\ Give(block_iter)
  /\ Return
  /\ UNCHANGED <<current_block_address, wasFull>>

MallocWhole ==
  /\ pc = "malloc"
  /\ block_iter < current_block_address
  /\ Fits(block_iter)
  /\ ~CanSplit
  /\ mem' = [mem EXCEPT ![block_iter].reserved = 1]
  /\ used' = used + Total(block_iter)
  /\ Give(block_iter)
  /\ Return
  /\ UNCHANGED <<current_block_address, history>>

(* The out-of-memory check.                                                *)
NoRoom == block_iter + sz + 1 > HeapEnd

(* No block fits and there is no room above the high-water mark: NULL.     *)
MallocFail ==
  /\ pc = "malloc"
  /\ block_iter >= current_block_address
  /\ NoRoom
  /\ Return
  /\ UNCHANGED <<heapVars, ownerVars, history>>

(* A new block at the high-water mark.                                     *)
MallocBump ==
  /\ pc = "malloc"
  /\ block_iter >= current_block_address
  /\ ~NoRoom
  /\ mem' = [mem EXCEPT ![block_iter] = [size |-> sz, reserved |-> 1]]
  /\ used' = used + sz + 1
  /\ current_block_address' = block_iter + sz + 1
  /\ headers' = headers \cup {block_iter}
  /\ wasFull' = (wasFull \/ current_block_address' = HeapEnd)
  /\ Give(block_iter)
  /\ Return

-----------------------------------------------------------------------------
(* free                                                                    *)

(* May free merge the block behind address a into it? The first test also  *)
(* skips the merge whenever the high-water mark is at the end of the heap. *)
MergesNextSlip(m, next) ==
  /\ current_block_address < HeapEnd
  /\ next > current_block_address
  /\ next + 1 <= HeapEnd
  /\ m[next].reserved = 0
MergesNext(m, next) ==
  /\ current_block_address < HeapEnd
  /\ next < current_block_address
  /\ next + 1 <= HeapEnd
  /\ m[next].reserved = 0

(* The block at a, its reserved flag taken off and its payload cleared.    *)
MarkFreeSlip(a) == Fill(mem, a + 1, mem[a].size, Zero)
MarkFree(a) ==
  [Fill(mem, a + 1, mem[a].size, Zero) EXCEPT ![a] = [size |-> mem[a].size, reserved |-> 0]]

(* The free block at n merged into the one at a before it, and n's header  *)
(* cleared.                                                                *)
MergeSlip(m, a, n) ==
  [m EXCEPT ![a] = [size |-> m[a].size + 1 + m[n].size, reserved |-> 0]]
Merge(m, a, n) ==
  [Fill(m, n, 1, Zero) EXCEPT ![a] = [size |-> m[a].size + 1 + m[n].size, reserved |-> 0]]

(* free(b) up to its loop: the double free check, the block marked free    *)
(* and cleared, and the forward coalesce. After the check's early return   *)
(* nothing has changed, so it is no step.                                  *)
FreeCall(b) ==
  LET a    == b - 1
      next == NextBlock(a)
  IN  /\ pc = "idle"
      /\ mem[a].reserved # 0
      /\ pc' = "free"
      /\ alloc' = a
      /\ block_iter' = HeapBase /\ prev_alloc' = NULL
      /\ used' = used - Total(a)
      /\ \/ /\ MergesNext(MarkFree(a), next)
            /\ mem' = Merge(MarkFree(a), a, next)
            /\ headers' = headers \ {next}
         \/ /\ ~MergesNext(MarkFree(a), next)
            /\ mem' = MarkFree(a)
            /\ UNCHANGED headers
      /\ owned' = [owned EXCEPT ![b] = 0]
      /\ freed' = freed \cup {b}
      /\ UNCHANGED <<current_block_address, sz, wasFull>>

(* Look for the block right before alloc.                                  *)
FreeNext ==
  /\ pc = "free"
  /\ block_iter < alloc
  /\ prev_alloc' = block_iter
  /\ block_iter' = NextBlock(block_iter)
  /\ UNCHANGED <<heapVars, pc, sz, alloc, ownerVars, history>>

(* Block a, if it is the last one, is trimmed off the heap. Its header     *)
(* stays behind in memory. hs: the headers before the trim.                *)
ShrinkSlip(a, hs) == headers' = hs /\ UNCHANGED current_block_address
Shrink(a, hs) ==
  \/ /\ a + 1 + mem'[a].size = current_block_address
     /\ current_block_address' = a
     /\ headers' = hs \ {a}
  \/ /\ a + 1 + mem'[a].size # current_block_address
     /\ headers' = hs
     /\ UNCHANGED current_block_address

(* The backward coalesce, the shrink of the high-water mark and the return.*)
FreeEnd ==
  /\ pc = "free"
  /\ block_iter >= alloc
  /\ LET merges == prev_alloc # NULL /\ mem[prev_alloc].reserved = 0
     IN  \/ /\ merges
            /\ mem' = Merge(mem, prev_alloc, alloc)
            /\ Shrink(prev_alloc, headers \ {alloc})
         \/ /\ ~merges
            /\ mem' = mem
            /\ Shrink(alloc, headers)
  /\ Return
  /\ UNCHANGED <<used, ownerVars, wasFull>>

-----------------------------------------------------------------------------
(* A caller stores what it likes in the memory it asked for.               *)
Write(p, v) ==
  /\ pc = "idle"
  /\ owned[p] > 0
  /\ mem' = Fill(mem, p, owned[p], v)
  /\ UNCHANGED <<used, current_block_address, callVars, ownerVars, history>>

(* Callers free what they own. None frees a pointer twice, but free checks *)
(* for it: a pointer may be freed again until its cells are handed out.    *)
Call ==
  \/ \E n \in Requests : MallocCall(n)
  \/ \E b \in Cells : (owned[b] > 0 \/ b \in freed) /\ FreeCall(b)
  \/ \E p \in Cells, v \in Payloads : Write(p, v)

Step ==
  \/ MallocNext \/ MallocSplit \/ MallocWhole \/ MallocFail \/ MallocBump
  \/ FreeNext \/ FreeEnd

Next == Call \/ Step

Spec == Init /\ [][Next]_vars

(* Interrupts are off during a call: nothing keeps it from running on.     *)
FairSpec == Spec /\ WF_vars(Step)

-----------------------------------------------------------------------------
(* Properties                                                              *)

(* Every variable has its type; in particular the high-water mark stays in *)
(* the heap (the out-of-memory check of malloc, heap.c:120-125).           *)
TypeOK ==
  /\ mem \in [Cells -> Cell]
  /\ used \in Int
  /\ current_block_address \in HeapBase .. HeapEnd
  /\ pc \in {"idle", "malloc", "free"}
  /\ sz \in Nat /\ block_iter \in Nat /\ alloc \in Nat /\ prev_alloc \in Nat
  /\ owned \in [Cells -> Nat]
  /\ freed \subseteq Cells
  /\ headers \subseteq Cells
  /\ wasFull \in BOOLEAN

(* The blocks with headers hs in memory m tile the heap below top.         *)
Tiling(hs, m, top) ==
  /\ top > HeapBase => HeapBase \in hs
  /\ \A a \in hs : LET end == a + m[a].size + 1 IN end \in hs \cup {top} /\ end <= top
  /\ \A a, b \in hs : a < b => a + m[a].size + 1 <= b

(* The blocks tile the heap up to the high-water mark: whoever starts at   *)
(* the base and goes from size to size, as malloc and free do, meets every *)
(* header and nothing else, whatever the callers store in their payloads   *)
(* and wherever splits, merges and trims left old headers in memory.       *)
Chain == Tiling(headers, mem, current_block_address)

(* The holders ow of pointers own reserved blocks large enough for them,   *)
(* and every reserved block has a holder.                                  *)
Owning(hs, m, ow) ==
  /\ \A p \in Cells : ow[p] > 0 =>
       p - 1 \in hs /\ m[p - 1].reserved = 1 /\ ow[p] <= m[p - 1].size
  /\ \A a \in hs : m[a].reserved = 1 => a + 1 \in Cells /\ ow[a + 1] > 0

(* A pointer that malloc gave out and nobody freed has a reserved block of *)
(* at least the requested size, and every reserved block has an owner: no  *)
(* block is lost or handed out twice.                                      *)
Ownership == Owning(headers, mem, owned)

(* The cells of a free block hold no trace of its last owner nor of a      *)
(* header merged away (heap.c:163 "Clear the memory.", heap.c:184).        *)
FreeMemoryCleared ==
  \A a \in headers : mem[a].reserved = 0 =>
    \A c \in Cells : a < c /\ c < NextBlock(a) => mem[c] = Zero

(* heap.c:148-152: freeing a pointer again does nothing, though free has   *)
(* only the header before it to tell, and merges, trims and the clears     *)
(* of later frees may have changed that cell.                              *)
DoubleFreeIgnored == \A p \in freed : mem[p - 1].reserved = 0

(* Between calls, free blocks are coalesced: behind a free block there is  *)
(* a reserved one, never another free one and never the high-water mark    *)
(* (heap.c:166-220).                                                       *)
Coalesced ==
  pc # "free" =>
    \A a \in headers : mem[a].reserved = 0 =>
      NextBlock(a) \in headers /\ mem[NextBlock(a)].reserved = 1

(* What the code achieves: that holds as long as the high-water mark has   *)
(* never reached the end of the heap, where free skips the forward merge.  *)
CoalescedUnlessFull == ~wasFull => Coalesced

(* First fit: the block malloc hands out is the lowest that is free and    *)
(* large enough (heap.c:51).                                               *)
FirstFitStep ==
  \A p \in Cells : owned[p] = 0 /\ owned'[p] > 0 =>
    \A a \in headers : mem[a].reserved = 0 /\ mem[a].size >= owned'[p] => p - 1 <= a

FirstFit == [][FirstFitStep]_vars

(* Is there an extent of n cells that no reserved block touches?           *)
HasRoom(n) ==
  \E a \in Cells : /\ a + n <= HeapEnd
                   /\ \A b \in headers : mem[b].reserved = 1 => NextBlock(b) <= a \/ a + n <= b

(* malloc returns NULL only if the header and the request fit nowhere      *)
(* between the reserved blocks, unless the heap has once been full to its  *)
(* last cell.                                                              *)
FailsOnlyWithoutRoom ==
  [][pc = "malloc" /\ pc' = "idle" /\ owned' = owned /\ ~wasFull => ~HasRoom(sz + 1)]_vars

(* Every call returns: the walks over the headers come to an end.          *)
CallsReturn == pc # "idle" ~> pc = "idle"

(* What the walk of malloc has seen so far: every block below block_iter   *)
(* is taken or too small.                                                  *)
InMalloc ==
  pc = "malloc" =>
    /\ sz \in Requests
    /\ block_iter \in headers \cup {current_block_address}
    /\ \A a \in headers : a < block_iter => ~Fits(a)

(* What the walk of free knows: it goes from block to block up to alloc,   *)
(* one step behind it is prev_alloc.                                       *)
InFree ==
  pc = "free" =>
    /\ alloc \in headers /\ mem[alloc].reserved = 0
    /\ block_iter \in headers /\ block_iter <= alloc
    /\ prev_alloc = NULL <=> block_iter = HeapBase
    /\ prev_alloc # NULL => prev_alloc \in headers /\ NextBlock(prev_alloc) = block_iter

(* The inductive invariant: the blocks, their owners and the two walks.    *)
BlocksInv == TypeOK /\ Chain /\ Ownership /\ InMalloc /\ InFree

(* No freed pointer has its header cell in a reserved block.               *)
FreedApart ==
  \A p \in freed :
    /\ p - 1 \in Cells /\ mem[p - 1].reserved = 0
    /\ \A a \in headers : mem[a].reserved = 1 => p - 1 < a \/ NextBlock(a) <= p - 1

HeapInv == BlocksInv /\ FreedApart

(* As long as the heap was never full: a free block has a reserved one     *)
(* behind it, but for the block that free is at and the one before it.     *)
Settled ==
  /\ current_block_address < HeapEnd
  /\ \A a \in headers : mem[a].reserved = 0 =>
       \/ NextBlock(a) \in headers /\ mem[NextBlock(a)].reserved = 1
       \/ pc = "free" /\ NextBlock(a) = alloc
       \/ pc = "free" /\ a = alloc /\ NextBlock(a) = current_block_address

(* The walk of malloc leaves out no cell.                                  *)
Covered ==
  pc = "malloc" =>
    \A c \in Cells : c < block_iter => \E a \in headers : a <= c /\ c < NextBlock(a)

(* The inductive invariant behind what the properties say of free memory.  *)
FreeInv == FreeMemoryCleared /\ (~wasFull => Settled) /\ Covered

(* Callers see an allocator that hands out extents nobody else owns.       *)
Promise == INSTANCE Allocator WITH
  HeapBase <- HeapBase, HeapSize <- HeapSize, Requests <- Requests, owned <- owned
PromiseSpec == Promise!Spec

=============================================================================
