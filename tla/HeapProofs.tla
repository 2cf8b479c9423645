----------------------------- MODULE HeapProofs ------------------------------
(***************************************************************************)
(* For every heap size, every set of request sizes and whatever the owners *)
(* store: the blocks of the heap and their owners, then its free memory,   *)
(* which is cleared, coalesced as long as the heap was never full, and     *)
(* enough for a request unless there is no room.                           *)
(***************************************************************************)
EXTENDS Heap, TLAPS

LEMMA CellsType == Cells \subseteq Nat /\ HeapEnd \in Nat /\ HeapBase \in Nat \ {0} /\ HeapSize \in Nat
                   /\ \A c : c \in Cells <=> c \in Nat /\ HeapBase <= c /\ c < HeapEnd
  BY HeapAssumption DEF Cells, HeapEnd

(* memset keeps the memory a memory.                                       *)
LEMMA FillType ==
  ASSUME NEW m \in [Cells -> Cell], NEW a \in Nat, NEW n \in Nat, NEW v \in Cell
  PROVE  /\ Fill(m, a, n, v) \in [Cells -> Cell]
         /\ \A c \in Cells : Fill(m, a, n, v)[c] = IF a <= c /\ c < a + n THEN v ELSE m[c]
  BY CellsType DEF Fill

LEMMA CellFields == 
  /\ Zero \in Cell
  /\ \A c \in Cell : c.size \in Nat /\ c.reserved \in {0, 1}
  /\ \A s \in Nat, r \in {0, 1} : [size |-> s, reserved |-> r] \in Cell
  BY DEF Cell, Zero

-----------------------------------------------------------------------------
(* How the blocks go on tiling the heap when one is split, two are merged, *)
(* one is added at the top or the topmost one is trimmed.                  *)

LEMMA TilingSame ==
  ASSUME NEW hs \in SUBSET Cells, NEW m \in [Cells -> Cell], NEW m2 \in [Cells -> Cell],
         NEW top \in Nat, Tiling(hs, m, top),
         \A a \in hs : m2[a].size = m[a].size
  PROVE  Tiling(hs, m2, top)
  BY DEF Tiling

LEMMA TilingSplit ==
  ASSUME NEW hs \in SUBSET Cells, NEW m \in [Cells -> Cell], NEW m2 \in [Cells -> Cell],
         NEW top \in Nat, Tiling(hs, m, top),
         NEW a \in hs, NEW n \in Cells, a < n,
         n = a + m2[a].size + 1,
         n + m2[n].size + 1 = a + m[a].size + 1,
         \A b \in hs \ {a} : m2[b].size = m[b].size
  PROVE  n \notin hs /\ Tiling(hs \cup {n}, m2, top)
  <1> USE CellsType, CellFields
  <1>1. \A b \in hs \cup {n} : b \in Nat /\ m[b].size \in Nat /\ m2[b].size \in Nat
    OBVIOUS
  <1>2. n \notin hs
    BY <1>1 DEF Tiling
  <1>3. top > HeapBase => HeapBase \in hs \cup {n}
    BY DEF Tiling
  <1>4. ASSUME NEW b \in hs \cup {n}
        PROVE  b + m2[b].size + 1 \in hs \cup {n, top} /\ b + m2[b].size + 1 <= top
    BY <1>1, <1>2 DEF Tiling
  <1>5. ASSUME NEW b \in hs \cup {n}, NEW c \in hs \cup {n}, b < c
        PROVE  b + m2[b].size + 1 <= c
    <2>1. CASE b \in hs \ {a} /\ c \in hs
      BY <2>1, <1>1, <1>5 DEF Tiling
    <2>2. CASE b \in hs \ {a} /\ c = n
      BY <2>2, <1>1, <1>5 DEF Tiling
    <2>3. CASE b = a /\ c \in hs
      BY <2>3, <1>1, <1>5 DEF Tiling
    <2>4. CASE b = a /\ c = n
      BY <2>4, <1>1
    <2>5. CASE b = n
      BY <2>5, <1>1, <1>2, <1>5 DEF Tiling
    <2>6. QED
      BY <2>1, <2>2, <2>3, <2>4, <2>5
  <1>6. QED
    BY <1>2, <1>3, <1>4, <1>5 DEF Tiling

LEMMA TilingMerge ==
  ASSUME NEW hs \in SUBSET Cells, NEW m \in [Cells -> Cell], NEW m2 \in [Cells -> Cell],
         NEW top \in Nat, Tiling(hs, m, top),
         NEW a \in hs, NEW n \in hs,
         n = a + m[a].size + 1,
         m2[a].size = m[a].size + 1 + m[n].size,
         \A b \in hs \ {a, n} : m2[b].size = m[b].size
  PROVE  Tiling(hs \ {n}, m2, top)
  <1> USE CellsType, CellFields
  <1>1. \A b \in hs : b \in Nat /\ m[b].size \in Nat /\ m2[b].size \in Nat /\ HeapBase <= b
    OBVIOUS
  <1>2. top > HeapBase => HeapBase \in hs \ {n}
    BY <1>1 DEF Tiling
  <1>3. ASSUME NEW b \in hs \ {n}
        PROVE  b + m2[b].size + 1 \in (hs \ {n}) \cup {top} /\ b + m2[b].size + 1 <= top
    <2>1. CASE b = a
      BY <2>1, <1>1 DEF Tiling
    <2>2. CASE b # a
      <3>1. b + m[b].size + 1 # n
        BY <2>2, <1>1 DEF Tiling
      <3>2. QED
        BY <2>2, <3>1, <1>1 DEF Tiling
    <2>3. QED
      BY <2>1, <2>2
  <1>4. ASSUME NEW b \in hs \ {n}, NEW c \in hs \ {n}, b < c
        PROVE  b + m2[b].size + 1 <= c
    <2>1. CASE b = a
      <3>1. n <= c
        BY <2>1, <1>1, <1>4 DEF Tiling
      <3>2. QED
        BY <2>1, <3>1, <1>1 DEF Tiling
    <2>2. CASE b # a
      BY <2>2, <1>1, <1>4 DEF Tiling
    <2>3. QED
      BY <2>1, <2>2
  <1>5. QED
    BY <1>2, <1>3, <1>4 DEF Tiling

LEMMA TilingAppend ==
  ASSUME NEW hs \in SUBSET Cells, NEW m \in [Cells -> Cell], NEW m2 \in [Cells -> Cell],
         NEW top \in Cells, Tiling(hs, m, top),
         \A b \in hs : m2[b].size = m[b].size
  PROVE  top \notin hs /\ Tiling(hs \cup {top}, m2, top + m2[top].size + 1)
  <1> USE CellsType, CellFields
  <1>1. \A b \in hs \cup {top} : b \in Nat /\ m[b].size \in Nat /\ m2[b].size \in Nat /\ HeapBase <= b
    OBVIOUS
  <1>2. QED
    BY <1>1 DEF Tiling

LEMMA TilingTrim ==
  ASSUME NEW hs \in SUBSET Cells, NEW m \in [Cells -> Cell],
         NEW top \in Nat, Tiling(hs, m, top),
         NEW a \in hs, a + m[a].size + 1 = top
  PROVE  Tiling(hs \ {a}, m, a)
  <1> USE CellsType, CellFields
  <1>1. \A b \in hs : b \in Nat /\ m[b].size \in Nat /\ HeapBase <= b
    OBVIOUS
  <1>2. \A b \in hs \ {a} : b < a
    BY <1>1 DEF Tiling
  <1>3. QED
    BY <1>1, <1>2 DEF Tiling

(* Who owns what, when only the block behind pointer p changes hands: the  *)
(* other reserved blocks stay as they are, and no other block is reserved. *)
LEMMA OwningChange ==
  ASSUME NEW hs \in SUBSET Cells, NEW m \in [Cells -> Cell], NEW ow \in [Cells -> Nat],
         NEW hs2 \in SUBSET Cells, NEW m2 \in [Cells -> Cell], NEW ow2 \in [Cells -> Nat],
         NEW p \in Int, Owning(hs, m, ow),
         \A q \in Cells \ {p} : ow2[q] = ow[q],
         \A a \in hs \ {p - 1} : m[a].reserved = 1 => a \in hs2 /\ m2[a] = m[a],
         \A a \in hs2 \ {p - 1} : m2[a].reserved = 1 => a \in hs /\ m[a].reserved = 1,
         \/ /\ p \in Cells => ow2[p] = 0
            /\ p - 1 \in hs2 => m2[p - 1].reserved = 0
         \/ /\ p \in Cells /\ ow2[p] > 0
            /\ p - 1 \in hs2 /\ m2[p - 1].reserved = 1 /\ ow2[p] <= m2[p - 1].size
  PROVE  Owning(hs2, m2, ow2)
  <1> USE CellsType, CellFields
  <1>1. ASSUME NEW q \in Cells, ow2[q] > 0
        PROVE  q - 1 \in hs2 /\ m2[q - 1].reserved = 1 /\ ow2[q] <= m2[q - 1].size
    <2>1. CASE q = p
      BY <1>1, <2>1
    <2>2. CASE q # p
      BY <1>1, <2>2 DEF Owning
    <2>3. QED
      BY <2>1, <2>2
  <1>2. ASSUME NEW a \in hs2, m2[a].reserved = 1
        PROVE  a + 1 \in Cells /\ ow2[a + 1] > 0
    <2>1. CASE a = p - 1
      BY <1>2, <2>1
    <2>2. CASE a # p - 1
      BY <1>2, <2>2 DEF Owning
    <2>3. QED
      BY <2>1, <2>2
  <1>3. QED
    BY <1>1, <1>2 DEF Owning

-----------------------------------------------------------------------------
(* The inductive invariant.                                                *)

(* What the invariant says of the headers, in one place.                   *)
LEMMA BlockFacts ==
  ASSUME BlocksInv
  PROVE  /\ mem \in [Cells -> Cell] /\ owned \in [Cells -> Nat] /\ headers \in SUBSET Cells
         /\ current_block_address \in Nat
         /\ HeapBase <= current_block_address /\ current_block_address <= HeapEnd
         /\ \A a \in headers :
              /\ a \in Nat /\ HeapBase <= a /\ a < current_block_address
              /\ mem[a].size \in Nat /\ mem[a].reserved \in {0, 1}
              /\ a + mem[a].size + 1 \in headers \cup {current_block_address}
              /\ a + mem[a].size + 1 <= current_block_address
         /\ \A a, b \in headers : a < b => a + mem[a].size + 1 <= b
  <1> USE CellsType, CellFields DEF BlocksInv, TypeOK
  <1>1. /\ mem \in [Cells -> Cell] /\ owned \in [Cells -> Nat] /\ headers \in SUBSET Cells
        /\ current_block_address \in Nat
        /\ HeapBase <= current_block_address /\ current_block_address <= HeapEnd
    OBVIOUS
  <1>2. \A a \in headers : a \in Nat /\ HeapBase <= a /\ mem[a].size \in Nat /\ mem[a].reserved \in {0, 1}
    BY <1>1
  <1>3. QED
    BY <1>1, <1>2 DEF Chain, Tiling

LEMMA InitBlocks == Init => BlocksInv
  <1> SUFFICES ASSUME Init PROVE BlocksInv
    OBVIOUS
  <1>1. TypeOK
    <2>1. mem \in [Cells -> Cell] /\ owned \in [Cells -> Nat]
      BY CellFields DEF Init
    <2>2. HeapBase \in HeapBase .. HeapEnd
      BY HeapAssumption DEF HeapEnd
    <2>3. wasFull \in BOOLEAN
      BY DEF Init
    <2>4. QED
      BY <2>1, <2>2, <2>3 DEF Init, TypeOK, NULL
  <1>2. Chain
    BY HeapAssumption DEF Init, Chain, Tiling
  <1>3. Ownership /\ InMalloc /\ InFree
    BY DEF Init, Ownership, Owning, InMalloc, InFree
  <1>4. QED
    BY <1>1, <1>2, <1>3 DEF BlocksInv

(* A step that leaves blocks and owners alone.                             *)
LEMMA SameBlocks ==
  ASSUME BlocksInv, UNCHANGED <<mem, current_block_address, owned, headers>>
  PROVE  Chain' /\ Ownership'
  BY DEF BlocksInv, Chain, Ownership, Tiling, Owning

(* The walk of malloc is at a header or at the high-water mark.            *)
LEMMA WalkFacts ==
  ASSUME BlocksInv, pc = "malloc"
  PROVE  /\ sz \in Nat \ {0}
         /\ block_iter \in headers \/ block_iter = current_block_address
         /\ block_iter < current_block_address <=> block_iter \in headers
         /\ block_iter >= current_block_address <=> block_iter = current_block_address
  <1>1. sz \in Requests /\ block_iter \in headers \cup {current_block_address}
    BY DEF BlocksInv, InMalloc
  <1>2. QED
    BY <1>1, HeapAssumption, BlockFacts

LEMMA MallocCallBlocks == ASSUME BlocksInv, NEW n \in Requests, MallocCall(n) PROVE BlocksInv'
  <1>1. TypeOK'
    BY HeapAssumption DEF BlocksInv, TypeOK, MallocCall, heapVars, ownerVars, history
  <1>2. Chain' /\ Ownership'
    BY SameBlocks DEF MallocCall, heapVars, ownerVars, history
  <1>3. HeapBase \in headers \cup {current_block_address}
    BY BlockFacts, CellsType DEF BlocksInv, Chain, Tiling
  <1>4. InMalloc' /\ InFree'
    BY <1>3, BlockFacts, CellsType DEF MallocCall, heapVars, history, InMalloc, InFree
  <1>5. QED
    BY <1>1, <1>2, <1>4 DEF BlocksInv

LEMMA MallocNextBlocks == ASSUME BlocksInv, MallocNext PROVE BlocksInv'
  <1>1. block_iter \in headers
    BY DEF BlocksInv, MallocNext, InMalloc, BlocksInv, TypeOK
  <1>2. block_iter' = block_iter + mem[block_iter].size + 1
    BY <1>1, BlockFacts DEF MallocNext, NextBlock, Total
  <1>3. TypeOK'
    BY <1>1, <1>2, BlockFacts DEF BlocksInv, TypeOK, MallocNext, heapVars, ownerVars, history
  <1>4. Chain' /\ Ownership'
    BY SameBlocks DEF MallocNext, heapVars, ownerVars, history
  <1>5. \A a \in headers : a < block_iter' => a <= block_iter
    BY <1>1, <1>2, BlockFacts
  <1>6. \A a \in headers : a < block_iter' => ~Fits(a)
    BY <1>1, <1>5, BlockFacts DEF MallocNext, BlocksInv, InMalloc
  <1>7. InMalloc' /\ InFree'
    BY <1>1, <1>2, <1>6, BlockFacts
       DEF BlocksInv, MallocNext, InMalloc, InFree, Fits, heapVars, history
  <1>8. QED
    BY <1>3, <1>4, <1>7 DEF BlocksInv

LEMMA MallocSplitBlocks == ASSUME BlocksInv, MallocSplit PROVE BlocksInv'
  <1> DEFINE new == block_iter + sz + 1
             rest == Remaining - 1
  <1>1. /\ block_iter \in headers /\ sz \in Nat \ {0}
        /\ mem[block_iter].reserved = 0 /\ mem[block_iter].size >= sz
    BY WalkFacts DEF MallocSplit, Fits
  <1>2. /\ rest \in Nat /\ block_iter < new
        /\ new + rest + 1 = block_iter + mem[block_iter].size + 1
        /\ new \in Cells /\ block_iter + 1 \in Cells /\ block_iter \in Cells
    <2>1. rest \in Nat /\ new + rest + 1 = block_iter + mem[block_iter].size + 1
      BY <1>1, BlockFacts DEF MallocSplit, CanSplit, Remaining, Total
    <2> HIDE DEF rest
    <2>2. QED
      BY <1>1, <2>1, BlockFacts, CellsType
  <1> HIDE DEF rest
  <1>3. /\ mem'[block_iter] = [size |-> sz, reserved |-> 1]
        /\ mem'[new] = [size |-> rest, reserved |-> 0]
        /\ \A c \in Cells \ {block_iter, new} : mem'[c] = mem[c]
        /\ mem' \in [Cells -> Cell]
    <2>1. /\ [size |-> sz, reserved |-> 1] \in Cell
          /\ [size |-> rest, reserved |-> 0] \in Cell
      BY <1>1, <1>2, CellFields
    <2>2. mem' = [mem EXCEPT ![block_iter] = [size |-> sz, reserved |-> 1],
                             ![new] = [size |-> rest, reserved |-> 0]]
      BY DEF MallocSplit, rest
    <2>3. block_iter # new /\ mem \in [Cells -> Cell]
      BY <1>1, BlockFacts
    <2> HIDE DEF new
    <2>4. QED
      BY <1>2, <2>1, <2>2, <2>3
  <1> HIDE DEF new
  <1>4. /\ headers' = headers \cup {new}
        /\ current_block_address' = current_block_address
        /\ owned' = [owned EXCEPT ![block_iter + 1] = sz] /\ pc' = "idle"
    BY DEF MallocSplit, Give, Return, new
  <1>5. new \notin headers /\ Chain'
    <2>1. new = block_iter + mem'[block_iter].size + 1
      BY <1>1, <1>3 DEF new
    <2>2. new + mem'[new].size + 1 = block_iter + mem[block_iter].size + 1
      BY <1>2, <1>3
    <2>3. \A b \in headers \ {block_iter} : b # new => mem'[b].size = mem[b].size
      BY <1>3, BlockFacts
    <2>4. new \notin headers
      BY <1>1, <1>2, BlockFacts, CellsType
    <2>5. QED
      BY <1>1, <1>2, <1>3, <1>4, <2>1, <2>2, <2>3, <2>4, TilingSplit, BlockFacts DEF BlocksInv, Chain
  <1>6. Ownership'
    <2>1. owned' \in [Cells -> Nat] /\ headers' \in SUBSET Cells
      BY <1>1, <1>2, <1>4, BlockFacts
    <2>2. /\ block_iter + 1 \in Int /\ (block_iter + 1) - 1 = block_iter
          /\ owned'[block_iter + 1] = sz
          /\ \A q \in Cells \ {block_iter + 1} : owned'[q] = owned[q]
      BY <1>1, <1>2, <1>4, BlockFacts
    <2>3. \A a \in headers \ {block_iter} : a \in headers' /\ mem'[a] = mem[a]
      BY <1>3, <1>4, <1>5, BlockFacts
    <2>4. \A a \in headers' \ {block_iter} : mem'[a].reserved = 1 => a \in headers /\ mem[a].reserved = 1
      BY <1>3, <1>4, <2>3
    <2>5. mem'[block_iter].reserved = 1 /\ sz <= mem'[block_iter].size /\ block_iter \in headers'
      BY <1>1, <1>3, <1>4
    <2>6. QED
      BY <1>1, <1>2, <1>3, <2>1, <2>2, <2>3, <2>4, <2>5, OwningChange, BlockFacts
         DEF BlocksInv, Ownership
  <1>7. TypeOK'
    BY <1>1, <1>2, <1>3, <1>4, BlockFacts DEF MallocSplit, BlocksInv, TypeOK, Give, Return, NULL
  <1>8. InMalloc' /\ InFree'
    BY <1>4 DEF InMalloc, InFree
  <1>9. QED
    BY <1>5, <1>6, <1>7, <1>8 DEF BlocksInv

LEMMA MallocWholeBlocks == ASSUME BlocksInv, MallocWhole PROVE BlocksInv'
  <1>1. /\ block_iter \in headers /\ sz \in Nat \ {0}
        /\ mem[block_iter].reserved = 0 /\ mem[block_iter].size >= sz
    BY WalkFacts DEF MallocWhole, Fits
  <1>2. /\ block_iter \in Cells /\ block_iter \in Nat /\ block_iter + 1 \in Cells
        /\ mem[block_iter] \in Cell
    BY <1>1, BlockFacts, CellsType
  <1>3. /\ mem'[block_iter].reserved = 1 /\ mem'[block_iter].size = mem[block_iter].size
        /\ \A c \in Cells \ {block_iter} : mem'[c] = mem[c]
        /\ mem' \in [Cells -> Cell]
    <2>1. [mem[block_iter] EXCEPT !.reserved = 1] = [size |-> mem[block_iter].size, reserved |-> 1]
      BY <1>2 DEF Cell
    <2>2. mem' = [mem EXCEPT ![block_iter] = [mem[block_iter] EXCEPT !.reserved = 1]]
      BY DEF MallocWhole
    <2>3. [size |-> mem[block_iter].size, reserved |-> 1] \in Cell
      BY <1>2, CellFields
    <2>4. QED
      BY <1>2, <2>1, <2>2, <2>3, BlockFacts
  <1>4. /\ headers' = headers /\ current_block_address' = current_block_address
        /\ owned' = [owned EXCEPT ![block_iter + 1] = sz] /\ pc' = "idle"
    BY DEF MallocWhole, Give, Return, history
  <1>5. Chain'
    <2>1. \A b \in headers : mem'[b].size = mem[b].size
      BY <1>3, BlockFacts
    <2>2. QED
      BY <1>3, <1>4, <2>1, TilingSame, BlockFacts DEF BlocksInv, Chain
  <1>6. Ownership'
    <2>1. owned' \in [Cells -> Nat]
      BY <1>1, <1>2, <1>4, BlockFacts
    <2>2. /\ block_iter + 1 \in Int /\ (block_iter + 1) - 1 = block_iter
          /\ owned'[block_iter + 1] = sz
          /\ \A q \in Cells \ {block_iter + 1} : owned'[q] = owned[q]
      BY <1>2, <1>4, BlockFacts
    <2>3. /\ \A a \in headers \ {block_iter} : a \in headers' /\ mem'[a] = mem[a]
          /\ \A a \in headers' \ {block_iter} : a \in headers
          /\ headers' \in SUBSET Cells
      BY <1>3, <1>4, BlockFacts
    <2>4. mem'[block_iter].reserved = 1 /\ sz <= mem'[block_iter].size /\ block_iter \in headers'
      BY <1>1, <1>3, <1>4
    <2>5. QED
      BY <1>1, <1>2, <1>3, <2>1, <2>2, <2>3, <2>4, OwningChange, BlockFacts
         DEF BlocksInv, Ownership
  <1>7. TypeOK'
    BY <1>1, <1>2, <1>3, <1>4, BlockFacts
       DEF MallocWhole, BlocksInv, TypeOK, Give, Return, NULL, Total, history
  <1>8. InMalloc' /\ InFree'
    BY <1>4 DEF InMalloc, InFree
  <1>9. QED
    BY <1>5, <1>6, <1>7, <1>8 DEF BlocksInv

LEMMA MallocFailBlocks == ASSUME BlocksInv, MallocFail PROVE BlocksInv'
  <1>1. TypeOK'
    BY DEF BlocksInv, TypeOK, MallocFail, Return, NULL, heapVars, ownerVars, history
  <1>2. Chain' /\ Ownership'
    BY SameBlocks DEF MallocFail, heapVars, ownerVars, history
  <1>3. InMalloc' /\ InFree'
    BY DEF MallocFail, Return, InMalloc, InFree
  <1>4. QED
    BY <1>1, <1>2, <1>3 DEF BlocksInv

LEMMA MallocBumpBlocks == ASSUME BlocksInv, MallocBump PROVE BlocksInv'
  <1>1. block_iter = current_block_address /\ sz \in Nat \ {0}
    BY WalkFacts DEF MallocBump, NoRoom
  <1>2. block_iter \in Cells /\ block_iter \in Nat /\ block_iter + 1 \in Cells
    BY <1>1, BlockFacts, CellsType DEF MallocBump, NoRoom
  <1>3. /\ mem'[block_iter] = [size |-> sz, reserved |-> 1]
        /\ \A c \in Cells \ {block_iter} : mem'[c] = mem[c]
        /\ mem' \in [Cells -> Cell]
    <2>1. [size |-> sz, reserved |-> 1] \in Cell
      BY <1>1, CellFields
    <2>2. QED
      BY <1>2, <2>1, BlockFacts DEF MallocBump, NoRoom
  <1>4. /\ headers' = headers \cup {block_iter}
        /\ current_block_address' = block_iter + sz + 1
        /\ owned' = [owned EXCEPT ![block_iter + 1] = sz] /\ pc' = "idle"
    BY DEF MallocBump, Give, Return
  <1>5. block_iter \notin headers
    BY <1>1, BlockFacts
  <1>6. Chain'
    <2>1. \A b \in headers : mem'[b].size = mem[b].size
      BY <1>3, <1>5, BlockFacts
    <2>2. current_block_address' = block_iter + mem'[block_iter].size + 1
      BY <1>3, <1>4
    <2>3. QED
      BY <1>1, <1>2, <1>3, <1>4, <2>1, <2>2, TilingAppend, BlockFacts DEF BlocksInv, Chain
  <1>7. Ownership'
    <2>1. owned' \in [Cells -> Nat] /\ headers' \in SUBSET Cells
      BY <1>1, <1>2, <1>4, BlockFacts
    <2>2. /\ block_iter + 1 \in Int /\ (block_iter + 1) - 1 = block_iter
          /\ owned'[block_iter + 1] = sz
          /\ \A q \in Cells \ {block_iter + 1} : owned'[q] = owned[q]
      BY <1>2, <1>4, BlockFacts
    <2>3. /\ \A a \in headers : a \in headers' /\ mem'[a] = mem[a]
          /\ \A a \in headers' \ {block_iter} : a \in headers
      BY <1>3, <1>4, <1>5, BlockFacts
    <2>4. mem'[block_iter].reserved = 1 /\ mem'[block_iter].size = sz /\ block_iter \in headers'
      BY <1>3, <1>4
    <2>5. QED
      BY <1>1, <1>2, <1>3, <2>1, <2>2, <2>3, <2>4, OwningChange, BlockFacts
         DEF BlocksInv, Ownership
  <1>8. TypeOK'
    <2>1. wasFull' \in BOOLEAN
      BY Zenon DEF MallocBump, NoRoom
    <2>2. current_block_address' \in HeapBase .. HeapEnd
      BY <1>1, <1>4, BlockFacts, CellsType DEF MallocBump, NoRoom
    <2>3. used' \in Int /\ owned' \in [Cells -> Nat] /\ freed' \subseteq Cells
      BY <1>1, <1>2, <1>4, BlockFacts DEF MallocBump, BlocksInv, TypeOK, Give
    <2>4. QED
      BY <1>2, <1>3, <1>4, <2>1, <2>2, <2>3, BlockFacts DEF MallocBump, TypeOK, Return, NULL
  <1>9. InMalloc' /\ InFree'
    BY <1>4 DEF InMalloc, InFree
  <1>10. QED
    BY <1>6, <1>7, <1>8, <1>9 DEF BlocksInv

LEMMA WriteBlocks ==
  ASSUME BlocksInv, NEW p \in Cells, NEW v \in Payloads, Write(p, v) PROVE BlocksInv'
  <1>1. /\ p - 1 \in headers /\ mem[p - 1].reserved = 1 /\ owned[p] <= mem[p - 1].size
        /\ p \in Nat /\ owned[p] \in Nat /\ v \in Cell
    BY CellsType, HeapAssumption, BlockFacts DEF Write, BlocksInv, Ownership, Owning
  <1>2. /\ mem' \in [Cells -> Cell]
        /\ \A c \in Cells : mem'[c] = IF p <= c /\ c < p + owned[p] THEN v ELSE mem[c]
    <2>1. mem \in [Cells -> Cell]
      BY BlockFacts
    <2>2. mem' = Fill(mem, p, owned[p], v)
      BY DEF Write
    <2>3. QED
      BY <1>1, <2>1, <2>2, FillType
  <1>3. \A a \in headers : mem'[a] = mem[a]
    <2>1. \A a \in headers : ~(p <= a /\ a < p + owned[p])
      BY <1>1, BlockFacts
    <2>2. QED
      BY <1>2, <2>1, BlockFacts
  <1>4. UNCHANGED <<current_block_address, owned, headers, pc, alloc, block_iter, prev_alloc, sz>>
        /\ pc = "idle"
    BY DEF Write, callVars, ownerVars, history
  <1>5. Chain'
    BY <1>2, <1>3, <1>4, TilingSame, BlockFacts DEF BlocksInv, Chain
  <1>6. Ownership'
    BY <1>3, <1>4 DEF BlocksInv, Ownership, Owning
  <1>7. TypeOK'
    BY <1>2, <1>4 DEF Write, BlocksInv, TypeOK, ownerVars, history
  <1>8. InMalloc' /\ InFree'
    BY <1>4 DEF InMalloc, InFree
  <1>9. QED
    BY <1>5, <1>6, <1>7, <1>8 DEF BlocksInv

(* What free's marking leaves in memory.                                   *)
LEMMA MarkFreeFacts ==
  ASSUME BlocksInv, NEW a \in headers
  PROVE  /\ MarkFree(a) \in [Cells -> Cell]
         /\ MarkFree(a)[a] = [size |-> mem[a].size, reserved |-> 0]
         /\ \A c \in Cells \ {a} :
              MarkFree(a)[c] = IF a < c /\ c < a + mem[a].size + 1 THEN Zero ELSE mem[c]
         /\ \A b \in headers \ {a} : MarkFree(a)[b] = mem[b]
  <1>1. a \in Nat /\ a \in Cells /\ mem[a].size \in Nat
    BY BlockFacts
  <1> DEFINE filled == Fill(mem, a + 1, mem[a].size, Zero)
  <1>2. /\ filled \in [Cells -> Cell]
        /\ \A c \in Cells : filled[c] = IF a + 1 <= c /\ c < a + 1 + mem[a].size THEN Zero ELSE mem[c]
    <2>1. mem \in [Cells -> Cell] /\ a + 1 \in Nat /\ Zero \in Cell
      BY <1>1, CellFields, BlockFacts
    <2>2. QED
      BY <1>1, <2>1, FillType
  <1>3. MarkFree(a) = [filled EXCEPT ![a] = [size |-> mem[a].size, reserved |-> 0]]
    BY DEF MarkFree
  <1> HIDE DEF filled
  <1>4. [size |-> mem[a].size, reserved |-> 0] \in Cell
    BY <1>1, CellFields
  <1>5. /\ MarkFree(a) \in [Cells -> Cell]
        /\ MarkFree(a)[a] = [size |-> mem[a].size, reserved |-> 0]
        /\ \A c \in Cells \ {a} : MarkFree(a)[c] = filled[c]
    BY <1>1, <1>2, <1>3, <1>4
  <1>6. \A c \in Cells \ {a} :
          MarkFree(a)[c] = IF a < c /\ c < a + mem[a].size + 1 THEN Zero ELSE mem[c]
    BY <1>1, <1>2, <1>5, CellsType
  <1>7. \A b \in headers \ {a} : b \in Cells /\ ~(a < b /\ b < a + mem[a].size + 1)
    BY <1>1, BlockFacts
  <1>8. QED
    BY <1>5, <1>6, <1>7

(* What a merge leaves in memory.                                          *)
LEMMA MergeFacts ==
  ASSUME NEW m \in [Cells -> Cell], NEW a \in Cells, NEW n \in Cells, a # n
  PROVE  /\ Merge(m, a, n) \in [Cells -> Cell]
         /\ Merge(m, a, n)[a] = [size |-> m[a].size + 1 + m[n].size, reserved |-> 0]
         /\ Merge(m, a, n)[n] = Zero
         /\ \A c \in Cells \ {a, n} : Merge(m, a, n)[c] = m[c]
  <1> DEFINE filled == Fill(m, n, 1, Zero)
             head == [size |-> m[a].size + 1 + m[n].size, reserved |-> 0]
  <1>1. n \in Nat /\ \A c \in Cells : c \in Nat
    BY CellsType
  <1>2. /\ filled \in [Cells -> Cell]
        /\ \A c \in Cells : filled[c] = IF n <= c /\ c < n + 1 THEN Zero ELSE m[c]
    <2>1. Zero \in Cell /\ 1 \in Nat
      BY CellFields
    <2>2. QED
      BY <1>1, <2>1, FillType
  <1>3. Merge(m, a, n) = [filled EXCEPT ![a] = head]
    BY DEF Merge
  <1>4. head \in Cell
    <2>1. m[a] \in Cell /\ m[n] \in Cell
      OBVIOUS
    <2>2. m[a].size + 1 + m[n].size \in Nat
      BY <2>1, CellFields
    <2>3. QED
      BY <2>2, CellFields
  <1> HIDE DEF filled, head
  <1>5. \A c \in Cells : filled[c] = IF c = n THEN Zero ELSE m[c]
    BY <1>1, <1>2
  <1>6. /\ Merge(m, a, n) \in [Cells -> Cell]
        /\ Merge(m, a, n)[a] = head
        /\ Merge(m, a, n)[n] = Zero
        /\ \A c \in Cells \ {a, n} : Merge(m, a, n)[c] = m[c]
    BY <1>2, <1>3, <1>4, <1>5
  <1>7. QED
    BY <1>6 DEF head

LEMMA FreeCallBlocks ==
  ASSUME BlocksInv, NEW b \in Cells, owned[b] > 0, FreeCall(b) PROVE BlocksInv'
  <1> DEFINE a == b - 1
             next == a + mem[a].size + 1
             marked == MarkFree(a)
  <1>1. /\ a \in headers /\ a \in Nat /\ a \in Cells /\ mem[a].size \in Nat /\ b = a + 1
        /\ next = NextBlock(a) /\ next \in Nat /\ a < next
    BY CellsType, BlockFacts DEF BlocksInv, Ownership, Owning, NextBlock, Total
  <1>2. /\ marked \in [Cells -> Cell]
        /\ marked[a] = [size |-> mem[a].size, reserved |-> 0]
        /\ \A c \in headers \ {a} : marked[c] = mem[c]
    BY <1>1, MarkFreeFacts
  <1>3. /\ pc' = "free" /\ alloc' = a /\ block_iter' = HeapBase /\ prev_alloc' = NULL
        /\ owned' = [owned EXCEPT ![a + 1] = 0] /\ current_block_address' = current_block_address
    BY <1>1 DEF FreeCall
  <1>4. /\ owned' \in [Cells -> Nat] /\ owned'[a + 1] = 0
        /\ \A q \in Cells \ {a + 1} : owned'[q] = owned[q]
    BY <1>1, <1>3, BlockFacts
  <1>5. /\ mem' \in [Cells -> Cell] /\ headers' \in SUBSET Cells
        /\ a \in headers' /\ mem'[a].reserved = 0
        /\ Chain' /\ Ownership'
    <2> HIDE DEF marked, next, a
    <2>1. CASE MergesNext(marked, next) /\ mem' = Merge(marked, a, next) /\ headers' = headers \ {next}
      <3>1. /\ next \in headers /\ next \in Cells /\ a # next
            /\ marked[next] = mem[next] /\ mem[next].reserved = 0
        BY <1>1, <1>2, <2>1, BlockFacts DEF MergesNext, next
      <3>2. /\ mem' \in [Cells -> Cell]
            /\ mem'[a] = [size |-> marked[a].size + 1 + marked[next].size, reserved |-> 0]
            /\ \A c \in Cells \ {a, next} : mem'[c] = marked[c]
        <4>1. marked \in [Cells -> Cell] /\ a \in Cells /\ mem' = Merge(marked, a, next)
          BY <1>1, <1>2, <2>1
        <4>2. QED
          BY <3>1, <4>1, MergeFacts
      <3>3. /\ mem'[a].size = mem[a].size + 1 + mem[next].size /\ mem'[a].reserved = 0
            /\ \A c \in headers \ {a, next} : mem'[c] = mem[c]
        BY <1>1, <1>2, <3>1, <3>2, BlockFacts
      <3>4. Chain'
        BY <1>1, <1>3, <2>1, <3>1, <3>2, <3>3, TilingMerge, BlockFacts DEF BlocksInv, Chain, next
      <3>5. Ownership'
        BY <1>1, <1>4, <2>1, <3>1, <3>2, <3>3, OwningChange, BlockFacts DEF BlocksInv, Ownership
      <3>6. QED
        BY <1>1, <2>1, <3>1, <3>2, <3>3, <3>4, <3>5, BlockFacts
    <2>2. CASE ~MergesNext(marked, next) /\ mem' = marked /\ headers' = headers
      <3>1. \A c \in headers : mem'[c].size = mem[c].size
        BY <1>2, <2>2
      <3>2. Chain'
        BY <1>2, <1>3, <2>2, <3>1, TilingSame, BlockFacts DEF BlocksInv, Chain
      <3>3. Ownership'
        BY <1>1, <1>2, <1>4, <2>2, OwningChange, BlockFacts DEF BlocksInv, Ownership
      <3>4. QED
        BY <1>1, <1>2, <2>2, <3>2, <3>3, BlockFacts
    <2>3. QED
      BY <1>1, <2>1, <2>2 DEF FreeCall, marked, a
  <1> HIDE DEF marked, next
  <1>6. TypeOK'
    BY <1>1, <1>3, <1>4, <1>5, CellsType, BlockFacts
       DEF FreeCall, BlocksInv, TypeOK, Total, NULL
  <1>7. InMalloc' /\ InFree'
    <2>1. HeapBase \in headers' /\ HeapBase <= a
      BY <1>1, <1>3, <1>5, BlockFacts, CellsType DEF Chain, Tiling
    <2>2. QED
      BY <1>1, <1>3, <1>5, <2>1 DEF InMalloc, InFree
  <1>8. QED
    BY <1>5, <1>6, <1>7 DEF BlocksInv

LEMMA FreeNextBlocks == ASSUME BlocksInv, FreeNext PROVE BlocksInv'
  <1>1. /\ alloc \in headers /\ mem[alloc].reserved = 0
        /\ block_iter \in headers /\ block_iter < alloc
        /\ block_iter' = block_iter + mem[block_iter].size + 1
        /\ prev_alloc' = block_iter
    <2>1. /\ alloc \in headers /\ mem[alloc].reserved = 0
          /\ block_iter \in headers /\ block_iter < alloc
          /\ block_iter' = NextBlock(block_iter) /\ prev_alloc' = block_iter
      BY DEF FreeNext, BlocksInv, InFree
    <2>2. QED
      BY <2>1, BlockFacts DEF NextBlock, Total
  <1>2. UNCHANGED <<mem, current_block_address, owned, headers, alloc, sz>> /\ pc' = "free"
    BY DEF FreeNext, heapVars, ownerVars, history
  <1>3. block_iter' \in headers /\ block_iter' <= alloc /\ block_iter' # HeapBase
        /\ block_iter # NULL /\ block_iter \in Nat /\ block_iter' \in Nat
    BY <1>1, BlockFacts, CellsType DEF NULL
  <1>4. TypeOK'
    BY <1>1, <1>3 DEF FreeNext, BlocksInv, TypeOK, heapVars, ownerVars, history
  <1>5. Chain' /\ Ownership'
    BY <1>2, SameBlocks
  <1>6. InMalloc' /\ InFree'
    <2>1. NextBlock(prev_alloc)' = block_iter'
      BY <1>1, <1>2, BlockFacts DEF NextBlock, Total
    <2>2. QED
      BY <1>1, <1>2, <1>3, <2>1 DEF InMalloc, InFree
  <1>7. QED
    BY <1>4, <1>5, <1>6 DEF BlocksInv

(* Trimming the last block, whatever it is.                                *)
LEMMA ShrinkTiling ==
  ASSUME NEW hs \in SUBSET Cells, mem' \in [Cells -> Cell], current_block_address \in Nat,
         Tiling(hs, mem', current_block_address), NEW a \in hs, Shrink(a, hs)
  PROVE  /\ Chain' /\ headers' \in SUBSET hs
         /\ \A b \in hs \ {a} : b \in headers'
         /\ current_block_address' \in {a, current_block_address}
  <1>1. mem'[a].size \in Nat /\ a \in Nat
    BY CellsType, CellFields
  <1>2. CASE a + mem'[a].size + 1 = current_block_address
    <2>1. current_block_address' = a /\ headers' = hs \ {a}
      BY <1>1, <1>2 DEF Shrink
    <2>2. Tiling(hs \ {a}, mem', a)
      BY <1>2, TilingTrim
    <2>3. QED
      BY <2>1, <2>2 DEF Chain
  <1>3. CASE a + mem'[a].size + 1 # current_block_address
    BY <1>1, <1>3 DEF Shrink, Chain
  <1>4. QED
    BY <1>2, <1>3

LEMMA FreeEndBlocks == ASSUME BlocksInv, FreeEnd PROVE BlocksInv'
  <1> DEFINE after == /\ Chain' /\ Ownership' /\ mem' \in [Cells -> Cell] /\ headers' \subseteq headers
                      /\ current_block_address' \in headers \cup {current_block_address}
  <1>1. /\ alloc \in headers /\ mem[alloc].reserved = 0 /\ block_iter = alloc
        /\ prev_alloc # NULL => /\ prev_alloc \in headers
                               /\ alloc = prev_alloc + mem[prev_alloc].size + 1
        /\ owned' = owned /\ pc' = "idle" /\ alloc \in Nat
    BY BlockFacts DEF FreeEnd, BlocksInv, InFree, NextBlock, Total, Return, ownerVars
  <1>2. alloc + 1 \in Cells => owned[alloc + 1] = 0
    BY <1>1, BlockFacts, CellsType DEF BlocksInv, Ownership, Owning
  <1>3. ASSUME prev_alloc # NULL, mem[prev_alloc].reserved = 0,
               mem' = Merge(mem, prev_alloc, alloc), Shrink(prev_alloc, headers \ {alloc})
        PROVE  after
    <2>1. prev_alloc \in headers /\ prev_alloc # alloc /\ prev_alloc \in Cells /\ alloc \in Cells
      <3>1. prev_alloc \in headers /\ alloc = prev_alloc + mem[prev_alloc].size + 1
        BY <1>1, <1>3
      <3>2. QED
        BY <1>1, <3>1, BlockFacts
    <2>2. /\ mem' \in [Cells -> Cell]
          /\ mem'[prev_alloc] = [size |-> mem[prev_alloc].size + 1 + mem[alloc].size, reserved |-> 0]
          /\ \A c \in Cells \ {prev_alloc, alloc} : mem'[c] = mem[c]
      BY <1>3, <2>1, MergeFacts, BlockFacts
    <2>3. /\ mem'[prev_alloc].size = mem[prev_alloc].size + 1 + mem[alloc].size
          /\ mem'[prev_alloc].reserved = 0
          /\ \A c \in headers \ {prev_alloc, alloc} : mem'[c] = mem[c]
      BY <2>2, BlockFacts
    <2>4. Tiling(headers \ {alloc}, mem', current_block_address)
      <3>1. Tiling(headers, mem, current_block_address) /\ alloc = prev_alloc + mem[prev_alloc].size + 1
        BY <1>1, <1>3 DEF BlocksInv, Chain
      <3>2. \A b \in headers \ {prev_alloc, alloc} : mem'[b].size = mem[b].size
        BY <2>3
      <3>3. /\ headers \in SUBSET Cells /\ mem \in [Cells -> Cell] /\ mem' \in [Cells -> Cell]
            /\ current_block_address \in Nat /\ alloc \in headers
        BY <1>1, <2>2, BlockFacts
      <3>4. QED
        BY <2>1, <2>3, <3>1, <3>2, <3>3, TilingMerge
    <2>5. /\ Chain' /\ headers' \in SUBSET (headers \ {alloc})
          /\ \A b \in headers \ {alloc, prev_alloc} : b \in headers'
          /\ current_block_address' \in {prev_alloc, current_block_address}
      BY <1>3, <2>1, <2>2, <2>4, ShrinkTiling, BlockFacts
    <2>6. Ownership'
      <3>1. \A c \in headers \ {alloc} : mem[c].reserved = 1 => c \in headers' /\ mem'[c] = mem[c]
        BY <1>3, <2>3, <2>5
      <3>2. \A c \in headers' \ {alloc} : mem'[c].reserved = 1 => c \in headers /\ mem[c].reserved = 1
        BY <2>3, <2>5
      <3>3. headers' \in SUBSET Cells /\ alloc \notin headers' /\ (alloc + 1) - 1 = alloc /\ alloc + 1 \in Int
        BY <1>1, <2>5, BlockFacts
      <3>4. QED
        <4> DEFINE p == alloc + 1
        <4>1. /\ p \in Int /\ p - 1 = alloc /\ p - 1 \notin headers'
              /\ p \in Cells => owned[p] = 0
          BY <1>1, <1>2, <3>3
        <4> HIDE DEF p
        <4>2. /\ \A c \in headers \ {p - 1} : mem[c].reserved = 1 => c \in headers' /\ mem'[c] = mem[c]
              /\ \A c \in headers' \ {p - 1} : mem'[c].reserved = 1 => c \in headers /\ mem[c].reserved = 1
          BY <3>1, <3>2, <4>1
        <4>3. Owning(headers', mem', owned)
          <5>1. /\ headers \in SUBSET Cells /\ mem \in [Cells -> Cell] /\ mem' \in [Cells -> Cell]
                /\ owned \in [Cells -> Nat] /\ headers' \in SUBSET Cells
                /\ Owning(headers, mem, owned)
            BY <2>2, <3>3, BlockFacts DEF BlocksInv, Ownership
          <5>2. QED
            BY <4>1, <4>2, <5>1, OwningChange
        <4>4. QED
          BY <1>1, <4>3 DEF Ownership
    <2>7. QED
      BY <1>1, <2>1, <2>2, <2>5, <2>6
  <1>4. ASSUME mem' = mem, Shrink(alloc, headers)
        PROVE  after
    <2>1. /\ Chain' /\ headers' \in SUBSET headers
          /\ \A b \in headers \ {alloc} : b \in headers'
          /\ current_block_address' \in {alloc, current_block_address}
      BY <1>1, <1>4, ShrinkTiling, BlockFacts DEF BlocksInv, Chain
    <2>2. Ownership'
      <3>1. headers' \in SUBSET Cells /\ (alloc + 1) - 1 = alloc /\ alloc + 1 \in Int
        BY <1>1, <2>1, BlockFacts
      <3>2. QED
        BY <1>1, <1>2, <1>4, <2>1, <3>1, OwningChange, BlockFacts DEF BlocksInv, Ownership
    <2>3. QED
      BY <1>1, <1>4, <2>1, <2>2, BlockFacts
  <1>5. after
    <2>1. CASE prev_alloc # NULL /\ mem[prev_alloc].reserved = 0
      BY <1>1, <1>3, <2>1 DEF FreeEnd
    <2>2. CASE ~(prev_alloc # NULL /\ mem[prev_alloc].reserved = 0)
      BY <1>1, <1>4, <2>2 DEF FreeEnd
    <2>3. QED
      BY <2>1, <2>2
  <1>6. TypeOK'
    BY <1>1, <1>5, BlockFacts, CellsType DEF FreeEnd, BlocksInv, TypeOK, Return, NULL, ownerVars
  <1>7. InMalloc' /\ InFree'
    BY <1>1 DEF InMalloc, InFree
  <1>8. QED
    BY <1>5, <1>6, <1>7 DEF BlocksInv

-----------------------------------------------------------------------------
(* Pointers that were freed.                                               *)

(* Freed pointers stay apart from reserved blocks when no block becomes    *)
(* reserved and their header cells are still free.                         *)
LEMMA FreedKept ==
  ASSUME FreedApart, freed' = freed,
         \A p \in freed : mem'[p - 1].reserved = 0,
         \A a \in headers' : mem'[a].reserved = 1 => a \in headers /\ mem'[a] = mem[a]
  PROVE  FreedApart'
  BY DEF FreedApart, NextBlock, Total

LEMMA FreeCallFreed ==
  ASSUME BlocksInv, FreedApart, NEW b \in Cells, owned[b] > 0, FreeCall(b) PROVE FreedApart'
  <1> DEFINE a == b - 1
             next == NextBlock(a)
             marked == MarkFree(a)
  <1>1. /\ a \in headers /\ a \in Nat /\ a \in Cells /\ mem[a].size \in Nat /\ mem[a].reserved = 1
        /\ next = a + mem[a].size + 1
    BY CellsType, BlockFacts DEF BlocksInv, Ownership, Owning, NextBlock, Total
  <1>2. /\ marked[a].reserved = 0
        /\ \A c \in Cells \ {a} : marked[c] = IF a < c /\ c < next THEN Zero ELSE mem[c]
        /\ \A c \in headers \ {a} : marked[c] = mem[c]
        /\ marked \in [Cells -> Cell]
    <2> HIDE DEF next, a
    <2>1. /\ marked[a] = [size |-> mem[a].size, reserved |-> 0]
          /\ \A c \in Cells \ {a} :
               marked[c] = IF a < c /\ c < a + mem[a].size + 1 THEN Zero ELSE mem[c]
          /\ \A c \in headers \ {a} : marked[c] = mem[c]
          /\ marked \in [Cells -> Cell]
      BY <1>1, MarkFreeFacts
    <2>2. QED
      BY <1>1, <2>1
  <1>3. freed' = freed \cup {b}
    BY DEF FreeCall
  <1>4. /\ mem'[a].reserved = 0 /\ headers' \subseteq headers
        /\ \A c \in Cells : marked[c].reserved = 0 => mem'[c].reserved = 0
        /\ \A c \in headers' \ {a} : mem'[c] = marked[c]
    <2> HIDE DEF marked, next, a
    <2>1. CASE MergesNext(marked, next) /\ mem' = Merge(marked, a, next) /\ headers' = headers \ {next}
      <3>1. next \in Cells /\ a # next
        BY <1>1, <2>1, BlockFacts DEF MergesNext
      <3>2. /\ mem'[a] = [size |-> marked[a].size + 1 + marked[next].size, reserved |-> 0]
            /\ mem'[next] = Zero
            /\ \A c \in Cells \ {a, next} : mem'[c] = marked[c]
        <4>1. marked \in [Cells -> Cell] /\ a \in Cells /\ mem' = Merge(marked, a, next)
          BY <1>1, <1>2, <2>1
        <4>2. QED
          BY <3>1, <4>1, MergeFacts
      <3>3. QED
        BY <1>1, <2>1, <3>2, BlockFacts DEF Zero
    <2>2. CASE mem' = marked /\ headers' = headers
      BY <1>2, <2>2
    <2>3. QED
      BY <2>1, <2>2 DEF FreeCall, marked, a, next
  <1> HIDE DEF marked
  <1>5. ASSUME NEW p \in freed, p # b
        PROVE  mem'[p - 1].reserved = 0
    <2>1. p - 1 \in Cells /\ mem[p - 1].reserved = 0 /\ (p - 1 < a \/ next <= p - 1)
      BY <1>1 DEF FreedApart
    <2>2. marked[p - 1] = mem[p - 1]
      BY <1>1, <1>2, <2>1, CellsType
    <2>3. QED
      BY <1>4, <2>1, <2>2
  <1>6. ASSUME NEW c \in headers', mem'[c].reserved = 1
        PROVE  /\ c \in headers /\ c # a /\ mem'[c] = mem[c] /\ mem[c].reserved = 1
               /\ a < c \/ NextBlock(c) <= a
    <2>1. c \in headers /\ c # a /\ mem'[c] = mem[c]
      BY <1>2, <1>4, <1>6
    <2>2. a < c \/ c + mem[c].size + 1 <= a
      BY <1>1, <2>1, BlockFacts
    <2>3. QED
      BY <1>6, <2>1, <2>2, BlockFacts DEF NextBlock, Total
  <1>7. ASSUME NEW p \in freed'
        PROVE  /\ p - 1 \in Cells /\ mem'[p - 1].reserved = 0
               /\ \A c \in headers' : mem'[c].reserved = 1 => p - 1 < c \/ NextBlock(c)' <= p - 1
    <2>1. CASE p = b
      BY <2>1, <1>1, <1>4, <1>6 DEF NextBlock, Total
    <2>2. CASE p # b
      BY <2>2, <1>3, <1>5, <1>6 DEF FreedApart, NextBlock, Total
    <2>3. QED
      BY <2>1, <2>2
  <1>8. QED
    BY <1>7 DEF FreedApart

LEMMA FreeEndFreed == ASSUME BlocksInv, FreedApart, FreeEnd PROVE FreedApart'
  <1>1. \A p \in freed : p - 1 \in Cells /\ mem[p - 1].reserved = 0
    BY DEF FreedApart
  <1>2. freed' = freed /\ headers' \subseteq headers
    BY DEF FreeEnd, Shrink, ownerVars
  <1>3. alloc \in headers /\ mem[alloc].reserved = 0 /\ alloc \in Cells
    BY BlockFacts DEF FreeEnd, BlocksInv, InFree
  <1>4. ASSUME prev_alloc # NULL, mem[prev_alloc].reserved = 0,
               mem' = Merge(mem, prev_alloc, alloc), headers' \subseteq headers \ {alloc}
        PROVE  FreedApart'
    <2>1. /\ prev_alloc \in headers /\ prev_alloc \in Cells /\ prev_alloc # alloc
          /\ mem \in [Cells -> Cell]
      <3>1. prev_alloc \in headers /\ block_iter = NextBlock(prev_alloc) /\ block_iter <= alloc
        BY <1>4 DEF FreeEnd, BlocksInv, InFree
      <3>2. QED
        BY <3>1, BlockFacts DEF NextBlock, Total
    <2>2. /\ mem'[prev_alloc] = [size |-> mem[prev_alloc].size + 1 + mem[alloc].size, reserved |-> 0]
          /\ mem'[alloc] = Zero
          /\ \A c \in Cells \ {prev_alloc, alloc} : mem'[c] = mem[c]
      BY <1>3, <1>4, <2>1, MergeFacts
    <2>3. mem'[prev_alloc].reserved = 0 /\ mem'[alloc].reserved = 0
      BY <2>2 DEF Zero
    <2>4. \A p \in freed : mem'[p - 1].reserved = 0
      BY <1>1, <2>2, <2>3
    <2>5. \A c \in headers' : mem'[c].reserved = 1 => c \in headers /\ mem'[c] = mem[c]
      BY <1>4, <2>2, <2>3, BlockFacts
    <2>6. QED
      BY <1>2, <2>4, <2>5, FreedKept
  <1>5. ASSUME mem' = mem PROVE FreedApart'
    BY <1>1, <1>2, <1>5, FreedKept
  <1>6. QED
    BY <1>4, <1>5 DEF FreeEnd, Shrink

LEMMA WriteFreed ==
  ASSUME BlocksInv, FreedApart, NEW p \in Cells, NEW v \in Payloads, Write(p, v)
  PROVE  FreedApart'
  <1>1. /\ p - 1 \in headers /\ mem[p - 1].reserved = 1 /\ owned[p] <= mem[p - 1].size
        /\ p \in Nat /\ owned[p] \in Nat /\ v \in Cell
    BY CellsType, HeapAssumption, BlockFacts DEF Write, BlocksInv, Ownership, Owning
  <1>2. \A c \in Cells : mem'[c] = IF p <= c /\ c < p + owned[p] THEN v ELSE mem[c]
    <2>1. mem \in [Cells -> Cell]
      BY BlockFacts
    <2>2. mem' = Fill(mem, p, owned[p], v)
      BY DEF Write
    <2>3. QED
      BY <1>1, <2>1, <2>2, FillType
  <1>3. \A q \in freed : mem'[q - 1].reserved = 0
    <2>1. \A q \in freed : /\ q - 1 \in Cells /\ mem[q - 1].reserved = 0
                           /\ q - 1 < p - 1 \/ p + mem[p - 1].size <= q - 1
      BY <1>1, BlockFacts DEF FreedApart, NextBlock, Total
    <2>2. QED
      BY <1>1, <1>2, <2>1, BlockFacts, CellsType
  <1>4. \A a \in headers : mem'[a] = mem[a]
    <2>1. \A a \in headers : ~(p <= a /\ a < p + owned[p])
      BY <1>1, BlockFacts
    <2>2. QED
      BY <1>2, <2>1, BlockFacts
  <1>5. freed' = freed /\ headers' = headers
    BY DEF Write, ownerVars, history
  <1>6. QED
    BY <1>3, <1>4, <1>5, FreedKept

-----------------------------------------------------------------------------
(* The theorems.                                                           *)

LEMMA HeapInvStep == HeapInv /\ [Next]_vars => HeapInv'
  <1> SUFFICES ASSUME BlocksInv, FreedApart, [Next]_vars
               PROVE  BlocksInv' /\ FreedApart'
    BY DEF HeapInv
  <1>1. ASSUME NEW n \in Requests, MallocCall(n) PROVE BlocksInv' /\ FreedApart'
    BY <1>1, MallocCallBlocks DEF MallocCall, FreedApart, NextBlock, Total, heapVars, ownerVars, history
  <1>2. ASSUME NEW b \in Cells, owned[b] > 0, FreeCall(b) PROVE BlocksInv' /\ FreedApart'
    BY <1>2, FreeCallBlocks, FreeCallFreed
  <1>3. ASSUME NEW b \in freed, FreeCall(b) PROVE FALSE
    BY <1>3 DEF FreedApart, FreeCall
  <1>4. ASSUME NEW p \in Cells, NEW v \in Payloads, Write(p, v) PROVE BlocksInv' /\ FreedApart'
    BY <1>4, WriteBlocks, WriteFreed
  <1>5. CASE MallocNext
    BY <1>5, MallocNextBlocks DEF MallocNext, FreedApart, NextBlock, Total, heapVars, ownerVars, history
  <1>6. CASE MallocSplit
    BY <1>6, MallocSplitBlocks DEF MallocSplit, Give, FreedApart
  <1>7. CASE MallocWhole
    BY <1>7, MallocWholeBlocks DEF MallocWhole, Give, FreedApart
  <1>8. CASE MallocFail
    BY <1>8, MallocFailBlocks DEF MallocFail, FreedApart, NextBlock, Total, heapVars, ownerVars, history
  <1>9. CASE MallocBump
    BY <1>9, MallocBumpBlocks DEF MallocBump, Give, FreedApart
  <1>10. CASE FreeNext
    BY <1>10, FreeNextBlocks DEF FreeNext, FreedApart, NextBlock, Total, heapVars, ownerVars, history
  <1>11. CASE FreeEnd
    BY <1>11, FreeEndBlocks, FreeEndFreed
  <1>12. CASE UNCHANGED vars
    <2>1. BlocksInv'
      BY <1>12 DEF vars, heapVars, callVars, ownerVars, history, BlocksInv, TypeOK, Chain, Tiling,
                   Ownership, Owning, InMalloc, InFree, Fits, NextBlock, Total
    <2>2. FreedApart'
      BY <1>12 DEF vars, heapVars, ownerVars, history, FreedApart, NextBlock, Total
    <2>3. QED
      BY <2>1, <2>2
  <1>13. QED
    BY <1>1, <1>2, <1>3, <1>4, <1>5, <1>6, <1>7, <1>8, <1>9, <1>10, <1>11, <1>12
       DEF Next, Call, Step

(* In every reachable state of the allocator the blocks tile the heap, the *)
(* reserved blocks are the owned ones, the walks of malloc and free are at *)
(* headers, and no freed pointer has its header cell in a reserved block.  *)
THEOREM HeapInvariant == Spec => []HeapInv
  <1>1. Init => HeapInv
    BY InitBlocks DEF HeapInv, FreedApart, Init
  <1>2. QED
    BY <1>1, HeapInvStep, PTL DEF Spec

(* Type correctness: the high-water mark never leaves the heap.            *)
THEOREM HeapTypeOK == Spec => []TypeOK
  <1>1. HeapInv => TypeOK
    BY DEF HeapInv, BlocksInv
  <1>2. QED
    BY <1>1, HeapInvariant, PTL

(* The header chain that malloc and free walk is never broken, whatever    *)
(* owners store in their payloads (heap.c:73-116, 191-199).                *)
THEOREM HeapChain == Spec => []Chain
  <1>1. HeapInv => Chain
    BY DEF HeapInv, BlocksInv
  <1>2. QED
    BY <1>1, HeapInvariant, PTL

(* No reserved block is lost, handed out twice or smaller than asked for.  *)
THEOREM HeapOwnership == Spec => []Ownership
  <1>1. HeapInv => Ownership
    BY DEF HeapInv, BlocksInv
  <1>2. QED
    BY <1>1, HeapInvariant, PTL

(* The double free check of free (heap.c:148-152) recognises every pointer *)
(* freed since malloc last returned memory.                                *)
THEOREM HeapDoubleFree == Spec => []DoubleFreeIgnored
  <1>1. HeapInv => DoubleFreeIgnored
    BY DEF HeapInv, FreedApart, DoubleFreeIgnored
  <1>2. QED
    BY <1>1, HeapInvariant, PTL

(* malloc is first fit: the block it hands out is the lowest that is free  *)
(* and large enough.                                                       *)
THEOREM HeapFirstFit == Spec => FirstFit
  <1>1. HeapInv /\ [Next]_vars => [FirstFitStep]_vars
    <2> SUFFICES ASSUME BlocksInv, FreedApart, Next,
                        NEW p \in Cells, owned[p] = 0, owned'[p] > 0,
                        NEW a \in headers, mem[a].reserved = 0, mem[a].size >= owned'[p]
                 PROVE  p - 1 <= a
      BY DEF HeapInv, FirstFitStep
    <2>1. a \in Nat /\ p \in Nat /\ owned \in [Cells -> Nat]
      BY BlockFacts, CellsType
    <2>2. ASSUME Give(block_iter), pc = "malloc" PROVE p - 1 <= a
      <3>1. p = block_iter + 1 /\ owned'[p] = sz
        BY <2>1, <2>2 DEF Give
      <3>2. a < block_iter => ~Fits(a)
        BY <2>2 DEF BlocksInv, InMalloc
      <3>3. block_iter \in Nat
        BY DEF BlocksInv, TypeOK
      <3>4. QED
        BY <2>1, <3>1, <3>2, <3>3 DEF Fits
    <2>3. ASSUME NEW b \in Cells, FreeCall(b) PROVE FALSE
      BY <2>1, <2>3 DEF FreeCall
    <2>4. ASSUME owned' = owned PROVE FALSE
      BY <2>1, <2>4
    <2>5. QED
      BY <2>2, <2>3, <2>4
         DEF Next, Call, Step, MallocCall, Write, MallocNext, MallocSplit, MallocWhole,
             MallocFail, MallocBump, FreeNext, FreeEnd, ownerVars
  <1>2. QED
    BY <1>1, HeapInvariant, PTL DEF Spec, FirstFit

-----------------------------------------------------------------------------
(* The allocator keeps its promise.                                        *)

LEMMA PromiseCells == Promise!Cells = Cells /\ Promise!HeapEnd = HeapEnd
  BY DEF Promise!Cells, Cells, Promise!HeapEnd, HeapEnd

(* A free block, or the space above the high-water mark, is apart from     *)
(* every extent that is owned.                                             *)
LEMMA GivesPromised ==
  ASSUME BlocksInv, pc = "malloc", Give(block_iter), sz + block_iter + 1 <= HeapEnd,
         \/ block_iter \in headers /\ mem[block_iter].reserved = 0 /\ mem[block_iter].size >= sz
         \/ block_iter = current_block_address
  PROVE  block_iter + 1 \in Cells /\ sz \in Requests /\ Promise!Malloc(block_iter + 1, sz)
  <1>1. sz \in Requests /\ sz \in Nat \ {0} /\ block_iter \in Nat /\ HeapBase <= block_iter
    BY WalkFacts, BlockFacts, CellsType DEF BlocksInv, InMalloc
  <1>2. block_iter + 1 \in Cells
    BY <1>1, CellsType
  <1>3. ASSUME NEW q \in Cells, owned[q] > 0
        PROVE  q # block_iter + 1 /\ Promise!Apart(block_iter + 1, sz, q, owned[q])
    <2>1. /\ q - 1 \in headers /\ mem[q - 1].reserved = 1 /\ owned[q] <= mem[q - 1].size
          /\ q \in Nat /\ owned[q] \in Nat
      BY <1>3, BlockFacts, CellsType DEF BlocksInv, Ownership, Owning
    <2>2. q - 1 # block_iter /\ mem[q - 1].size \in Nat
      BY <1>1, <2>1, BlockFacts
    <2>3. q + owned[q] <= block_iter \/ block_iter + 1 + sz <= q - 1
      <3>1. CASE block_iter = current_block_address
        BY <1>1, <2>1, <2>2, <3>1, BlockFacts
      <3>2. CASE block_iter \in headers /\ mem[block_iter].size >= sz
        BY <1>1, <2>1, <2>2, <3>2, BlockFacts
      <3>3. QED
        BY <3>1, <3>2
    <2>4. QED
      BY <1>1, <2>1, <2>2, <2>3 DEF Promise!Apart
  <1>4. owned[block_iter + 1] = 0
    BY <1>1, <1>2, <1>3, BlockFacts
  <1>5. QED
    BY <1>1, <1>2, <1>3, <1>4, PromiseCells DEF Promise!Malloc, Give

(* Every call of malloc and free is one the callers may expect: memory     *)
(* that malloc gives out overlaps nothing that is owned.                   *)
THEOREM HeapKeepsPromise == Spec => PromiseSpec
  <1>1. Init => Promise!Init
    BY PromiseCells DEF Init, Promise!Init
  <1>2. HeapInv /\ [Next]_vars => [Promise!Next]_owned
    <2> SUFFICES ASSUME BlocksInv, FreedApart, Next, owned' # owned
                 PROVE  Promise!Next
      BY DEF HeapInv, vars, ownerVars
    <2>1. ASSUME NEW b \in Cells, owned[b] > 0, FreeCall(b) PROVE Promise!Next
      BY <2>1, PromiseCells DEF FreeCall, Promise!Next, Promise!Free
    <2>2. ASSUME NEW b \in freed, FreeCall(b) PROVE FALSE
      BY <2>2 DEF FreedApart, FreeCall
    <2>3. ASSUME MallocSplit \/ MallocWhole PROVE Promise!Next
      <3>1. /\ pc = "malloc" /\ Give(block_iter) /\ block_iter \in headers
            /\ mem[block_iter].reserved = 0 /\ mem[block_iter].size >= sz /\ sz \in Nat
        BY <2>3, WalkFacts DEF MallocSplit, MallocWhole, Fits
      <3>2. sz + block_iter + 1 <= HeapEnd
        BY <3>1, BlockFacts, CellsType
      <3>3. QED
        BY <3>1, <3>2, GivesPromised, PromiseCells DEF Promise!Next
    <2>4. ASSUME MallocBump PROVE Promise!Next
      <3>1. /\ pc = "malloc" /\ Give(block_iter) /\ block_iter = current_block_address
            /\ sz \in Nat /\ block_iter + sz + 1 <= HeapEnd
        <4>1. pc = "malloc" /\ Give(block_iter) /\ block_iter >= current_block_address /\ ~NoRoom
          BY <2>4 DEF MallocBump
        <4>2. sz \in Nat /\ block_iter = current_block_address /\ block_iter \in Nat /\ HeapEnd \in Nat
          BY <4>1, WalkFacts, BlockFacts, CellsType
        <4>3. QED
          BY <4>1, <4>2 DEF NoRoom
      <3>2. sz + block_iter + 1 <= HeapEnd
        BY <3>1, BlockFacts, CellsType
      <3>3. QED
        BY <3>1, <3>2, GivesPromised, PromiseCells DEF Promise!Next
    <2>5. QED
      BY <2>1, <2>2, <2>3, <2>4
         DEF Next, Call, Step, MallocCall, Write, MallocNext, MallocFail, FreeNext, FreeEnd, ownerVars
  <1>3. QED
    BY <1>1, <1>2, HeapInvariant, PTL DEF Spec, PromiseSpec, Promise!Spec


-----------------------------------------------------------------------------
(* What the steps leave behind.                                            *)

(* Where the blocks below the high-water mark begin and end.               *)
LEMMA NextFacts ==
  ASSUME BlocksInv
  PROVE  \A a \in headers :
           /\ a \in Nat /\ a \in Cells /\ mem[a].size \in Nat /\ mem[a].reserved \in {0, 1}
           /\ NextBlock(a) = a + mem[a].size + 1 /\ NextBlock(a) \in Nat
           /\ NextBlock(a) \in headers \cup {current_block_address}
           /\ \A b \in headers : a < b => NextBlock(a) <= b
  BY BlockFacts, CellsType DEF NextBlock, Total

(* A split: the block given out, then a free one over the rest.            *)
LEMMA SplitFacts ==
  ASSUME BlocksInv, MallocSplit
  PROVE  LET new == block_iter + sz + 1
         IN  /\ block_iter \in headers /\ mem[block_iter].reserved = 0
             /\ new \in Cells /\ new \notin headers /\ headers' = headers \cup {new}
             /\ block_iter < new /\ new < NextBlock(block_iter)
             /\ mem'[block_iter].reserved = 1
             /\ mem'[new].reserved = 0 /\ new + mem'[new].size + 1 = NextBlock(block_iter)
             /\ \A c \in Cells \ {block_iter, new} : mem'[c] = mem[c]
             /\ current_block_address' = current_block_address /\ pc' = "idle"
  <1> DEFINE new == block_iter + sz + 1
             rest == Remaining - 1
  <1>1. /\ block_iter \in headers /\ sz \in Nat \ {0}
        /\ mem[block_iter].reserved = 0 /\ mem[block_iter].size >= sz
    BY WalkFacts DEF MallocSplit, Fits
  <1>2. /\ block_iter \in Nat /\ mem[block_iter].size \in Nat
        /\ NextBlock(block_iter) = block_iter + mem[block_iter].size + 1
        /\ Remaining = mem[block_iter].size - sz /\ Remaining >= 3
    BY <1>1, NextFacts DEF MallocSplit, CanSplit, Remaining, Total
  <1>3. /\ rest \in Nat /\ block_iter < new /\ new < NextBlock(block_iter)
        /\ new + rest + 1 = NextBlock(block_iter)
    BY <1>1, <1>2
  <1>4. new \in Cells /\ new \notin headers
    BY <1>1, <1>3, NextFacts, BlockFacts, CellsType
  <1> HIDE DEF rest
  <1>5. /\ mem'[block_iter] = [size |-> sz, reserved |-> 1]
        /\ mem'[new] = [size |-> rest, reserved |-> 0]
        /\ \A c \in Cells \ {block_iter, new} : mem'[c] = mem[c]
    <2>1. mem' = [mem EXCEPT ![block_iter] = [size |-> sz, reserved |-> 1],
                             ![new] = [size |-> rest, reserved |-> 0]]
      BY DEF MallocSplit, rest
    <2>2. block_iter # new /\ block_iter \in Cells /\ mem \in [Cells -> Cell]
      BY <1>1, <1>4, BlockFacts
    <2> HIDE DEF new
    <2>3. QED
      BY <1>4, <2>1, <2>2
  <1>6. /\ headers' = headers \cup {new} /\ pc' = "idle"
        /\ current_block_address' = current_block_address
    BY DEF MallocSplit, Return
  <1>7. new + mem'[new].size + 1 = NextBlock(block_iter)
    BY <1>3, <1>5
  <1>8. mem'[block_iter].reserved = 1 /\ mem'[new].reserved = 0
    BY <1>5
  <1> HIDE DEF new
  <1>9. QED
    BY <1>1, <1>3, <1>4, <1>5, <1>6, <1>7, <1>8 DEF new

(* A block given out whole.                                                *)
LEMMA WholeFacts ==
  ASSUME BlocksInv, MallocWhole
  PROVE  /\ block_iter \in headers /\ mem[block_iter].reserved = 0
         /\ mem'[block_iter].reserved = 1
         /\ \A c \in Cells \ {block_iter} : mem'[c] = mem[c]
         /\ UNCHANGED <<headers, current_block_address>> /\ pc' = "idle"
  <1>1. block_iter \in headers /\ mem[block_iter].reserved = 0
    BY WalkFacts DEF MallocWhole, Fits
  <1>2. block_iter \in Cells /\ mem[block_iter] \in Cell /\ mem \in [Cells -> Cell]
    BY <1>1, BlockFacts
  <1>3. mem' = [mem EXCEPT ![block_iter] = [mem[block_iter] EXCEPT !.reserved = 1]]
    BY DEF MallocWhole
  <1>4. [mem[block_iter] EXCEPT !.reserved = 1] = [size |-> mem[block_iter].size, reserved |-> 1]
    BY <1>2 DEF Cell
  <1>5. QED
    BY <1>1, <1>2, <1>3, <1>4 DEF MallocWhole, Return, history

(* A new block at the high-water mark.                                     *)
LEMMA BumpFacts ==
  ASSUME BlocksInv, MallocBump
  PROVE  /\ block_iter = current_block_address /\ block_iter \in Cells /\ block_iter \notin headers
         /\ mem'[block_iter].reserved = 1
         /\ \A c \in Cells \ {block_iter} : mem'[c] = mem[c]
         /\ headers' = headers \cup {block_iter}
         /\ current_block_address' \in Nat /\ current_block_address' <= HeapEnd /\ pc' = "idle"
  <1>1. block_iter = current_block_address /\ sz \in Nat \ {0}
    BY WalkFacts DEF MallocBump
  <1>2. ~(block_iter + sz + 1 > HeapEnd) /\ current_block_address' = block_iter + sz + 1
    BY DEF MallocBump, NoRoom
  <1>3. block_iter \in Cells /\ block_iter \notin headers
        /\ current_block_address' \in Nat /\ current_block_address' <= HeapEnd
    BY <1>1, <1>2, BlockFacts, CellsType
  <1>4. mem' = [mem EXCEPT ![block_iter] = [size |-> sz, reserved |-> 1]] /\ mem \in [Cells -> Cell]
    BY BlockFacts DEF MallocBump
  <1>5. QED
    BY <1>1, <1>3, <1>4 DEF MallocBump, Return

(* A block freed, merged with the one behind it if that one is free.       *)
LEMMA FreeCallFacts ==
  ASSUME BlocksInv, NEW b \in Cells, owned[b] > 0, FreeCall(b)
  PROVE  LET a    == b - 1
             next == NextBlock(a)
             merges == next \in headers /\ mem[next].reserved = 0
                       /\ current_block_address < HeapEnd
         IN  /\ a \in headers /\ mem[a].reserved = 1
             /\ headers' = (IF merges THEN headers \ {next} ELSE headers)
             /\ NextBlock(a)' = (IF merges THEN NextBlock(next) ELSE next)
             /\ mem'[a].reserved = 0
             /\ \A c \in Cells : a < c /\ c < next => mem'[c] = Zero
             /\ merges => mem'[next] = Zero
             /\ \A c \in Cells : c < a \/ next < c \/ (c = next /\ ~merges) => mem'[c] = mem[c]
             /\ UNCHANGED current_block_address /\ pc' = "free" /\ alloc' = a
  <1> DEFINE a == b - 1
             next == NextBlock(a)
             merges == next \in headers /\ mem[next].reserved = 0
                       /\ current_block_address < HeapEnd
             marked == MarkFree(a)
  <1>1. a \in headers /\ mem[a].reserved = 1
    BY CellsType, BlockFacts DEF BlocksInv, Ownership, Owning
  <1>2. /\ a \in Nat /\ a \in Cells /\ mem[a].size \in Nat /\ next = a + mem[a].size + 1
        /\ next \in Nat /\ next \in headers \cup {current_block_address}
    BY <1>1, NextFacts
  <1> HIDE DEF next, a
  <1>3. /\ marked \in [Cells -> Cell]
        /\ marked[a] = [size |-> mem[a].size, reserved |-> 0]
        /\ \A c \in Cells \ {a} :
             marked[c] = IF a < c /\ c < a + mem[a].size + 1 THEN Zero ELSE mem[c]
        /\ \A c \in headers \ {a} : marked[c] = mem[c]
    BY <1>1, MarkFreeFacts
  <1> HIDE DEF marked
  <1>4. merges <=> MergesNext(marked, next)
    <2>1. next < current_block_address <=> next \in headers
      BY <1>2, BlockFacts
    <2>2. next < current_block_address => next + 1 <= HeapEnd
      BY <1>2, BlockFacts, CellsType
    <2>3. next \in headers => marked[next] = mem[next]
      BY <1>2, <1>3
    <2>4. QED
      BY <2>1, <2>2, <2>3 DEF MergesNext
  <1>5. \A c \in Cells : /\ c < a \/ next <= c => marked[c] = mem[c]
                         /\ a < c /\ c < next => marked[c] = Zero
    BY <1>2, <1>3, CellsType
  <1>6. /\ merges => mem' = Merge(marked, a, next) /\ headers' = headers \ {next}
        /\ ~merges => mem' = marked /\ headers' = headers
        /\ current_block_address' = current_block_address /\ pc' = "free" /\ alloc' = a
    BY <1>4 DEF FreeCall, marked, a, next
  <1>7. CASE merges
    <2>1. next \in Cells /\ a # next /\ mem[next].size \in Nat /\ marked[next] = mem[next]
          /\ NextBlock(next) = next + mem[next].size + 1
      BY <1>2, <1>3, <1>7, NextFacts
    <2>2. /\ mem'[a] = [size |-> marked[a].size + 1 + marked[next].size, reserved |-> 0]
          /\ mem'[next] = Zero
          /\ \A c \in Cells \ {a, next} : mem'[c] = marked[c]
      BY <1>2, <1>3, <1>6, <1>7, <2>1, MergeFacts
    <2>3. mem'[a].size = mem[a].size + 1 + mem[next].size /\ mem'[a].reserved = 0
      BY <1>3, <2>1, <2>2
    <2>4. a' = a
      BY <1>1 DEF a
    <2>5. NextBlock(a)' = a + (mem'[a].size + 1)
      BY <2>4 DEF NextBlock, Total
    <2>6. NextBlock(a)' = NextBlock(next)
      BY <1>2, <2>1, <2>3, <2>5
    <2>7. \A c \in Cells : /\ c < a \/ next < c => mem'[c] = mem[c]
                           /\ a < c /\ c < next => mem'[c] = Zero
      BY <1>2, <1>5, <2>2, CellsType
    <2>8. QED
      BY <1>1, <1>6, <1>7, <2>2, <2>3, <2>6, <2>7 DEF a, next
  <1>8. CASE ~merges
    <2>1. mem'[a].size = mem[a].size /\ mem'[a].reserved = 0
      BY <1>3, <1>6, <1>8
    <2>2. NextBlock(a)' = a + (mem'[a].size + 1)
      BY DEF NextBlock, Total, a
    <2>3. NextBlock(a)' = next
      BY <1>2, <2>1, <2>2
    <2>4. \A c \in Cells : /\ c < a \/ next < c \/ c = next => mem'[c] = mem[c]
                           /\ a < c /\ c < next => mem'[c] = Zero
      BY <1>2, <1>5, <1>6, <1>8, CellsType
    <2>5. QED
      BY <1>1, <1>6, <1>8, <2>1, <2>3, <2>4 DEF a, next
  <1>9. QED
    BY <1>7, <1>8

(* The end of free: alloc merged into a free block before it, and the      *)
(* block, if it is the last, trimmed off.                                  *)
LEMMA FreeEndFacts ==
  ASSUME BlocksInv, FreeEnd
  PROVE  LET merges == prev_alloc # NULL /\ mem[prev_alloc].reserved = 0
             last   == NextBlock(alloc) = current_block_address
             a      == IF merges THEN prev_alloc ELSE alloc
             gone   == IF merges THEN {alloc} ELSE {}
         IN  /\ alloc \in headers /\ mem[alloc].reserved = 0 /\ pc = "free"
             /\ prev_alloc # NULL => prev_alloc \in headers /\ NextBlock(prev_alloc) = alloc
             /\ prev_alloc = NULL => alloc = HeapBase
             /\ headers' = headers \ (gone \cup (IF last THEN {a} ELSE {}))
             /\ mem'[a].reserved = 0 /\ a + mem'[a].size + 1 = NextBlock(alloc)
             /\ merges => mem'[alloc] = Zero
             /\ \A c \in Cells \ {a, alloc} : mem'[c] = mem[c]
             /\ current_block_address' = (IF last THEN a ELSE current_block_address)
             /\ pc' = "idle"
  <1> DEFINE merges == prev_alloc # NULL /\ mem[prev_alloc].reserved = 0
             last   == NextBlock(alloc) = current_block_address
  <1>1. /\ alloc \in headers /\ mem[alloc].reserved = 0 /\ block_iter = alloc /\ pc = "free"
        /\ prev_alloc # NULL => prev_alloc \in headers /\ NextBlock(prev_alloc) = alloc
        /\ prev_alloc = NULL => alloc = HeapBase
    BY BlockFacts DEF FreeEnd, BlocksInv, InFree
  <1>2. /\ alloc \in Nat /\ alloc \in Cells /\ mem[alloc].size \in Nat
        /\ NextBlock(alloc) = alloc + mem[alloc].size + 1
    BY <1>1, NextFacts
  <1>3. pc' = "idle"
    BY DEF FreeEnd, Return
  <1>4. CASE merges
    <2>1. /\ prev_alloc \in headers /\ prev_alloc \in Nat /\ prev_alloc \in Cells
          /\ mem[prev_alloc].size \in Nat /\ alloc = prev_alloc + mem[prev_alloc].size + 1
      BY <1>1, <1>4, NextFacts
    <2>2. mem' = Merge(mem, prev_alloc, alloc) /\ Shrink(prev_alloc, headers \ {alloc})
      BY <1>4 DEF FreeEnd
    <2>3. prev_alloc # alloc
      BY <2>1
    <2>4. /\ mem'[prev_alloc] = [size |-> mem[prev_alloc].size + 1 + mem[alloc].size, reserved |-> 0]
          /\ mem'[alloc] = Zero
          /\ \A c \in Cells \ {prev_alloc, alloc} : mem'[c] = mem[c]
      BY <1>2, <2>1, <2>2, <2>3, MergeFacts, BlockFacts
    <2>5. mem'[prev_alloc].reserved = 0
          /\ mem'[prev_alloc].size = mem[prev_alloc].size + 1 + mem[alloc].size
      BY <2>4
    <2>6. prev_alloc + mem'[prev_alloc].size + 1 = NextBlock(alloc)
          /\ prev_alloc + 1 + mem'[prev_alloc].size = NextBlock(alloc)
      BY <1>2, <2>1, <2>5
    <2>7. /\ headers' = headers \ ({alloc} \cup (IF last THEN {prev_alloc} ELSE {}))
          /\ current_block_address' = (IF last THEN prev_alloc ELSE current_block_address)
      BY <2>2, <2>6 DEF Shrink
    <2>8. QED
      BY <1>1, <1>3, <1>4, <2>4, <2>5, <2>6, <2>7
  <1>5. CASE ~merges
    <2>1. mem' = mem /\ Shrink(alloc, headers)
      BY <1>5 DEF FreeEnd
    <2>2. alloc + mem'[alloc].size + 1 = NextBlock(alloc)
          /\ alloc + 1 + mem'[alloc].size = NextBlock(alloc)
      BY <1>2, <2>1
    <2>3. /\ headers' = headers \ (IF last THEN {alloc} ELSE {})
          /\ current_block_address' = (IF last THEN alloc ELSE current_block_address)
      BY <2>1, <2>2 DEF Shrink
    <2>4. QED
      BY <1>1, <1>3, <1>5, <2>1, <2>2, <2>3
  <1>6. QED
    BY <1>4, <1>5

(* A store of an owner: no header and no free block changes.               *)
LEMMA WriteFacts ==
  ASSUME BlocksInv, NEW p \in Cells, NEW v \in Payloads, Write(p, v)
  PROVE  /\ p - 1 \in headers /\ mem[p - 1].reserved = 1
         /\ \A c \in Cells : c < p \/ NextBlock(p - 1) <= c => mem'[c] = mem[c]
         /\ \A a \in headers : mem'[a] = mem[a]
         /\ UNCHANGED <<headers, current_block_address, pc>>
  <1>1. /\ p - 1 \in headers /\ mem[p - 1].reserved = 1 /\ owned[p] <= mem[p - 1].size
        /\ p \in Nat /\ owned[p] \in Nat /\ v \in Cell
    BY CellsType, HeapAssumption, BlockFacts DEF Write, BlocksInv, Ownership, Owning
  <1>2. \A c \in Cells : mem'[c] = IF p <= c /\ c < p + owned[p] THEN v ELSE mem[c]
    <2>1. mem \in [Cells -> Cell]
      BY BlockFacts
    <2>2. mem' = Fill(mem, p, owned[p], v)
      BY DEF Write
    <2>3. QED
      BY <1>1, <2>1, <2>2, FillType
  <1>3. mem[p - 1].size \in Nat /\ NextBlock(p - 1) = p + mem[p - 1].size
    BY <1>1, NextFacts
  <1>4. \A c \in Cells : c < p \/ NextBlock(p - 1) <= c => mem'[c] = mem[c]
    BY <1>1, <1>2, <1>3, CellsType
  <1>5. \A a \in headers : a \in Cells /\ (a < p \/ NextBlock(p - 1) <= a)
    BY <1>1, <1>3, NextFacts
  <1>6. QED
    BY <1>1, <1>4, <1>5 DEF Write, callVars, history

-----------------------------------------------------------------------------
(* Free memory is clear.                                                   *)

(* A block whose cells a step leaves alone stays clear.                    *)
LEMMA ClearKept ==
  ASSUME BlocksInv, FreeMemoryCleared, NEW a \in headers, mem'[a] = mem[a], mem[a].reserved = 0,
         \A c \in Cells : a < c /\ c < NextBlock(a) => mem'[c] = mem[c]
  PROVE  \A c \in Cells : a < c /\ c < a + mem'[a].size + 1 => mem'[c] = Zero
  BY NextFacts DEF FreeMemoryCleared

(* What is to be shown of a step.                                          *)
LEMMA ClearedAfter ==
  ASSUME \A a \in headers' : mem'[a].reserved = 0 =>
           \A c \in Cells : a < c /\ c < a + mem'[a].size + 1 => mem'[c] = Zero,
         headers' \subseteq Cells, mem' \in [Cells -> Cell]
  PROVE  FreeMemoryCleared'
  <1>1. \A a \in headers' : a \in Nat /\ mem'[a].size \in Nat
    BY CellsType, CellFields
  <1>2. QED
    BY <1>1 DEF FreeMemoryCleared, NextBlock, Total

LEMMA SplitCleared == ASSUME BlocksInv, FreeMemoryCleared, MallocSplit PROVE FreeMemoryCleared'
  <1> DEFINE new == block_iter + sz + 1
  <1>1. /\ block_iter \in headers /\ mem[block_iter].reserved = 0
        /\ new \in Cells /\ new \notin headers /\ headers' = headers \cup {new}
        /\ block_iter < new /\ new < NextBlock(block_iter)
        /\ mem'[block_iter].reserved = 1
        /\ new + mem'[new].size + 1 = NextBlock(block_iter)
        /\ \A c \in Cells \ {block_iter, new} : mem'[c] = mem[c]
    BY SplitFacts
  <1> HIDE DEF new
  <1>2. ASSUME NEW c \in Cells, new < c, c < new + mem'[new].size + 1
        PROVE  mem'[c] = Zero
    <2>1. c # new /\ c # block_iter /\ block_iter < c /\ c < NextBlock(block_iter)
      BY <1>1, <1>2, CellsType, NextFacts
    <2>2. QED
      BY <1>1, <2>1 DEF FreeMemoryCleared
  <1>3. ASSUME NEW a \in headers, a # block_iter, mem'[a].reserved = 0
        PROVE  \A c \in Cells : a < c /\ c < a + mem'[a].size + 1 => mem'[c] = Zero
    <2>1. a \in Cells /\ a # new /\ mem'[a] = mem[a]
      BY <1>1, <1>3, NextFacts
    <2>2. NextBlock(a) <= block_iter \/ NextBlock(block_iter) <= a
      BY <1>1, <1>3, NextFacts
    <2>3. \A c \in Cells : a < c /\ c < NextBlock(a) => c # block_iter /\ c # new
      BY <1>1, <2>2, NextFacts, CellsType
    <2>4. QED
      BY <1>1, <1>3, <2>1, <2>3, ClearKept
  <1>4. \A a \in headers' : mem'[a].reserved = 0 =>
          \A c \in Cells : a < c /\ c < a + mem'[a].size + 1 => mem'[c] = Zero
    BY <1>1, <1>2, <1>3
  <1>5. headers' \subseteq Cells /\ mem' \in [Cells -> Cell]
    BY MallocSplitBlocks DEF BlocksInv, TypeOK
  <1>6. QED
    BY <1>4, <1>5, ClearedAfter

LEMMA WholeCleared == ASSUME BlocksInv, FreeMemoryCleared, MallocWhole PROVE FreeMemoryCleared'
  <1>1. ASSUME NEW a \in headers', mem'[a].reserved = 0
        PROVE  \A c \in Cells : a < c /\ c < a + mem'[a].size + 1 => mem'[c] = Zero
    <2>1. a \in headers /\ a # block_iter /\ a \in Cells /\ mem'[a] = mem[a]
      BY <1>1, WholeFacts, NextFacts
    <2>2. \A c \in Cells : a < c /\ c < NextBlock(a) => c # block_iter
      BY <2>1, WholeFacts, NextFacts
    <2>3. QED
      BY <1>1, <2>1, <2>2, WholeFacts, ClearKept
  <1>2. headers' \subseteq Cells /\ mem' \in [Cells -> Cell]
    BY MallocWholeBlocks DEF BlocksInv, TypeOK
  <1>3. QED
    BY <1>1, <1>2, ClearedAfter

LEMMA BumpCleared == ASSUME BlocksInv, FreeMemoryCleared, MallocBump PROVE FreeMemoryCleared'
  <1>1. ASSUME NEW a \in headers', mem'[a].reserved = 0
        PROVE  \A c \in Cells : a < c /\ c < a + mem'[a].size + 1 => mem'[c] = Zero
    <2>1. a \in headers /\ a # block_iter /\ a \in Cells /\ mem'[a] = mem[a]
      BY <1>1, BumpFacts, NextFacts
    <2>2. \A c \in Cells : a < c /\ c < NextBlock(a) => c # block_iter
      BY <2>1, BumpFacts, BlockFacts, NextFacts, CellsType
    <2>3. QED
      BY <1>1, <2>1, <2>2, BumpFacts, ClearKept
  <1>2. headers' \subseteq Cells /\ mem' \in [Cells -> Cell]
    BY MallocBumpBlocks DEF BlocksInv, TypeOK
  <1>3. QED
    BY <1>1, <1>2, ClearedAfter

LEMMA FreeCallCleared ==
  ASSUME BlocksInv, FreeMemoryCleared, NEW b \in Cells, owned[b] > 0, FreeCall(b)
  PROVE  FreeMemoryCleared'
  <1> DEFINE a == b - 1
             next == NextBlock(a)
             merges == next \in headers /\ mem[next].reserved = 0
                       /\ current_block_address < HeapEnd
  <1>1. /\ a \in headers /\ mem[a].reserved = 1
        /\ headers' = (IF merges THEN headers \ {next} ELSE headers)
        /\ NextBlock(a)' = (IF merges THEN NextBlock(next) ELSE next)
        /\ \A c \in Cells : a < c /\ c < next => mem'[c] = Zero
        /\ merges => mem'[next] = Zero
        /\ \A c \in Cells : c < a \/ next < c \/ (c = next /\ ~merges) => mem'[c] = mem[c]
    BY FreeCallFacts
  <1>2. a \in Nat /\ next \in Nat /\ a < next
    BY <1>1, NextFacts
  <1>3. NextBlock(a)' = a + mem'[a].size + 1
    <2>1. NextBlock(a)' = a + (mem'[a].size + 1)
      BY DEF NextBlock, Total
    <2>2. mem'[a].size \in Nat
      BY <1>1, FreeCallBlocks, CellFields, BlockFacts DEF BlocksInv, TypeOK
    <2>3. QED
      BY <1>2, <2>1, <2>2
  <1> HIDE DEF a, next
  <1>4. ASSUME NEW c \in Cells, a < c, c < NextBlock(a)'
        PROVE  mem'[c] = Zero
    <2>1. CASE c < next
      BY <1>1, <1>4, <2>1
    <2>2. CASE c = next
      BY <1>1, <1>2, <1>4, <2>2
    <2>3. CASE next < c
      <3>1. merges /\ c < NextBlock(next)
        BY <1>1, <1>2, <1>4, <2>3, CellsType
      <3>2. QED
        BY <1>1, <2>3, <3>1 DEF FreeMemoryCleared
    <2>4. QED
      BY <1>2, <2>1, <2>2, <2>3, CellsType
  <1>5. ASSUME NEW d \in headers', d # a, mem'[d].reserved = 0
        PROVE  \A c \in Cells : d < c /\ c < d + mem'[d].size + 1 => mem'[c] = Zero
    <2>1. d \in headers /\ d \in Cells /\ d \in Nat /\ (d = next => ~merges)
      BY <1>1, <1>5, NextFacts
    <2>2. NextBlock(d) <= a \/ next <= d
      BY <1>1, <1>5, <2>1, NextFacts DEF next
    <2>3. d < a \/ next < d \/ (d = next /\ ~merges)
      BY <1>2, <2>1, <2>2, NextFacts
    <2>4. mem'[d] = mem[d]
      BY <1>1, <2>1, <2>3
    <2>5. \A c \in Cells : d < c /\ c < NextBlock(d) => mem'[c] = mem[c]
      BY <1>1, <1>2, <2>1, <2>2, CellsType, NextFacts
    <2>6. QED
      BY <1>5, <2>1, <2>4, <2>5, ClearKept
  <1>6. headers' \subseteq Cells /\ mem' \in [Cells -> Cell]
    BY FreeCallBlocks DEF BlocksInv, TypeOK
  <1>7. QED
    BY <1>3, <1>4, <1>5, <1>6, ClearedAfter

LEMMA FreeEndCleared == ASSUME BlocksInv, FreeMemoryCleared, FreeEnd PROVE FreeMemoryCleared'
  <1> DEFINE merges == prev_alloc # NULL /\ mem[prev_alloc].reserved = 0
             a == IF merges THEN prev_alloc ELSE alloc
  <1>1. /\ alloc \in headers /\ mem[alloc].reserved = 0
        /\ prev_alloc # NULL => prev_alloc \in headers /\ NextBlock(prev_alloc) = alloc
        /\ headers' \subseteq headers
        /\ merges => alloc \notin headers'
        /\ a + mem'[a].size + 1 = NextBlock(alloc)
        /\ merges => mem'[alloc] = Zero
        /\ \A c \in Cells \ {a, alloc} : mem'[c] = mem[c]
        /\ ~merges => \A c \in Cells : mem'[c] = mem[c]
    <2>1. ~merges => mem' = mem
      BY DEF FreeEnd
    <2>2. QED
      BY <2>1, FreeEndFacts
  <1>2. ASSUME NEW c \in Cells, a < c, c < NextBlock(alloc)
        PROVE  mem'[c] = Zero
    <2>1. CASE ~merges
      BY <1>1, <1>2, <2>1 DEF FreeMemoryCleared
    <2>2. CASE merges
      <3>1. prev_alloc \in headers /\ NextBlock(prev_alloc) = alloc /\ mem[prev_alloc].reserved = 0
            /\ a = prev_alloc
        BY <1>1, <2>2
      <3>2. c = alloc \/ c < alloc \/ alloc < c
        BY <1>1, CellsType, NextFacts
      <3>3. c # alloc => mem'[c] = mem[c]
        BY <1>1, <1>2, <3>1, CellsType, NextFacts
      <3>4. QED
        BY <1>1, <1>2, <2>2, <3>1, <3>2, <3>3 DEF FreeMemoryCleared
    <2>3. QED
      BY <2>1, <2>2
  <1>3. ASSUME NEW d \in headers', d # a, mem'[d].reserved = 0
        PROVE  \A c \in Cells : d < c /\ c < d + mem'[d].size + 1 => mem'[c] = Zero
    <2>1. d \in headers /\ d \in Cells /\ d # alloc
      <3>1. d \in headers /\ (merges => d # alloc)
        BY <1>1
      <3>2. ~merges => a = alloc
        OBVIOUS
      <3>3. QED
        BY <1>3, <3>1, <3>2, NextFacts
    <2>2. mem'[d] = mem[d]
      BY <1>1, <1>3, <2>1
    <2>3. a \in headers
      BY <1>1
    <2>4. \A c \in Cells : d < c /\ c < NextBlock(d) => c # a /\ c # alloc
      BY <1>1, <1>3, <2>1, <2>3, NextFacts
    <2>5. QED
      BY <1>1, <1>3, <2>1, <2>2, <2>4, ClearKept
  <1>4. headers' \subseteq Cells /\ mem' \in [Cells -> Cell]
    BY FreeEndBlocks DEF BlocksInv, TypeOK
  <1>5. QED
    BY <1>1, <1>2, <1>3, <1>4, ClearedAfter

LEMMA WriteCleared ==
  ASSUME BlocksInv, FreeMemoryCleared, NEW p \in Cells, NEW v \in Payloads, Write(p, v)
  PROVE  FreeMemoryCleared'
  <1>1. ASSUME NEW a \in headers', mem'[a].reserved = 0
        PROVE  \A c \in Cells : a < c /\ c < a + mem'[a].size + 1 => mem'[c] = Zero
    <2>1. a \in headers /\ a \in Cells /\ mem'[a] = mem[a] /\ a # p - 1 /\ p - 1 \in headers
      BY <1>1, WriteFacts, NextFacts
    <2>2. NextBlock(a) <= p - 1 \/ NextBlock(p - 1) <= a
      BY <2>1, NextFacts
    <2>3. \A c \in Cells : a < c /\ c < NextBlock(a) => c < p \/ NextBlock(p - 1) <= c
      BY <2>1, <2>2, NextFacts, CellsType
    <2>4. QED
      BY <1>1, <2>1, <2>3, WriteFacts, ClearKept
  <1>2. headers' \subseteq Cells /\ mem' \in [Cells -> Cell]
    BY WriteBlocks DEF BlocksInv, TypeOK
  <1>3. QED
    BY <1>1, <1>2, ClearedAfter

-----------------------------------------------------------------------------
(* Free memory is coalesced while the heap was never full.                 *)

(* A step that ends a call leaves a reserved block behind every free one.  *)
LEMMA SettledAfter ==
  ASSUME headers' \subseteq Cells, mem' \in [Cells -> Cell], current_block_address' < HeapEnd,
         \A a \in headers' : mem'[a].reserved = 0 =>
           \E n \in headers' : n = a + mem'[a].size + 1 /\ mem'[n].reserved = 1
  PROVE  Settled'
  <1>1. \A a \in headers' : a \in Nat /\ mem'[a].size \in Nat
    BY CellsType, CellFields
  <1>2. QED
    BY <1>1 DEF Settled, NextBlock, Total

(* Outside free every free block has a reserved one behind it.             *)
LEMMA SettledFacts ==
  ASSUME BlocksInv, Settled, pc # "free", NEW a \in headers, mem[a].reserved = 0
  PROVE  NextBlock(a) \in headers /\ mem[NextBlock(a)].reserved = 1
  BY DEF Settled

LEMMA SplitSettled == ASSUME BlocksInv, Settled, MallocSplit PROVE Settled'
  <1> DEFINE new == block_iter + sz + 1
             next == NextBlock(block_iter)
  <1>1. /\ block_iter \in headers /\ mem[block_iter].reserved = 0
        /\ new \in Cells /\ new \notin headers /\ headers' = headers \cup {new}
        /\ mem'[block_iter].reserved = 1
        /\ new + mem'[new].size + 1 = next
        /\ \A c \in Cells \ {block_iter, new} : mem'[c] = mem[c]
        /\ current_block_address' = current_block_address
    BY SplitFacts
  <1>2. pc # "free"
    BY DEF MallocSplit
  <1>3. \A a \in headers : mem[a].reserved = 0 =>
          /\ NextBlock(a) \in headers /\ NextBlock(a) \in Cells /\ mem'[NextBlock(a)].reserved = 1
    <2>1. \A a \in headers : mem[a].reserved = 0 =>
            NextBlock(a) \in headers /\ mem[NextBlock(a)].reserved = 1
      BY <1>2, SettledFacts
    <2>2. QED
      BY <1>1, <2>1, NextFacts
  <1>4. ASSUME NEW a \in headers', mem'[a].reserved = 0
        PROVE  \E n \in headers' : n = a + mem'[a].size + 1 /\ mem'[n].reserved = 1
    <2>1. CASE a = new
      <3>1. next \in headers /\ mem'[next].reserved = 1
        BY <1>1, <1>3
      <3>2. QED
        BY <1>1, <2>1, <3>1
    <2>2. CASE a # new
      <3>1. a \in headers /\ a \in Cells /\ mem'[a] = mem[a]
        BY <1>1, <1>4, <2>2, NextFacts
      <3>2. NextBlock(a) \in headers /\ mem'[NextBlock(a)].reserved = 1
            /\ NextBlock(a) = a + mem'[a].size + 1
        BY <1>3, <1>4, <3>1, NextFacts
      <3>3. QED
        BY <1>1, <3>2
    <2>3. QED
      BY <2>1, <2>2
  <1>5. headers' \subseteq Cells /\ mem' \in [Cells -> Cell]
    BY MallocSplitBlocks DEF BlocksInv, TypeOK
  <1>6. current_block_address' < HeapEnd
    BY <1>1 DEF Settled
  <1>7. QED
    BY <1>4, <1>5, <1>6, SettledAfter

(* A block that becomes reserved, or is added reserved, disturbs no other. *)
LEMMA ReservedSettled ==
  ASSUME BlocksInv, Settled, pc # "free", NEW b \in Cells,
         mem'[b].reserved = 1, \A c \in Cells \ {b} : mem'[c] = mem[c],
         headers' = headers \cup {b}, mem' \in [Cells -> Cell],
         current_block_address' < HeapEnd
  PROVE  Settled'
  <1>1. ASSUME NEW a \in headers', mem'[a].reserved = 0
        PROVE  \E n \in headers' : n = a + mem'[a].size + 1 /\ mem'[n].reserved = 1
    <2>1. a \in headers /\ a \in Cells /\ a # b /\ mem'[a] = mem[a]
      BY <1>1, NextFacts
    <2>2. NextBlock(a) \in headers /\ mem[NextBlock(a)].reserved = 1
      BY <1>1, <2>1, SettledFacts
    <2>3. NextBlock(a) \in Cells /\ NextBlock(a) = a + mem'[a].size + 1
      BY <2>1, <2>2, NextFacts
    <2>4. mem'[NextBlock(a)].reserved = 1
      BY <2>2, <2>3
    <2>5. QED
      BY <2>2, <2>3, <2>4
  <1>2. headers' \subseteq Cells
    BY NextFacts
  <1>3. QED
    BY <1>1, <1>2, SettledAfter

LEMMA WholeSettled == ASSUME BlocksInv, Settled, MallocWhole PROVE Settled'
  <1>1. pc # "free"
    BY DEF MallocWhole
  <1>2. block_iter \in Cells /\ headers' = headers \cup {block_iter}
    BY WholeFacts, NextFacts
  <1>3. mem' \in [Cells -> Cell]
    BY MallocWholeBlocks DEF BlocksInv, TypeOK
  <1>4. current_block_address' < HeapEnd
    BY WholeFacts DEF Settled
  <1>5. QED
    BY <1>1, <1>2, <1>3, <1>4, WholeFacts, ReservedSettled

LEMMA BumpSettled ==
  ASSUME BlocksInv, Settled, MallocBump, current_block_address' # HeapEnd PROVE Settled'
  <1>1. pc # "free"
    BY DEF MallocBump
  <1>2. mem' \in [Cells -> Cell]
    BY MallocBumpBlocks DEF BlocksInv, TypeOK
  <1>3. current_block_address' < HeapEnd
    BY BumpFacts, CellsType
  <1>4. QED
    BY <1>1, <1>2, <1>3, BumpFacts, ReservedSettled

LEMMA FreeCallSettled ==
  ASSUME BlocksInv, Settled, NEW b \in Cells, owned[b] > 0, FreeCall(b) PROVE Settled'
  <1> DEFINE a == b - 1
             next == NextBlock(a)
             merges == next \in headers /\ mem[next].reserved = 0
                       /\ current_block_address < HeapEnd
  <1>1. /\ a \in headers /\ mem[a].reserved = 1
        /\ headers' = (IF merges THEN headers \ {next} ELSE headers)
        /\ NextBlock(a)' = (IF merges THEN NextBlock(next) ELSE next)
        /\ \A c \in Cells : c < a \/ next < c \/ (c = next /\ ~merges) => mem'[c] = mem[c]
        /\ UNCHANGED current_block_address /\ pc' = "free" /\ alloc' = a
    BY FreeCallFacts
  <1>2. a \in Nat /\ next \in Nat /\ a < next /\ next \in headers \cup {current_block_address}
    BY <1>1, NextFacts
  <1>3. pc # "free"
    BY DEF FreeCall
  <1> HIDE DEF a
  (* A header other than a and the one merged away stays as it is.         *)
  <1>4. ASSUME NEW d \in headers, d # a, ~(merges /\ d = next)
        PROVE  d \in headers' /\ mem'[d] = mem[d] /\ NextBlock(d)' = NextBlock(d)
    <2>1. d \in Cells /\ d \in Nat /\ (NextBlock(d) <= a \/ next <= d)
      BY <1>1, <1>4, NextFacts
    <2>2. d < a \/ next < d \/ (d = next /\ ~merges)
      BY <1>2, <1>4, <2>1, NextFacts
    <2>3. mem'[d] = mem[d]
      BY <1>1, <2>1, <2>2
    <2>4. QED
      BY <1>1, <1>4, <2>3 DEF NextBlock, Total
  <1> HIDE DEF next
  <1>5. ASSUME NEW d \in headers, mem[d].reserved = 1, d # a
        PROVE  d \in headers' /\ mem'[d].reserved = 1
    BY <1>4, <1>5
  <1>6. ASSUME NEW d \in headers', mem'[d].reserved = 0
        PROVE  \/ NextBlock(d)' \in headers' /\ mem'[NextBlock(d)'].reserved = 1
               \/ NextBlock(d)' = alloc'
               \/ d = alloc' /\ NextBlock(d)' = current_block_address'
    <2>1. CASE d # a
      <3>1. d \in headers /\ ~(merges /\ d = next)
        BY <1>1
      <3>2. mem'[d] = mem[d] /\ NextBlock(d)' = NextBlock(d)
        BY <1>4, <2>1, <3>1
      <3>3. NextBlock(d) \in headers /\ mem[NextBlock(d)].reserved = 1
        BY <1>3, <1>6, <3>1, <3>2, SettledFacts
      <3>4. CASE NextBlock(d) = a
        BY <1>1, <3>2, <3>4
      <3>5. CASE NextBlock(d) # a
        BY <1>5, <3>2, <3>3, <3>5
      <3>6. QED
        BY <3>4, <3>5
    <2>2. CASE d = a /\ merges
      <3>1. next \in headers /\ mem[next].reserved = 0
        BY <2>2
      <3>2. NextBlock(next) \in headers /\ mem[NextBlock(next)].reserved = 1
        BY <1>3, <3>1, SettledFacts
      <3>3. NextBlock(next) # a
        BY <1>2, <3>1, NextFacts
      <3>4. a' = a
        BY DEF a
      <3>5. NextBlock(d)' = NextBlock(next)
        BY <1>1, <2>2, <3>4 DEF NextBlock, Total
      <3>6. QED
        BY <1>5, <3>2, <3>3, <3>5
    <2>3. CASE d = a /\ ~merges
      <3>1. a' = a
        BY DEF a
      <3>2. NextBlock(d)' = next
        BY <1>1, <2>3, <3>1 DEF NextBlock, Total
      <3>3. CASE next = current_block_address
        BY <1>1, <2>3, <3>2, <3>3
      <3>4. CASE next \in headers
        <4>1. mem[next].reserved # 0
          BY <2>3, <3>4 DEF Settled
        <4>2. mem[next].reserved = 1 /\ next # a
          BY <1>2, <3>4, <4>1, NextFacts
        <4>3. QED
          BY <1>5, <3>2, <3>4, <4>2
      <3>5. QED
        BY <1>2, <3>3, <3>4
    <2>4. QED
      BY <2>1, <2>2, <2>3
  <1>7. current_block_address' < HeapEnd
    BY <1>1 DEF Settled
  <1>8. QED
    BY <1>1, <1>6, <1>7 DEF Settled

LEMMA FreeEndSettled == ASSUME BlocksInv, Settled, FreeEnd PROVE Settled'
  <1> DEFINE merges == prev_alloc # NULL /\ mem[prev_alloc].reserved = 0
             last   == NextBlock(alloc) = current_block_address
             a      == IF merges THEN prev_alloc ELSE alloc
             gone   == IF merges THEN {alloc} ELSE {}
  <1>1. /\ alloc \in headers /\ mem[alloc].reserved = 0
        /\ prev_alloc # NULL => prev_alloc \in headers /\ NextBlock(prev_alloc) = alloc
        /\ prev_alloc = NULL => alloc = HeapBase
        /\ headers' = headers \ (gone \cup (IF last THEN {a} ELSE {}))
        /\ a + mem'[a].size + 1 = NextBlock(alloc)
        /\ \A c \in Cells \ {a, alloc} : mem'[c] = mem[c]
        /\ current_block_address' = (IF last THEN a ELSE current_block_address)
    BY FreeEndFacts
  <1>2. a \in headers /\ mem[a].reserved = 0
    BY <1>1
  <1>3. merges => a # alloc
    BY <1>1, NextFacts
  (* Only prev_alloc is right before alloc.                                *)
  <1>4. ASSUME NEW d \in headers, NextBlock(d) = alloc
        PROVE  d = prev_alloc
    <2>1. d \in Nat /\ d < alloc /\ HeapBase <= d
      BY <1>4, NextFacts, BlockFacts
    <2>2. prev_alloc \in headers /\ NextBlock(prev_alloc) = alloc
      BY <1>1, <2>1, CellsType
    <2>3. ~(d < prev_alloc) /\ ~(prev_alloc < d)
      BY <1>4, <2>1, <2>2, NextFacts
    <2>4. QED
      BY <2>1, <2>2, <2>3, NextFacts
  <1>5. ASSUME NEW d \in headers, mem[d].reserved = 1
        PROVE  d \in headers' /\ mem'[d] = mem[d]
    <2>1. d # a /\ d # alloc /\ d \in Cells
      BY <1>1, <1>2, <1>5, NextFacts
    <2>2. QED
      BY <1>1, <2>1
  <1>6. ASSUME NEW d \in headers', mem'[d].reserved = 0
        PROVE  \E n \in headers' : n = d + mem'[d].size + 1 /\ mem'[n].reserved = 1
    <2>1. CASE d = a
      <3>1. ~last
        BY <1>1, <1>6, <2>1
      <3>2. NextBlock(alloc) # alloc /\ NextBlock(alloc) \in Nat
        BY <1>1, NextFacts
      <3>3. NextBlock(alloc) \in headers /\ mem[NextBlock(alloc)].reserved = 1
        BY <1>1, <3>1, <3>2 DEF Settled
      <3>4. QED
        BY <1>1, <1>5, <2>1, <3>3
    <2>2. CASE d # a
      <3>1. d \in headers /\ d \in Cells
        BY <1>1, NextFacts
      <3>2. d # alloc
        <4>1. CASE merges
          BY <1>1, <4>1
        <4>2. CASE ~merges
          BY <2>2, <4>2
        <4>3. QED
          BY <4>1, <4>2
      <3>3. mem'[d] = mem[d] /\ mem[d].reserved = 0
        BY <1>1, <1>6, <2>2, <3>1, <3>2
      <3>4. NextBlock(d) # alloc
        <4>1. ASSUME d = prev_alloc PROVE FALSE
          <5>1. prev_alloc # NULL
            BY <3>1, <4>1, CellsType DEF NULL
          <5>2. QED
            BY <2>2, <3>3, <4>1, <5>1
        <4>2. QED
          BY <1>4, <3>1, <4>1
      <3>5. NextBlock(d) \in headers /\ mem[NextBlock(d)].reserved = 1
        BY <3>1, <3>2, <3>3, <3>4 DEF Settled
      <3>6. NextBlock(d) = d + mem'[d].size + 1
        BY <3>1, <3>3, NextFacts
      <3>7. QED
        BY <1>5, <3>5, <3>6
    <2>3. QED
      BY <2>1, <2>2
  <1>7. headers' \subseteq Cells /\ mem' \in [Cells -> Cell]
    BY FreeEndBlocks DEF BlocksInv, TypeOK
  <1>8. current_block_address' < HeapEnd
    <2>1. a < current_block_address /\ a \in Nat
      BY <1>2, BlockFacts
    <2>2. current_block_address < HeapEnd
      BY DEF Settled
    <2>3. QED
      BY <1>1, <2>1, <2>2, BlockFacts, CellsType
  <1>9. QED
    BY <1>6, <1>7, <1>8, SettledAfter

LEMMA WriteSettled ==
  ASSUME BlocksInv, Settled, NEW p \in Cells, NEW v \in Payloads, Write(p, v)
  PROVE  Settled'
  <1>1. pc # "free"
    BY DEF Write
  <1>2. ASSUME NEW a \in headers', mem'[a].reserved = 0
        PROVE  \E n \in headers' : n = a + mem'[a].size + 1 /\ mem'[n].reserved = 1
    <2>1. a \in headers /\ mem'[a] = mem[a]
      BY WriteFacts
    <2>2. NextBlock(a) \in headers /\ mem[NextBlock(a)].reserved = 1
      BY <1>1, <1>2, <2>1, SettledFacts
    <2>3. QED
      BY <2>1, <2>2, WriteFacts, NextFacts
  <1>3. headers' \subseteq Cells /\ mem' \in [Cells -> Cell]
    BY WriteBlocks DEF BlocksInv, TypeOK
  <1>4. current_block_address' < HeapEnd
    BY WriteFacts DEF Settled
  <1>5. QED
    BY <1>2, <1>3, <1>4, SettledAfter

-----------------------------------------------------------------------------
(* The walk of malloc leaves out no cell.                                  *)

LEMMA MallocCallCovered == ASSUME BlocksInv, NEW n \in Requests, MallocCall(n) PROVE Covered'
  <1>1. block_iter' = HeapBase
    BY DEF MallocCall
  <1>2. QED
    BY <1>1, CellsType DEF Covered

LEMMA MallocNextCovered == ASSUME BlocksInv, Covered, MallocNext PROVE Covered'
  <1>1. /\ block_iter \in headers /\ block_iter' = NextBlock(block_iter) /\ pc = "malloc"
        /\ UNCHANGED <<mem, headers>>
    BY WalkFacts DEF MallocNext, heapVars, history
  <1>2. ASSUME NEW c \in Cells, c < block_iter'
        PROVE  \E a \in headers : a <= c /\ c < NextBlock(a)
    <2>1. CASE c < block_iter
      BY <1>1, <2>1 DEF Covered
    <2>2. CASE block_iter <= c
      BY <1>1, <1>2, <2>2
    <2>3. QED
      BY <1>1, <2>1, <2>2, CellsType, NextFacts
  <1>3. QED
    BY <1>1, <1>2 DEF Covered, NextBlock, Total

-----------------------------------------------------------------------------
(* The theorems.                                                           *)

LEMMA FreeInvStep == HeapInv /\ FreeInv /\ [Next]_vars => FreeInv'
  <1> SUFFICES ASSUME BlocksInv, FreedApart, FreeMemoryCleared, ~wasFull => Settled, Covered,
                      [Next]_vars
               PROVE  FreeMemoryCleared' /\ (~wasFull' => Settled') /\ Covered'
    BY DEF HeapInv, FreeInv
  (* Steps that leave the blocks alone.                                    *)
  <1>1. ASSUME UNCHANGED <<mem, headers, current_block_address, pc, alloc>>
        PROVE  FreeMemoryCleared' /\ (Settled => Settled')
    BY <1>1 DEF FreeMemoryCleared, Settled, NextBlock, Total
  <1>2. ASSUME UNCHANGED <<mem, headers, current_block_address>>, pc # "free"
        PROVE  FreeMemoryCleared' /\ (Settled => Settled')
    BY <1>2 DEF FreeMemoryCleared, Settled, NextBlock, Total
  <1>3. ASSUME pc' # "malloc" PROVE Covered'
    BY <1>3 DEF Covered
  <1>4. ASSUME NEW n \in Requests, MallocCall(n)
        PROVE  FreeMemoryCleared' /\ (~wasFull' => Settled') /\ Covered'
    <2>1. UNCHANGED <<mem, headers, current_block_address, wasFull>> /\ pc # "free"
      BY <1>4 DEF MallocCall, heapVars, history
    <2>2. QED
      BY <1>2, <1>4, <2>1, MallocCallCovered
  <1>5. ASSUME NEW b \in Cells, owned[b] > 0, FreeCall(b)
        PROVE  FreeMemoryCleared' /\ (~wasFull' => Settled') /\ Covered'
    <2>1. wasFull' = wasFull /\ pc' # "malloc"
      BY <1>5 DEF FreeCall
    <2>2. QED
      BY <1>3, <1>5, <2>1, FreeCallCleared, FreeCallSettled
  <1>6. ASSUME NEW b \in freed, FreeCall(b) PROVE FALSE
    BY <1>6 DEF FreedApart, FreeCall
  <1>7. ASSUME NEW p \in Cells, NEW v \in Payloads, Write(p, v)
        PROVE  FreeMemoryCleared' /\ (~wasFull' => Settled') /\ Covered'
    <2>1. wasFull' = wasFull /\ pc' # "malloc"
      BY <1>7 DEF Write, callVars, history
    <2>2. QED
      BY <1>3, <1>7, <2>1, WriteCleared, WriteSettled
  <1>8. CASE MallocNext
    <2>1. UNCHANGED <<mem, headers, current_block_address, pc, alloc, wasFull>>
      BY <1>8 DEF MallocNext, heapVars, history
    <2>2. QED
      BY <1>1, <1>8, <2>1, MallocNextCovered
  <1>9. CASE MallocSplit
    <2>1. wasFull' = wasFull /\ pc' # "malloc"
      BY <1>9 DEF MallocSplit, Return
    <2>2. QED
      BY <1>3, <1>9, <2>1, SplitCleared, SplitSettled
  <1>10. CASE MallocWhole
    <2>1. wasFull' = wasFull /\ pc' # "malloc"
      BY <1>10 DEF MallocWhole, Return, history
    <2>2. QED
      BY <1>3, <1>10, <2>1, WholeCleared, WholeSettled
  <1>11. CASE MallocFail
    <2>1. UNCHANGED <<mem, headers, current_block_address, wasFull>>
          /\ pc # "free" /\ pc' # "malloc"
      BY <1>11 DEF MallocFail, Return, heapVars, history
    <2>2. QED
      BY <1>2, <1>3, <2>1
  <1>12. CASE MallocBump
    <2>1. pc' # "malloc"
      BY <1>12 DEF MallocBump, Return
    <2>2. wasFull' = (wasFull \/ current_block_address' = HeapEnd)
      BY <1>12 DEF MallocBump
    <2>3. ~wasFull' => ~wasFull /\ current_block_address' # HeapEnd
      BY <2>2, Zenon
    <2>4. QED
      BY <1>3, <1>12, <2>1, <2>3, BumpCleared, BumpSettled
  <1>13. CASE FreeNext
    <2>1. UNCHANGED <<mem, headers, current_block_address, pc, alloc, wasFull>> /\ pc' # "malloc"
      BY <1>13 DEF FreeNext, heapVars, history
    <2>2. QED
      BY <1>1, <1>3, <2>1
  <1>14. CASE FreeEnd
    <2>1. wasFull' = wasFull /\ pc' # "malloc"
      BY <1>14 DEF FreeEnd, Return
    <2>2. QED
      BY <1>3, <1>14, <2>1, FreeEndCleared, FreeEndSettled
  <1>15. CASE UNCHANGED vars
    <2>1. UNCHANGED <<mem, headers, current_block_address, pc, alloc, wasFull, block_iter>>
      BY <1>15 DEF vars, heapVars, callVars, history
    <2>2. Covered'
      BY <2>1 DEF Covered, NextBlock, Total
    <2>3. QED
      BY <1>1, <2>1, <2>2
  <1>16. QED
    BY <1>4, <1>5, <1>6, <1>7, <1>8, <1>9, <1>10, <1>11, <1>12, <1>13, <1>14, <1>15
       DEF Next, Call, Step

LEMMA InitFree == Init => FreeInv
  <1> SUFFICES ASSUME Init PROVE FreeInv
    OBVIOUS
  <1>1. headers = {} /\ current_block_address < HeapEnd /\ pc = "idle"
    BY HeapAssumption DEF Init, HeapEnd
  <1>2. QED
    BY <1>1 DEF FreeInv, FreeMemoryCleared, Settled, Covered

(* On top of HeapInv: free memory is clear, as long as the heap was never  *)
(* full every free block is followed by a reserved one but while free is   *)
(* at it, and the walk of malloc has seen every cell behind it.            *)
THEOREM FreeInvariant == Spec => []FreeInv
  <1>1. QED
    BY InitFree, FreeInvStep, HeapInvariant, PTL DEF Spec

(* The cells of a free block hold nothing of its last owner, nor of a      *)
(* header that was merged away (heap.c:163, 184).                          *)
THEOREM HeapFreeMemoryCleared == Spec => []FreeMemoryCleared
  <1>1. FreeInv => FreeMemoryCleared
    BY DEF FreeInv
  <1>2. QED
    BY <1>1, FreeInvariant, PTL

(* Free blocks are coalesced between calls as long as the high-water mark  *)
(* has never reached the end of the heap (heap.c:166-220).                 *)
THEOREM HeapCoalesced == Spec => []CoalescedUnlessFull
  <1>1. FreeInv => CoalescedUnlessFull
    BY DEF FreeInv, CoalescedUnlessFull, Coalesced, Settled
  <1>2. QED
    BY <1>1, FreeInvariant, PTL

(* malloc returns NULL only if the header and the request fit nowhere      *)
(* between the reserved blocks, unless the heap was once full: an extent   *)
(* without a reserved block starts in a free block, which is too small,    *)
(* and would run into the reserved block behind it.                        *)
THEOREM HeapFailsOnlyWithoutRoom == Spec => FailsOnlyWithoutRoom
  <1>1. HeapInv /\ FreeInv /\ [Next]_vars
        => [pc = "malloc" /\ pc' = "idle" /\ owned' = owned /\ ~wasFull => ~HasRoom(sz + 1)]_vars
    <2> SUFFICES ASSUME BlocksInv, ~wasFull => Settled, Covered, Next,
                        pc = "malloc", pc' = "idle", owned' = owned, ~wasFull
                 PROVE  ~HasRoom(sz + 1)
      BY DEF HeapInv, FreeInv
    <2>1. Settled /\ pc # "free"
      OBVIOUS
    <2>2. /\ sz \in Nat \ {0} /\ block_iter \in Nat
          /\ \A a \in headers : a < block_iter => ~Fits(a)
      BY WalkFacts DEF BlocksInv, InMalloc, TypeOK
    <2>3. ASSUME Give(block_iter), block_iter \in headers \cup {current_block_address},
                 block_iter + 1 \in Cells, owned[block_iter + 1] = 0
          PROVE  FALSE
      <3>1. owned' = [owned EXCEPT ![block_iter + 1] = sz] /\ owned \in [Cells -> Nat]
        BY <2>3, BlockFacts DEF Give
      <3>2. owned'[block_iter + 1] = sz
        BY <2>3, <3>1
      <3>3. QED
        BY <2>2, <2>3, <3>2
    <2>4. ASSUME MallocSplit \/ MallocWhole \/ MallocBump PROVE FALSE
      <3>1. /\ Give(block_iter)
            /\ sz + block_iter + 1 <= HeapEnd
            /\ \/ block_iter \in headers /\ mem[block_iter].reserved = 0 /\ mem[block_iter].size >= sz
               \/ block_iter = current_block_address
        <4>1. CASE MallocSplit \/ MallocWhole
          <5>1. Give(block_iter) /\ Fits(block_iter) /\ block_iter < current_block_address
            BY <4>1 DEF MallocSplit, MallocWhole
          <5>2. block_iter \in headers
            BY <5>1, WalkFacts
          <5>3. QED
            BY <2>2, <5>1, <5>2, BlockFacts, CellsType DEF Fits
        <4>2. CASE MallocBump
          <5>1. Give(block_iter) /\ ~NoRoom /\ block_iter >= current_block_address
            BY <4>2 DEF MallocBump
          <5>2. QED
            BY <2>2, <5>1, WalkFacts, CellsType DEF NoRoom
        <4>3. QED
          BY <2>4, <4>1, <4>2
      <3>2. block_iter + 1 \in Cells /\ Promise!Malloc(block_iter + 1, sz)
        BY <3>1, GivesPromised
      <3>3. owned[block_iter + 1] = 0
        BY <3>2 DEF Promise!Malloc
      <3>4. block_iter \in headers \cup {current_block_address}
        BY <3>1
      <3>5. QED
        BY <2>3, <3>1, <3>2, <3>3, <3>4
    <2>5. MallocFail
      BY <2>4 DEF Next, Call, Step, MallocCall, FreeCall, Write, MallocNext, FreeNext, FreeEnd
    <2>6. block_iter = current_block_address /\ block_iter + sz + 1 > HeapEnd
      BY <2>5, WalkFacts DEF MallocFail, NoRoom
    <2>7. SUFFICES ASSUME NEW a \in Cells, a + (sz + 1) <= HeapEnd,
                          \A b \in headers : mem[b].reserved = 1 =>
                             NextBlock(b) <= a \/ a + (sz + 1) <= b
                   PROVE  FALSE
      BY DEF HasRoom
    <2>8. a \in Nat /\ a < block_iter
      BY <2>2, <2>6, <2>7, CellsType
    <2>9. PICK h \in headers : h <= a /\ a < NextBlock(h)
      BY <2>8 DEF Covered
    <2>10. mem[h].reserved = 0 /\ mem[h].size < sz
      <3>1. mem[h].reserved # 1
        BY <2>2, <2>7, <2>8, <2>9, NextFacts
      <3>2. mem[h].reserved = 0 /\ h < block_iter
        BY <2>6, <2>9, <3>1, BlockFacts
      <3>3. QED
        BY <2>2, <3>2, NextFacts DEF Fits
    <2>11. NextBlock(h) \in headers /\ mem[NextBlock(h)].reserved = 1
      BY <2>1, <2>9, <2>10, SettledFacts
    <2>12. NextBlock(h) < a + (sz + 1) /\ a < NextBlock(NextBlock(h))
      BY <2>2, <2>8, <2>9, <2>10, <2>11, NextFacts
    <2>13. QED
      BY <2>2, <2>7, <2>8, <2>11, <2>12, NextFacts
  <1>2. QED
    BY <1>1, HeapInvariant, FreeInvariant, PTL DEF Spec, FailsOnlyWithoutRoom

=============================================================================
