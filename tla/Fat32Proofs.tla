---------------------------- MODULE Fat32Proofs ------------------------------
(***************************************************************************)
(* Proofs about Fat32, for every size of sectors and clusters and every    *)
(* set of sound volumes: fat32_read stays inside its buffer, frees it, and *)
(* returns the file that was asked for; fat32_ls shows all of the root     *)
(* directory.                                                              *)
(***************************************************************************)
EXTENDS Fat32, NatLemmas

-----------------------------------------------------------------------------
(* Counting in sectors. SectorSize is abbreviated to d.                    *)

LEMMA OneMultiple ==
  ASSUME NEW d \in Nat, NEW p \in Nat, NEW q \in Nat, NEW a \in Nat,
         a <= p * d, p * d < a + d, a <= q * d, q * d < a + d
  PROVE  p = q
  <1>1. p * d \in Nat /\ q * d \in Nat
    OBVIOUS
  <1>2. CASE p < q
    BY <1>1, <1>2, MonoTimes
  <1>3. CASE q < p
    BY <1>1, <1>3, MonoTimes
  <1>4. QED
    BY <1>2, <1>3

LEMMA Sizes == SectorSize \in Nat /\ SectorSize > 0 /\ sectors_per_cluster \in Nat
               /\ ClusterSize = sectors_per_cluster * SectorSize /\ ClusterSize \in Nat /\ ClusterSize > 0
  <1>1. SectorSize \in Nat /\ SectorSize > 0 /\ sectors_per_cluster \in Nat /\ sectors_per_cluster > 0
    BY Fat32Assumption
  <1>2. sectors_per_cluster * SectorSize \in Nat /\ 0 * SectorSize = 0
    BY <1>1
  <1>3. 0 * SectorSize + SectorSize <= sectors_per_cluster * SectorSize
    BY <1>1, MonoTimes
  <1>4. QED
    BY <1>1, <1>2, <1>3 DEF ClusterSize

LEMMA SectorsFacts ==
  ASSUME NEW b \in Nat
  PROVE  Sectors(b) \in Nat /\ b <= Sectors(b) * SectorSize /\ Sectors(b) * SectorSize < b + SectorSize
  <1> DEFINE a == b + SectorSize - 1
  <1>1. a \in Nat /\ a = b + SectorSize - 1
    BY Sizes
  <1>2. Sectors(b) = a \div SectorSize
    BY DEF Sectors
  <1> HIDE DEF a
  <1>3. /\ a \div SectorSize \in Nat /\ (a \div SectorSize) * SectorSize <= a
        /\ a < (a \div SectorSize) * SectorSize + SectorSize
    BY <1>1, Sizes, Quotient
  <1>4. Sectors(b) \in Nat /\ Sectors(b) * SectorSize <= a /\ a < Sectors(b) * SectorSize + SectorSize
    BY <1>2, <1>3
  <1>5. Sectors(b) * SectorSize \in Nat
    BY <1>4, Sizes
  <1>6. QED
    BY <1>1, <1>4, <1>5, Sizes

(* Both ways of rounding up in fat32.c give the same.                      *)
LEMMA AlignedIsSectors ==
  ASSUME NEW a \in Nat
  PROVE  Aligned(a) = Sectors(a) * SectorSize
  <1> DEFINE d == SectorSize
  <1>1. d \in Nat /\ d > 0
    BY Sizes
  <1> HIDE DEF d
  <1>2. Sectors(a) \in Nat /\ a <= Sectors(a) * d /\ Sectors(a) * d < a + d
    BY SectorsFacts DEF d
  <1>3. a \div d \in Nat /\ (a \div d) * d <= a /\ a < (a \div d) * d + d /\ a % d = a - (a \div d) * d
    BY <1>1, Quotient
  <1>4. (a \div d) * d \in Nat
    BY <1>1, <1>3
  <1>5. CASE a % d = 0
    <2>1. (a \div d) * d = a
      BY <1>3, <1>4, <1>5
    <2>2. a \div d = Sectors(a)
      BY <1>1, <1>2, <1>3, <2>1, OneMultiple
    <2>3. Aligned(a) = a
      BY <1>5 DEF Aligned, d
    <2>4. QED
      BY <2>1, <2>2, <2>3 DEF d
  <1>6. CASE a % d # 0
    <2> DEFINE t == (a + d) \div d
    <2>1. a + d \in Nat
      BY <1>1
    <2>2. t \in Nat /\ t * d <= a + d /\ a + d < t * d + d
      BY <1>1, <2>1, Quotient
    <2>3. Aligned(a) = t * d
      BY <1>6 DEF Aligned, d
    <2> HIDE DEF t
    <2>4. t * d \in Nat
      BY <1>1, <2>2
    <2>5. t * d # a + d
      <3> SUFFICES ASSUME t * d = a + d PROVE FALSE
        OBVIOUS
      <3>1. t > a \div d
        <4>1. CASE t <= a \div d
          <5>1. t * d <= (a \div d) * d
            BY <1>1, <1>3, <2>2, <4>1, MonoTimes
          <5>2. QED
            BY <1>1, <1>3, <1>4, <5>1
        <4>2. QED
          BY <1>3, <2>2, <4>1
      <3>2. a \div d + 1 \in Nat /\ (a \div d + 1) * d = (a \div d) * d + d
        BY <1>1, <1>3
      <3>3. CASE t = a \div d + 1
        BY <1>1, <1>3, <1>4, <1>6, <3>2, <3>3
      <3>4. CASE t > a \div d + 1
        <4>1. (a \div d + 1) * d + d <= t * d
          BY <1>1, <2>2, <3>2, <3>4, MonoTimes
        <4>2. QED
          BY <1>1, <1>3, <1>4, <3>2, <4>1
      <3>5. QED
        BY <1>3, <2>2, <3>1, <3>3, <3>4
    <2>6. a <= t * d /\ t * d < a + d
      BY <1>1, <2>2, <2>4, <2>5
    <2>7. t = Sectors(a)
      BY <1>1, <1>2, <2>2, <2>6, OneMultiple
    <2>8. QED
      BY <2>3, <2>7 DEF d
  <1>7. QED
    BY <1>3, <1>4, <1>5, <1>6

(* The sectors read for a chunk end where the buffer ends, or before.      *)
LEMMA ChunkFits ==
  ASSUME InRead, file_entry.size \in Nat, bytes_left > 0
  PROVE  /\ Chunk \in Nat /\ Chunk <= bytes_left
         /\ Sectors(Chunk) * SectorSize \in Nat
         /\ data_ptr + Sectors(Chunk) * SectorSize <= Aligned(file_entry.size)
  <1> DEFINE d == SectorSize
             size == file_entry.size
             q == Sectors(Chunk)
             r == Sectors(file_entry.size)
  <1>1. d \in Nat /\ d > 0 /\ ClusterSize = sectors_per_cluster * d /\ ClusterSize \in Nat
        /\ sectors_per_cluster \in Nat
    BY Sizes
  <1>2. data_ptr \in Nat /\ bytes_left \in Nat /\ data_ptr + bytes_left = size /\ size \in Nat
    BY DEF InRead
  <1>3. PICK m \in Nat : data_ptr = m * ClusterSize
    BY DEF InRead
  <1>4. PICK n \in Nat : data_ptr = n * d
    <2>1. data_ptr = (m * sectors_per_cluster) * d /\ m * sectors_per_cluster \in Nat
      BY <1>1, <1>3
    <2>2. QED
      BY <2>1
  <1>5. Chunk \in Nat /\ Chunk <= bytes_left /\ (Chunk = bytes_left \/ Chunk = ClusterSize)
    BY <1>1, <1>2 DEF Chunk
  <1>6. q \in Nat /\ Chunk <= q * d /\ q * d < Chunk + d
    BY <1>5, SectorsFacts
  <1>7. r \in Nat /\ size <= r * d /\ r * d < size + d /\ Aligned(size) = r * d
    BY <1>2, SectorsFacts, AlignedIsSectors
  <1> HIDE DEF d, size, q, r
  <1>8. q * d \in Nat /\ r * d \in Nat
    BY <1>1, <1>6, <1>7
  <1>9. CASE Chunk = bytes_left
    <2>1. n + q \in Nat /\ (n + q) * d = data_ptr + q * d
      BY <1>1, <1>4, <1>6
    <2>2. size <= (n + q) * d /\ (n + q) * d < size + d
      BY <1>1, <1>2, <1>6, <1>8, <1>9, <2>1
    <2>3. n + q = r
      BY <1>1, <1>2, <1>7, <2>1, <2>2, OneMultiple
    <2>4. data_ptr + q * d = Aligned(size)
      BY <1>7, <2>1, <2>3
    <2>5. QED
      BY <1>2, <1>5, <1>7, <1>8, <2>4 DEF d, size, q
  <1>10. CASE Chunk = ClusterSize
    <2>1. Chunk <= sectors_per_cluster * d /\ sectors_per_cluster * d < Chunk + d
      BY <1>1, <1>10
    <2>2. q = sectors_per_cluster
      BY <1>1, <1>5, <1>6, <2>1, OneMultiple
    <2>3. q * d = Chunk
      BY <1>1, <1>10, <2>2
    <2>4. data_ptr + q * d <= r * d
      BY <1>2, <1>5, <1>7, <1>8, <2>3
    <2>5. QED
      BY <1>5, <1>7, <1>8, <2>4 DEF d, size, q
  <1>11. QED
    BY <1>5, <1>9, <1>10

-----------------------------------------------------------------------------
(* The invariant.                                                          *)

LEMMA UnreadIsJunk == \A k \in DOMAIN Unread : Unread[k] = Junk
  BY DEF Unread

LEMMA Fat32Start == Init => Fat32Inv
  <1> SUFFICES ASSUME Init PROVE Fat32Inv
    OBVIOUS
  <1>1. /\ volume \in Volumes /\ pc = "idle" /\ file_entry = NoEntry /\ file_data = Unread
        /\ data_ptr = 0 /\ buffers = {} /\ result = NULL
    BY DEF Init
  <1>2. NoOverrun /\ BuffersFreed /\ file_entry.size \in Nat
    BY <1>1, UnreadIsJunk DEF NoOverrun, BuffersFreed, NoEntry
  <1>3. QED
    BY <1>1, <1>2 DEF Fat32Inv

(* A call returns.                                                         *)
LEMMA Returned ==
  ASSUME Fat32Inv, UNCHANGED volume, NEW r, NEW kept, Return(r, kept),
         kept = IF r = NULL THEN {} ELSE {"ret"}
  PROVE  Fat32Inv'
  <1>1. /\ pc' = "idle" /\ result' = r /\ buffers' = kept
        /\ file_entry' = NoEntry /\ data_ptr' = 0 /\ file_data' = Unread
    BY DEF Return, Forget
  <1>2. NoOverrun'
    BY <1>1, UnreadIsJunk DEF NoOverrun
  <1>3. BuffersFreed'
    BY <1>1 DEF BuffersFreed
  <1>4. (file_entry').size \in Nat
    BY <1>1 DEF NoEntry
  <1>5. QED
    BY <1>1, <1>2, <1>3, <1>4 DEF Fat32Inv

(* A call goes on without a file.                                          *)
LEMMA GoesOn ==
  ASSUME Fat32Inv, UNCHANGED <<volume, locals>>,
         pc \notin {"open", "read", "copy"}, pc' \notin {"idle", "open", "read", "copy"}
  PROVE  Fat32Inv'
  <1>1. UNCHANGED <<file_entry, data_ptr, bytes_left, file_data>>
    BY DEF locals
  <1>2. NoOverrun'
    BY <1>1 DEF Fat32Inv, NoOverrun, Aligned
  <1>3. QED
    BY <1>1, <1>2 DEF Fat32Inv, BuffersFreed

LEMMA CallKeeps == ASSUME Fat32Inv, NEW place \in {"ls", "find"}, Begin(place) PROVE Fat32Inv'
  BY GoesOn DEF Begin

LEMMA LsKeeps == ASSUME Fat32Inv, Ls PROVE Fat32Inv'
  <1>1. CASE LsCluster
    BY <1>1, Returned, GoesOn DEF LsCluster
  <1>2. CASE LsEnd
    BY <1>2, Returned DEF LsEnd
  <1>3. CASE LsNext
    BY <1>3, Returned, GoesOn DEF LsNext
  <1>4. QED
    BY <1>1, <1>2, <1>3 DEF Ls

LEMMA EntryOfDir ==
  ASSUME NEW v \in Volumes, NEW c \in Clusters
  PROVE  v.dir[c] \in Seq(DirectoryEntry)
  BY Fat32Assumption

LEMMA EntryIsRecord ==
  ASSUME NEW e \in DirectoryEntry
  PROVE  e.kind \in {"file", "dir", "lfn", "deleted", "end"} /\ e.size \in Nat
  BY DEF DirectoryEntry

LEMMA FindKeeps == ASSUME Fat32Inv, Find PROVE Fat32Inv'
  <1> DEFINE entries == volume.dir[cluster]
  <1>1. UNCHANGED volume /\ pc = "find" /\ cluster \in Clusters
    BY DEF Find
  <1>2. ASSUME NEW k \in Matches(entries), file_entry' = entries[k], pc' = "open",
               UNCHANGED <<data_ptr, file_data>>
        PROVE  Fat32Inv'
    <2>1. k \in DOMAIN entries
      BY <1>2 DEF Matches, UpToEnd
    <2>2. (file_entry').size \in Nat
      <3>1. entries \in Seq(DirectoryEntry)
        BY <1>1, EntryOfDir DEF Fat32Inv
      <3> HIDE DEF entries
      <3>2. entries[k] \in DirectoryEntry
        BY <2>1, <3>1
      <3>3. QED
        BY <1>2, <3>2, EntryIsRecord
    <2>3. file_data' = Unread /\ data_ptr' = 0
      BY <1>1, <1>2 DEF Fat32Inv
    <2>4. NoOverrun'
      BY <2>3, UnreadIsJunk DEF NoOverrun
    <2>5. QED
      BY <1>1, <1>2, <2>2, <2>3, <2>4 DEF Fat32Inv, BuffersFreed
  <1>3. CASE Return(NULL, {})
    BY <1>1, <1>3, Returned
  <1>4. CASE pc' = "find next" /\ UNCHANGED locals
    BY <1>1, <1>4, GoesOn
  <1>5. QED
    BY <1>2, <1>3, <1>4 DEF Find

LEMMA SearchKeeps == ASSUME Fat32Inv, FindInZero \/ FindNext \/ FindEnd PROVE Fat32Inv'
  <1>1. CASE FindInZero
    BY <1>1, Returned, GoesOn DEF FindInZero
  <1>2. CASE FindNext
    BY <1>2, GoesOn DEF FindNext
  <1>3. CASE FindEnd
    BY <1>3, Returned DEF FindEnd
  <1>4. QED
    BY <1>1, <1>2, <1>3

LEMMA OpenKeeps == ASSUME Fat32Inv, Open PROVE Fat32Inv'
  <1>1. /\ pc = "open" /\ pc' = "read" /\ bytes_left' = file_entry.size
        /\ UNCHANGED <<volume, file_entry, data_ptr, file_data>>
    BY DEF Open
  <1>2. data_ptr = 0 /\ file_entry.size \in Nat
    BY <1>1 DEF Fat32Inv
  <1>3. 0 = 0 * ClusterSize /\ 0 \in 0 .. 0
    BY Sizes
  <1>4. InRead'
    BY <1>1, <1>2, <1>3 DEF InRead
  <1>5. NoOverrun'
    BY <1>1 DEF Fat32Inv, NoOverrun, Aligned
  <1>6. QED
    BY <1>1, <1>2, <1>4, <1>5 DEF Fat32Inv, BuffersFreed

LEMMA ReadChunkKeeps == ASSUME Fat32Inv, ReadChunk PROVE Fat32Inv'
  <1>1. /\ pc = "read" /\ bytes_left > 0
        /\ file_data' = ChunkRead
        /\ data_ptr' = data_ptr + Chunk /\ bytes_left' = bytes_left - Chunk
        /\ UNCHANGED <<volume, file_entry>> /\ pc' \in {"copy", "read"}
    BY DEF ReadChunk
  <1>2. InRead /\ file_entry.size \in Nat /\ NoOverrun
    BY <1>1 DEF Fat32Inv
  <1>3. /\ Chunk \in Nat /\ Chunk <= bytes_left /\ Sectors(Chunk) * SectorSize \in Nat
        /\ data_ptr + Sectors(Chunk) * SectorSize <= Aligned(file_entry.size)
    BY <1>1, <1>2, ChunkFits
  <1>4. data_ptr \in Nat /\ bytes_left \in Nat /\ data_ptr + bytes_left = file_entry.size
    BY <1>2 DEF InRead
  <1>5. /\ data_ptr' \in Nat /\ bytes_left' \in Nat /\ data_ptr' + bytes_left' = file_entry.size
    BY <1>1, <1>3, <1>4
  <1>6. ASSUME bytes_left' > 0
        PROVE  \E n \in 0 .. data_ptr' : data_ptr' = n * ClusterSize
    <2>1. PICK m \in 0 .. data_ptr : data_ptr = m * ClusterSize
      BY <1>1, <1>2 DEF InRead
    <2>2. Chunk = ClusterSize
      BY <1>1, <1>3, <1>4, <1>6, Sizes DEF Chunk
    <2>3. m \in Nat /\ (m + 1) * ClusterSize = m * ClusterSize + ClusterSize
      BY <2>1, Sizes
    <2>4. m + 1 \in 0 .. data_ptr' /\ data_ptr' = (m + 1) * ClusterSize
      BY <1>1, <1>4, <2>1, <2>2, <2>3, Sizes
    <2>5. QED
      BY <2>4
  <1>7. InRead'
    BY <1>1, <1>5, <1>6 DEF InRead
  <1>8. NoOverrun'
    <2> SUFFICES ASSUME NEW k \in DOMAIN file_data', k >= Aligned(file_entry.size)
                 PROVE  (file_data')[k] = Junk
      BY <1>1 DEF NoOverrun, Aligned
    <2>1. k \in DOMAIN file_data
      BY <1>1 DEF ChunkRead
    <2>2. file_data[k] = Junk
      BY <1>2, <2>1 DEF NoOverrun
    <2>3. k \in Int
      BY <2>1, Fat32Assumption, Sizes DEF Fat32Inv, Unread
    <2>4. Aligned(file_entry.size) \in Int
      BY <1>2, AlignedIsSectors, SectorsFacts, Sizes
    <2>5. ~(k < data_ptr + Sectors(Chunk) * SectorSize)
      BY <1>3, <1>4, <2>3, <2>4
    <2>6. QED
      BY <1>1, <2>1, <2>2, <2>5 DEF ChunkRead
  <1>9. DOMAIN file_data' = DOMAIN Unread
    BY <1>1 DEF ChunkRead, Fat32Inv
  <1>10. QED
    BY <1>1, <1>2, <1>7, <1>8, <1>9 DEF Fat32Inv, BuffersFreed

LEMMA ReadEndKeeps == ASSUME Fat32Inv, ReadEnd PROVE Fat32Inv'
  <1>1. pc = "read" /\ pc' = "copy" /\ UNCHANGED <<volume, file_entry, data_ptr, bytes_left, file_data>>
    BY DEF ReadEnd, locals
  <1>2. NoOverrun'
    BY <1>1 DEF Fat32Inv, NoOverrun, Aligned
  <1>3. QED
    BY <1>1, <1>2 DEF Fat32Inv, BuffersFreed

LEMMA CopyKeeps == ASSUME Fat32Inv, Copy PROVE Fat32Inv'
  <1> DEFINE file == [k \in 1 .. file_entry.size |-> file_data[k - 1]]
  <1>1. Return(file, {"ret"}) /\ UNCHANGED volume
    BY DEF Copy
  <1>2. 0 \in DOMAIN NULL
    BY DEF NULL
  <1>3. 0 \notin DOMAIN file
    OBVIOUS
  <1> HIDE DEF file
  <1>4. file # NULL
    BY <1>2, <1>3
  <1>5. QED
    BY <1>1, <1>4, Returned

LEMMA Fat32Next == Fat32Inv /\ [Next]_vars => Fat32Inv'
  <1> SUFFICES ASSUME Fat32Inv, [Next]_vars PROVE Fat32Inv'
    OBVIOUS
  <1>1. CASE LsCall \/ \E name \in Fnames : ReadCall(name)
    BY <1>1, CallKeeps DEF LsCall, ReadCall
  <1>2. CASE Ls
    BY <1>2, LsKeeps
  <1>3. CASE Read
    <2>1. CASE ReadFails
      BY <2>1, Returned DEF ReadFails
    <2>2. QED
      BY <1>3, <2>1, FindKeeps, SearchKeeps, OpenKeeps, ReadChunkKeeps, ReadEndKeeps, CopyKeeps DEF Read
  <1>4. CASE UNCHANGED vars
    <2>1. UNCHANGED <<volume, pc, file_entry, data_ptr, bytes_left, file_data, buffers, result>>
      BY <1>4 DEF vars, locals
    <2>2. NoOverrun' /\ BuffersFreed'
      BY <2>1 DEF Fat32Inv, NoOverrun, Aligned, BuffersFreed
    <2>3. pc = "read" => InRead'
      BY <2>1 DEF Fat32Inv, InRead
    <2>4. QED
      BY <2>1, <2>2, <2>3 DEF Fat32Inv
  <1>5. QED
    BY <1>1, <1>2, <1>3, <1>4 DEF Next

(* The inductive invariant of fat32.c.                                     *)
THEOREM Fat32Invariant == Spec => []Fat32Inv
  BY Fat32Start, Fat32Next, PTL DEF Spec

(* The sectors of a file, whole ones and in clusters, never go beyond the  *)
(* buffer that was allocated for it (fat32_read).                          *)
THEOREM Fat32NoOverrun == Spec => []NoOverrun
  BY Fat32Invariant, PTL DEF Fat32Inv

(* Each way out of fat32_ls and fat32_read frees its buffers.              *)
THEOREM Fat32BuffersFreed == Spec => []BuffersFreed
  BY Fat32Invariant, PTL DEF Fat32Inv

-----------------------------------------------------------------------------
(* What is on a volume.                                                    *)

LEMMA Numbers ==
  ASSUME Volumes # {}
  PROVE  /\ EOC \in Nat /\ EOC # 0 /\ EOC \notin Clusters /\ 0 \notin Clusters
         /\ Clusters \subseteq Nat /\ \A c \in Clusters : c < EOC
  <1>1. EOC \in Nat /\ Clusters \subseteq Nat \ {0, 1} /\ \A c \in Clusters : c < EOC
    BY Fat32Assumption
  <1>2. \E c \in Clusters : TRUE
    BY Fat32Assumption
  <1>3. QED
    BY <1>1, <1>2

LEMMA AfterFacts ==
  ASSUME NEW v \in Volumes, NEW c \in Clusters \cup {EOC}
  PROVE  After(v, c) \in Clusters \cup {EOC}
  BY Fat32Assumption DEF After

LEMMA ChainFacts ==
  ASSUME NEW v \in Volumes, NEW c \in Clusters \cup {EOC}
  PROVE  /\ ChainFrom(v, c) \in [Nat -> Clusters \cup {EOC}]
         /\ ChainFrom(v, c)[0] = c
         /\ \A n \in Nat : ChainFrom(v, c)[n + 1] = After(v, ChainFrom(v, c)[n])
  <1> DEFINE S == Clusters \cup {EOC}
             F == [p \in (Nat \ {0}) \X S |-> After(v, p[2])]
             Eq(g) == g = [n \in Nat |-> IF n = 0 THEN c ELSE After(v, g[n - 1])]
             f == ChainFrom(v, c)
             N == {n \in Nat : f[n] \in S}
  <1>1. \A k \in Nat \ {0}, a \in S : F[<<k, a>>] = After(v, a) /\ F[<<k, a>>] \in S
    BY AfterFacts
  <1>2. c \in S /\ \A a \in S : After(v, a) \in S
    BY AfterFacts
  <1>3. f = CHOOSE h : Eq(h)
    BY DEF ChainFrom
  <1> HIDE DEF S, F, f
  <1>4. Steps(F, Nat \ {0}, S)
    BY <1>1 DEF Steps
  <1>5. PICK g : Unbounded(g, S, c, F)
    BY <1>2, <1>4, UnboundedRecursion
  <1>6. g \in [Nat -> S] /\ g = [k \in Nat |-> IF k = 0 THEN c ELSE F[<<k, g[k - 1]>>]]
    BY <1>5 DEF Unbounded
  <1>7. ASSUME NEW n \in Nat, n # 0 PROVE F[<<n, g[n - 1]>>] = After(v, g[n - 1])
    <2>1. n - 1 \in Nat /\ n \in Nat \ {0}
      BY <1>7
    <2>2. QED
      BY <1>1, <1>6, <2>1
  <1>8. Eq(g)
    BY <1>6, <1>7
  <1> HIDE DEF Eq
  <1>9. Eq(f)
    BY <1>3, <1>8
  <1> USE DEF Eq
  <1>10. f[0] = c
    BY <1>9
  <1>11. ASSUME NEW n \in Nat PROVE f[n + 1] = After(v, f[n])
    <2>1. n + 1 \in Nat /\ n + 1 # 0 /\ n + 1 - 1 = n
      OBVIOUS
    <2>2. QED
      BY <1>9, <2>1
  <1>12. 0 \in N /\ \A n \in Nat : n \in N => n + 1 \in N
    BY <1>2, <1>10, <1>11
  <1> HIDE DEF N
  <1>13. Nat \subseteq N
    BY <1>12, InductionNat
  <1>14. f \in [Nat -> S]
    <2>1. \A n \in Nat : f[n] \in S
      BY <1>13 DEF N
    <2>2. f = [n \in Nat |-> f[n]]
      BY <1>9
    <2>3. QED
      BY <2>1, <2>2
  <1>15. QED
    BY <1>10, <1>11, <1>14 DEF S, f

RootChain(v) == ChainFrom(v, v.root_cluster)

LEMMA RootFacts ==
  ASSUME NEW v \in Volumes
  PROVE  /\ RootChain(v) \in [Nat -> Clusters \cup {EOC}]
         /\ RootChain(v)[0] = v.root_cluster
         /\ \A n \in Nat : RootChain(v)[n + 1] = After(v, RootChain(v)[n])
         /\ RootChain(v)[EOC] = EOC
  <1>1. v.root_cluster \in Clusters \cup {EOC}
    BY Fat32Assumption
  <1>2. RootChain(v)[EOC] = EOC
    BY VolumesAssumption DEF RootChain
  <1>3. QED
    BY <1>1, <1>2, ChainFacts DEF RootChain

LEMMA EntriesInFacts ==
  ASSUME NEW v \in Volumes, NEW c \in Clusters \cup {EOC}
  PROVE  EntriesIn(v, c) \in Seq(DirectoryEntry)
  <1>1. CASE c = EOC
    BY <1>1 DEF EntriesIn
  <1>2. CASE c # EOC
    <2>1. v.dir \in [Clusters -> Seq(DirectoryEntry)]
      BY Fat32Assumption
    <2>2. QED
      BY <1>2, <2>1 DEF EntriesIn
  <1>3. QED
    BY <1>1, <1>2

LEMMA EntriesFacts ==
  ASSUME NEW v \in Volumes
  PROVE  /\ EntriesUpTo(v) \in [Nat -> Seq(DirectoryEntry)]
         /\ EntriesUpTo(v)[0] = <<>>
         /\ \A n \in Nat :
              EntriesUpTo(v)[n + 1] = EntriesUpTo(v)[n] \o EntriesIn(v, RootChain(v)[n])
  <1> DEFINE S == Seq(DirectoryEntry)
             In(k) == EntriesIn(v, RootChain(v)[k])
             With(a, k) == a \o In(k)
             F == [p \in (Nat \ {0}) \X S |-> With(p[2], p[1] - 1)]
             Eq(g) == g = [n \in Nat |-> IF n = 0 THEN <<>> ELSE With(g[n - 1], n - 1)]
             f == EntriesUpTo(v)
             N == {n \in Nat : f[n] \in S}
  <1>1. f = CHOOSE h : Eq(h)
    BY DEF EntriesUpTo, RootChain
  <1>2. ASSUME NEW k \in Nat PROVE In(k) \in S
    BY RootFacts, EntriesInFacts
  <1> HIDE DEF In
  <1>3. \A a \in S, k \in Nat : With(a, k) \in S
    BY <1>2, ConcatProperties
  <1> HIDE DEF With
  <1>4. ASSUME NEW k \in Nat \ {0}, NEW a \in S
        PROVE  F[<<k, a>>] = With(a, k - 1) /\ F[<<k, a>>] \in S
    <2>1. k - 1 \in Nat
      OBVIOUS
    <2>2. F[<<k, a>>] = With(a, k - 1)
      OBVIOUS
    <2>3. QED
      BY <1>3, <2>1, <2>2
  <1>5. <<>> \in S
    OBVIOUS
  <1> HIDE DEF S, F, f
  <1>6. Steps(F, Nat \ {0}, S)
    BY <1>4 DEF Steps
  <1>7. PICK g : Unbounded(g, S, <<>>, F)
    BY <1>5, <1>6, UnboundedRecursion
  <1>8. g \in [Nat -> S] /\ g = [k \in Nat |-> IF k = 0 THEN <<>> ELSE F[<<k, g[k - 1]>>]]
    BY <1>7 DEF Unbounded
  <1>9. ASSUME NEW n \in Nat, n # 0 PROVE F[<<n, g[n - 1]>>] = With(g[n - 1], n - 1)
    <2>1. n - 1 \in Nat /\ n \in Nat \ {0}
      BY <1>9
    <2>2. QED
      BY <1>4, <1>8, <2>1
  <1>10. Eq(g)
    BY <1>8, <1>9
  <1> HIDE DEF Eq
  <1>11. Eq(f)
    BY <1>1, <1>10
  <1> USE DEF Eq
  <1>12. f[0] = <<>>
    BY <1>11
  <1>13. ASSUME NEW n \in Nat PROVE f[n + 1] = With(f[n], n)
    <2>1. n + 1 \in Nat /\ n + 1 # 0 /\ n + 1 - 1 = n
      OBVIOUS
    <2>2. QED
      BY <1>11, <2>1
  <1>14. 0 \in N
    BY <1>5, <1>12
  <1>15. ASSUME NEW n \in Nat, n \in N PROVE n + 1 \in N
    <2>1. With(f[n], n) \in S
      BY <1>3, <1>15
    <2>2. f[n + 1] \in S
      BY <1>13, <2>1
    <2>3. QED
      BY <2>2
  <1> HIDE DEF N
  <1>16. Nat \subseteq N
    BY <1>14, <1>15, InductionNat
  <1>17. f \in [Nat -> S]
    <2>1. \A n \in Nat : f[n] \in S
      BY <1>16 DEF N
    <2>2. f = [n \in Nat |-> f[n]]
      BY <1>11
    <2>3. QED
      BY <2>1, <2>2
  <1>18. QED
    BY <1>12, <1>13, <1>17 DEF S, f, In, With

(* u goes on after s.                                                      *)
Starts(s, u) == Len(s) <= Len(u) /\ \A k \in 1 .. Len(s) : u[k] = s[k]

LEMMA EntriesPrefix ==
  ASSUME NEW v \in Volumes, NEW n \in Nat, NEW m \in Nat
  PROVE  Starts(EntriesUpTo(v)[n], EntriesUpTo(v)[n + m])
  <1> DEFINE E == EntriesUpTo(v)
             N == {k \in Nat : Starts(E[n], E[n + k])}
  <1>1. \A k \in Nat : E[k] \in Seq(DirectoryEntry)
    BY EntriesFacts
  <1>2. ASSUME NEW k \in Nat PROVE Starts(E[k], E[k + 1])
    <2> DEFINE d == EntriesIn(v, RootChain(v)[k])
    <2>1. E[k + 1] = E[k] \o d
      BY EntriesFacts
    <2>2. d \in Seq(DirectoryEntry)
      BY RootFacts, EntriesInFacts
    <2>3. E[k] \in Seq(DirectoryEntry)
      BY <1>1
    <2> DEFINE a == E[k]
               b == E[k + 1]
    <2> HIDE DEF d, E
    <2>4. Len(b) = Len(a) + Len(d) /\ \A i \in 1 .. Len(a) + Len(d) : b[i] = IF i <= Len(a) THEN a[i] ELSE d[i - Len(a)]
      BY <2>1, <2>2, <2>3, ConcatProperties
    <2>5. Len(a) \in Nat /\ Len(d) \in Nat
      BY <2>2, <2>3
    <2> HIDE DEF a, b
    <2>6. Starts(a, b)
      BY <2>4, <2>5 DEF Starts
    <2>7. QED
      BY <2>6 DEF a, b
  <1> HIDE DEF E
  <1>3. 0 \in N
    <2>1. E[n] \in Seq(DirectoryEntry) /\ n + 0 = n
      BY <1>1
    <2>2. QED
      BY <2>1 DEF Starts
  <1>4. ASSUME NEW k \in Nat, k \in N PROVE k + 1 \in N
    <2> DEFINE a == E[n]
               b == E[n + k]
               c == E[n + k + 1]
    <2>1. n + k \in Nat /\ n + (k + 1) = n + k + 1 /\ n + k + 1 \in Nat
      OBVIOUS
    <2>2. Starts(a, b) /\ Starts(b, c)
      BY <1>2, <1>4, <2>1
    <2>3. a \in Seq(DirectoryEntry) /\ b \in Seq(DirectoryEntry) /\ c \in Seq(DirectoryEntry)
      BY <1>1, <2>1
    <2> HIDE DEF a, b, c
    <2>4. Starts(a, c)
      <3>1. Len(a) \in Nat /\ Len(b) \in Nat /\ Len(c) \in Nat
        BY <2>3
      <3>2. QED
        BY <2>2, <3>1 DEF Starts
    <2> USE DEF a, c
    <2>5. QED
      BY <2>1, <2>4
  <1> HIDE DEF N
  <1>5. m \in N
    BY <1>3, <1>4, InductionNat
  <1>6. QED
    BY <1>5 DEF N, E

LEMMA EntriesEnd ==
  ASSUME NEW v \in Volumes, NEW n \in Nat, RootChain(v)[n] = EOC, NEW m \in Nat
  PROVE  EntriesUpTo(v)[n + m] = EntriesUpTo(v)[n]
  <1> DEFINE E == EntriesUpTo(v)
             C == RootChain(v)
             N == {k \in Nat : C[n + k] = EOC /\ E[n + k] = E[n]}
  <1>1. \A k \in Nat : E[k] \in Seq(DirectoryEntry) /\ E[k + 1] = E[k] \o EntriesIn(v, C[k])
    BY EntriesFacts
  <1>2. \A k \in Nat : C[k + 1] = After(v, C[k])
    BY RootFacts
  <1> HIDE DEF E, C
  <1>3. ASSUME NEW k \in Nat, C[k] = EOC PROVE C[k + 1] = EOC /\ E[k + 1] = E[k]
    <2>1. C[k + 1] = EOC
      BY <1>2, <1>3 DEF After
    <2>2. EntriesIn(v, C[k]) = <<>>
      BY <1>3 DEF EntriesIn
    <2> DEFINE a == E[k]
    <2>3. E[k + 1] = a \o <<>> /\ a \in Seq(DirectoryEntry)
      BY <1>1, <2>2
    <2> HIDE DEF a
    <2>4. a \o <<>> = a
      BY <2>3, ConcatEmptySeq
    <2>5. QED
      BY <2>1, <2>3, <2>4 DEF a
  <1>4. 0 \in N
    <2>1. n + 0 = n
      OBVIOUS
    <2>2. QED
      BY <2>1 DEF C
  <1>5. ASSUME NEW k \in Nat, k \in N PROVE k + 1 \in N
    <2>1. n + k \in Nat /\ n + (k + 1) = n + k + 1
      OBVIOUS
    <2>2. QED
      BY <1>3, <1>5, <2>1
  <1> HIDE DEF N
  <1>6. m \in N
    BY <1>4, <1>5, InductionNat
  <1>7. QED
    BY <1>6 DEF N, E

(* The entries of s before the first end mark are m.                       *)
CutAt(s, m) ==
  /\ m \in 0 .. Len(s)
  /\ \A k \in 1 .. m : s[k].kind # "end"
  /\ m < Len(s) => s[m + 1].kind = "end"

Cut(s) == [k \in {k \in DOMAIN s : \A j \in 1 .. k : s[j].kind # "end"} |-> s[k]]

LEMMA CutIsUpToEnd == \A s : UpToEnd(s) = Cut(s)
  BY DEF UpToEnd, Cut, IsEnd

LEMMA RootIsCut == \A v : RootDirectory(v) = Cut(EntriesUpTo(v)[EOC])
  BY DEF RootDirectory, Cut

LEMMA CutExists ==
  ASSUME NEW s \in Seq(DirectoryEntry)
  PROVE  \E m \in 0 .. Len(s) : CutAt(s, m)
  <1> DEFINE T == {k \in Nat : k < Len(s) /\ s[k + 1].kind = "end"}
  <1>1. Len(s) \in Nat
    OBVIOUS
  <1>2. CASE T = {}
    <2>1. ASSUME NEW k \in 1 .. Len(s) PROVE s[k].kind # "end"
      <3>1. k - 1 \in Nat /\ k - 1 < Len(s) /\ k - 1 + 1 = k
        BY <1>1
      <3>2. QED
        BY <1>2, <3>1
    <2>2. CutAt(s, Len(s))
      BY <1>1, <2>1 DEF CutAt
    <2>3. QED
      BY <1>1, <2>2
  <1>3. CASE T # {}
    <2>1. PICK m \in T : \A k \in T : m <= k
      BY <1>3, LeastNat
    <2>2. m \in Nat /\ m < Len(s) /\ s[m + 1].kind = "end"
      BY <2>1
    <2>3. ASSUME NEW k \in 1 .. m PROVE s[k].kind # "end"
      <3>1. k - 1 \in Nat /\ k - 1 < Len(s) /\ k - 1 + 1 = k /\ ~(m <= k - 1)
        BY <1>1, <2>2
      <3>2. QED
        BY <2>1, <3>1
    <2>4. m \in 0 .. Len(s)
      BY <1>1, <2>2
    <2>5. CutAt(s, m)
      BY <2>2, <2>3, <2>4 DEF CutAt
    <2>6. QED
      BY <2>4, <2>5
  <1>4. QED
    BY <1>2, <1>3

LEMMA CutFacts ==
  ASSUME NEW s \in Seq(DirectoryEntry), NEW m, CutAt(s, m)
  PROVE  /\ Cut(s) \in Seq(DirectoryEntry) /\ Len(Cut(s)) = m /\ DOMAIN Cut(s) = 1 .. m
         /\ \A k \in 1 .. m : Cut(s)[k] = s[k]
  <1> DEFINE V == {k \in DOMAIN s : \A j \in 1 .. k : s[j].kind # "end"}
  <1>1. Len(s) \in Nat /\ DOMAIN s = 1 .. Len(s) /\ m \in 0 .. Len(s) /\ m \in Nat
    BY DEF CutAt
  <1>2. ASSUME NEW k \in V PROVE k \in 1 .. m
    <2>1. k \in 1 .. Len(s) /\ \A j \in 1 .. k : s[j].kind # "end"
      BY <1>1
    <2>2. CASE k > m
      <3>1. m < Len(s) /\ m + 1 \in 1 .. k
        BY <1>1, <2>1, <2>2
      <3>2. QED
        BY <2>1, <3>1 DEF CutAt
    <2>3. QED
      BY <1>1, <2>1, <2>2
  <1>3. ASSUME NEW k \in 1 .. m PROVE k \in V
    <2>1. k \in 1 .. Len(s) /\ \A j \in 1 .. k : j \in 1 .. m
      BY <1>1
    <2>2. QED
      BY <1>1, <2>1 DEF CutAt
  <1>4. V = 1 .. m
    BY <1>2, <1>3
  <1>5. Cut(s) = [k \in V |-> s[k]]
    BY DEF Cut
  <1> HIDE DEF V
  <1>6. \A k \in 1 .. m : s[k] \in DirectoryEntry
    BY <1>1
  <1>7. Cut(s) = [k \in 1 .. m |-> s[k]]
    BY <1>4, <1>5
  <1>8. Cut(s) \in [1 .. m -> DirectoryEntry]
    BY <1>6, <1>7
  <1>9. Cut(s) \in Seq(DirectoryEntry) /\ Len(Cut(s)) = m
    BY <1>1, <1>8
  <1>10. QED
    BY <1>7, <1>9

LEMMA NoEndNoCut ==
  ASSUME NEW s \in Seq(DirectoryEntry), \A k \in DOMAIN s : s[k].kind # "end"
  PROVE  Cut(s) = s
  <1>1. CutAt(s, Len(s))
    BY DEF CutAt
  <1>2. /\ Cut(s) \in Seq(DirectoryEntry) /\ Len(Cut(s)) = Len(s)
        /\ \A k \in 1 .. Len(s) : Cut(s)[k] = s[k]
    BY <1>1, CutFacts
  <1>3. QED
    BY <1>2, SeqEqual

(* Directory u has s in clusters that are passed and goes on with d.       *)
GoesOnWith(s, d, u) ==
  /\ Len(s) + Len(d) <= Len(u)
  /\ \A k \in 1 .. Len(s) : u[k] = s[k]
  /\ \A k \in 1 .. Len(d) : u[Len(s) + k] = d[k]

LEMMA ConcatGoesOn ==
  ASSUME NEW s \in Seq(DirectoryEntry), NEW d \in Seq(DirectoryEntry), NEW u, NEW sd,
         sd = s \o d, Starts(sd, u)
  PROVE  GoesOnWith(s, d, u)
  <1>1. /\ Len(sd) = Len(s) + Len(d)
        /\ \A i \in 1 .. Len(s) + Len(d) : sd[i] = IF i <= Len(s) THEN s[i] ELSE d[i - Len(s)]
    BY ConcatProperties
  <1>2. Len(s) \in Nat /\ Len(d) \in Nat
    OBVIOUS
  <1>3. \A i \in 1 .. Len(s) + Len(d) : u[i] = sd[i]
    BY <1>1 DEF Starts
  <1>4. ASSUME NEW i \in 1 .. Len(s) PROVE u[i] = s[i]
    <2>1. i \in 1 .. Len(s) + Len(d) /\ i <= Len(s)
      BY <1>2
    <2>2. QED
      BY <1>1, <1>3, <2>1
  <1>5. ASSUME NEW i \in 1 .. Len(d) PROVE u[Len(s) + i] = d[i]
    <2>1. Len(s) + i \in 1 .. Len(s) + Len(d) /\ ~(Len(s) + i <= Len(s)) /\ Len(s) + i - Len(s) = i
      BY <1>2
    <2>2. QED
      BY <1>1, <1>3, <2>1
  <1>6. Len(s) + Len(d) <= Len(u)
    BY <1>1 DEF Starts
  <1>7. QED
    BY <1>4, <1>5, <1>6 DEF GoesOnWith

LEMMA AtRoot ==
  ASSUME NEW v \in Volumes, NEW n \in 0 .. EOC, RootChain(v)[n] \in Clusters,
         NEW s, s = EntriesUpTo(v)[n], NEW d, d = v.dir[RootChain(v)[n]],
         NEW u, u = EntriesUpTo(v)[EOC]
  PROVE  /\ n < EOC /\ EntriesUpTo(v)[n + 1] = s \o d
         /\ s \in Seq(DirectoryEntry) /\ d \in Seq(DirectoryEntry) /\ u \in Seq(DirectoryEntry)
         /\ GoesOnWith(s, d, u)
  <1>1. EOC \in Nat /\ EOC \notin Clusters
    BY Numbers
  <1>2. RootChain(v)[EOC] = EOC
    BY RootFacts
  <1>3. n \in Nat /\ n < EOC
    BY <1>1, <1>2
  <1>4. RootChain(v)[n] # EOC
    BY <1>1
  <1>5. EntriesIn(v, RootChain(v)[n]) = d
    BY <1>4 DEF EntriesIn
  <1> DEFINE sd == EntriesUpTo(v)[n + 1]
  <1>6. sd = s \o d
    BY <1>3, <1>5, EntriesFacts
  <1>7. d \in Seq(DirectoryEntry)
    BY EntryOfDir
  <1>8. s \in Seq(DirectoryEntry)
    BY <1>3, EntriesFacts
  <1>9. u \in Seq(DirectoryEntry)
    BY <1>1, EntriesFacts
  <1>10. Starts(sd, u)
    <2>1. n + 1 \in Nat /\ EOC - (n + 1) \in Nat /\ n + 1 + (EOC - (n + 1)) = EOC
      BY <1>1, <1>3
    <2>2. Starts(EntriesUpTo(v)[n + 1], EntriesUpTo(v)[n + 1 + (EOC - (n + 1))])
      BY <2>1, EntriesPrefix
    <2>3. QED
      BY <2>1, <2>2
  <1> HIDE DEF sd
  <1>11. GoesOnWith(s, d, u)
    BY <1>6, <1>7, <1>8, <1>10, ConcatGoesOn
  <1>12. QED
    BY <1>3, <1>6, <1>7, <1>8, <1>9, <1>11 DEF sd

(* If the end mark is in d, the rest of the directory does not count.      *)
LEMMA CutOfDir ==
  ASSUME NEW s \in Seq(DirectoryEntry), NEW d \in Seq(DirectoryEntry), NEW u \in Seq(DirectoryEntry),
         GoesOnWith(s, d, u), \A k \in DOMAIN s : s[k].kind # "end",
         NEW m, CutAt(d, m), m < Len(d)
  PROVE  Cut(u) = s \o Cut(d)
  <1> DEFINE c == Cut(d)
             l == Cut(u)
             r == s \o c
             p == Len(s) + m
  <1>1. Len(s) \in Nat /\ Len(d) \in Nat /\ Len(u) \in Nat /\ m \in Nat
    BY DEF CutAt
  <1>2. p \in Nat /\ p < Len(u) /\ p + 1 = Len(s) + (m + 1) /\ m + 1 \in 1 .. Len(d)
    BY <1>1 DEF GoesOnWith
  <1>3. CutAt(u, p)
    <2>1. u[p + 1].kind = "end"
      <3>1. u[p + 1] = d[m + 1]
        BY <1>2 DEF GoesOnWith
      <3>2. QED
        BY <3>1 DEF CutAt
    <2>2. ASSUME NEW k \in 1 .. p PROVE u[k].kind # "end"
      <3>1. CASE k <= Len(s)
        <4>1. k \in 1 .. Len(s) /\ k \in DOMAIN s
          BY <1>1, <3>1
        <4>2. QED
          BY <4>1 DEF GoesOnWith
      <3>2. CASE k > Len(s)
        <4>1. k - Len(s) \in 1 .. m /\ k - Len(s) \in 1 .. Len(d) /\ k = Len(s) + (k - Len(s))
          BY <1>1, <3>2
        <4>2. u[k] = d[k - Len(s)]
          BY <4>1 DEF GoesOnWith
        <4>3. QED
          BY <4>1, <4>2 DEF CutAt
      <3>3. QED
        BY <1>1, <3>1, <3>2
    <2>3. p \in 0 .. Len(u)
      BY <1>1, <1>2
    <2> HIDE DEF p
    <2>4. QED
      BY <2>1, <2>2, <2>3 DEF CutAt
  <1> HIDE DEF p
  <1>4. l \in Seq(DirectoryEntry) /\ Len(l) = p /\ \A k \in 1 .. p : l[k] = u[k]
    BY <1>3, CutFacts
  <1>5. c \in Seq(DirectoryEntry) /\ Len(c) = m /\ \A k \in 1 .. m : c[k] = d[k]
    BY CutFacts
  <1> HIDE DEF l, c
  <1>6. /\ r \in Seq(DirectoryEntry) /\ Len(r) = Len(s) + Len(c)
        /\ \A k \in 1 .. Len(s) + Len(c) : r[k] = IF k <= Len(s) THEN s[k] ELSE c[k - Len(s)]
    BY <1>5, ConcatProperties
  <1> HIDE DEF r
  <1>7. ASSUME NEW k \in 1 .. Len(l) PROVE l[k] = r[k]
    <2>1. k \in 1 .. p /\ k \in 1 .. Len(s) + Len(c)
      BY <1>4, <1>5 DEF p
    <2>2. CASE k <= Len(s)
      <3>1. k \in 1 .. Len(s)
        BY <1>1, <2>1, <2>2
      <3>2. QED
        BY <1>4, <1>6, <2>1, <2>2, <3>1 DEF GoesOnWith
    <2>3. CASE ~(k <= Len(s))
      <3>1. k - Len(s) \in 1 .. m /\ k - Len(s) \in 1 .. Len(d) /\ k = Len(s) + (k - Len(s))
        BY <1>1, <1>5, <2>1, <2>3 DEF CutAt
      <3>2. l[k] = d[k - Len(s)]
        BY <1>4, <2>1, <3>1 DEF GoesOnWith
      <3>3. r[k] = c[k - Len(s)] /\ c[k - Len(s)] = d[k - Len(s)]
        BY <1>5, <1>6, <2>1, <2>3, <3>1
      <3>4. QED
        BY <3>2, <3>3
    <2>4. QED
      BY <2>2, <2>3
  <1>8. Len(l) = Len(r)
    BY <1>4, <1>5, <1>6 DEF p
  <1>9. l = r
    BY <1>4, <1>6, <1>7, <1>8, SeqEqual
  <1>10. QED
    BY <1>9 DEF l, r, c

LEMMA FileFacts ==
  ASSUME NEW v \in Volumes, NEW u, u = EntriesUpTo(v)[EOC]
  PROVE  /\ \A e \in Files(v) : \E k \in 1 .. Len(u) :
              e = u[k] /\ e.kind = "file" /\ \A j \in 1 .. k : u[j].kind # "end"
         /\ \A k \in 1 .. Len(u) :
              u[k].kind = "file" /\ (\A j \in 1 .. k : u[j].kind # "end") => u[k] \in Files(v)
  <1>1. EOC \in Nat
    BY Numbers
  <1>2. u \in Seq(DirectoryEntry)
    BY <1>1, EntriesFacts
  <1> DEFINE V == {k \in DOMAIN u : \A j \in 1 .. k : u[j].kind # "end"}
             c == Cut(u)
  <1>3. c = [k \in V |-> u[k]]
    BY DEF Cut
  <1>4. Files(v) = {c[k] : k \in {j \in DOMAIN c : c[j].kind = "file"}}
    BY RootIsCut DEF Files
  <1>5. DOMAIN c = V /\ \A k \in V : c[k] = u[k]
    BY <1>3
  <1> HIDE DEF c
  <1>6. Files(v) = {u[k] : k \in {j \in V : u[j].kind = "file"}}
    BY <1>4, <1>5
  <1>7. DOMAIN u = 1 .. Len(u)
    BY <1>2, LenProperties
  <1>8. QED
    BY <1>6, <1>7

-----------------------------------------------------------------------------
(* What a search knows.                                                    *)

NoMatch(entries) ==
  \A k \in DOMAIN entries : entries[k].kind # "file" \/ entries[k].name # fname

NoEnd(entries) == \A k \in DOMAIN entries : entries[k].kind # "end"

LEMMA PassedFacts ==
  ASSUME NEW n \in Nat, Passed(n), pc \in {"ls", "find"}, NEW s, s = EntriesUpTo(volume)[n]
  PROVE  /\ NoEnd(s)
         /\ pc = "find" => NoMatch(s)
         /\ pc = "ls" => listed = Shown(s)
  <1>1. pc \notin {"ls next", "find next"}
    OBVIOUS
  <1>2. QED
    BY <1>1 DEF Passed, NoEnd, NoMatch

(* The place in the directory of entry k of a cluster.                     *)
LEMMA PlaceInDir ==
  ASSUME NEW s \in Seq(DirectoryEntry), NEW d \in Seq(DirectoryEntry), NEW u \in Seq(DirectoryEntry),
         GoesOnWith(s, d, u), NoEnd(s), NEW k \in 1 .. Len(d)
  PROVE  /\ Len(s) + k \in 1 .. Len(u) /\ u[Len(s) + k] = d[k]
         /\ (\A j \in 1 .. k : d[j].kind # "end") <=> (\A j \in 1 .. (Len(s) + k) : u[j].kind # "end")
  <1>1. Len(s) \in Nat /\ Len(d) \in Nat /\ Len(u) \in Nat /\ DOMAIN s = 1 .. Len(s)
    OBVIOUS
  <1>2. Len(s) + k \in 1 .. Len(u) /\ u[Len(s) + k] = d[k]
    BY <1>1 DEF GoesOnWith
  <1>3. ASSUME \A j \in 1 .. k : d[j].kind # "end", NEW i \in 1 .. (Len(s) + k)
        PROVE  u[i].kind # "end"
    <2>1. CASE i <= Len(s)
      <3>1. i \in 1 .. Len(s)
        BY <1>1, <2>1
      <3>2. u[i] = s[i]
        BY <3>1 DEF GoesOnWith
      <3>3. QED
        BY <1>1, <3>1, <3>2 DEF NoEnd
    <2>2. CASE ~(i <= Len(s))
      <3>1. i - Len(s) \in 1 .. k /\ i - Len(s) \in 1 .. Len(d) /\ i = Len(s) + (i - Len(s))
        BY <1>1, <2>2
      <3>2. u[i] = d[i - Len(s)]
        BY <3>1 DEF GoesOnWith
      <3>3. QED
        BY <1>3, <3>1, <3>2
    <2>3. QED
      BY <2>1, <2>2
  <1>4. ASSUME \A j \in 1 .. (Len(s) + k) : u[j].kind # "end", NEW j \in 1 .. k
        PROVE  d[j].kind # "end"
    <2>1. j \in 1 .. Len(d) /\ Len(s) + j \in 1 .. (Len(s) + k)
      BY <1>1
    <2>2. u[Len(s) + j] = d[j]
      BY <2>1 DEF GoesOnWith
    <2>3. QED
      BY <1>4, <2>1, <2>2
  <1>5. QED
    BY <1>2, <1>3, <1>4

LEMMA MatchFacts ==
  ASSUME NEW d \in Seq(DirectoryEntry)
  PROVE  Matches(d) = {k \in 1 .. Len(d) : /\ \A j \in 1 .. k : d[j].kind # "end"
                                          /\ d[k].kind = "file" /\ d[k].name = fname}
  <1> DEFINE V == {k \in DOMAIN d : \A j \in 1 .. k : d[j].kind # "end"}
  <1>1. UpToEnd(d) = [k \in V |-> d[k]]
    BY CutIsUpToEnd DEF Cut
  <1> HIDE DEF V
  <1>2. DOMAIN UpToEnd(d) = V
    BY <1>1
  <1>3. Matches(d) = {k \in V : d[k].kind = "file" /\ d[k].name = fname}
    BY <1>2 DEF Matches
  <1>4. QED
    BY <1>3 DEF V

LEMMA MatchIsFile ==
  ASSUME volume \in Volumes, NEW n \in 0 .. EOC, cluster = RootChain(volume)[n],
         cluster \in Clusters, pc = "find", Passed(n),
         NEW k \in Matches(volume.dir[cluster])
  PROVE  volume.dir[cluster][k] \in Files(volume) /\ volume.dir[cluster][k].name = fname
  <1> DEFINE s == EntriesUpTo(volume)[n]
             d == volume.dir[cluster]
             u == EntriesUpTo(volume)[EOC]
  <1>1. /\ s \in Seq(DirectoryEntry) /\ d \in Seq(DirectoryEntry) /\ u \in Seq(DirectoryEntry)
        /\ GoesOnWith(s, d, u)
    BY AtRoot
  <1>2. NoEnd(s)
    BY PassedFacts
  <1>3. u = EntriesUpTo(volume)[EOC] /\ k \in Matches(d)
    OBVIOUS
  <1> HIDE DEF s, d, u
  <1>4. /\ k \in 1 .. Len(d) /\ \A j \in 1 .. k : d[j].kind # "end"
        /\ d[k].kind = "file" /\ d[k].name = fname
    BY <1>1, <1>3, MatchFacts
  <1>5. /\ Len(s) + k \in 1 .. Len(u) /\ u[Len(s) + k] = d[k]
        /\ \A j \in 1 .. (Len(s) + k) : u[j].kind # "end"
    BY <1>1, <1>2, <1>4, PlaceInDir
  <1>6. d[k] \in Files(volume)
    BY <1>3, <1>4, <1>5, FileFacts
  <1>7. QED
    BY <1>4, <1>6 DEF d

LEMMA NotInDirectory ==
  ASSUME volume \in Volumes, NEW n \in 0 .. EOC, cluster = RootChain(volume)[n],
         pc = "find", Passed(n),
         \/ cluster = EOC
         \/ /\ cluster \in Clusters
            /\ Matches(volume.dir[cluster]) = {} /\ Ended(volume.dir[cluster])
  PROVE  \A e \in Files(volume) : e.name # fname
  <1> DEFINE s == EntriesUpTo(volume)[n]
             u == EntriesUpTo(volume)[EOC]
  <1> SUFFICES ASSUME NEW e \in Files(volume), e.name = fname PROVE FALSE
    OBVIOUS
  <1>1. PICK k \in 1 .. Len(u) : e = u[k] /\ e.kind = "file" /\ \A j \in 1 .. k : u[j].kind # "end"
    BY FileFacts
  <1>2. NoEnd(s) /\ NoMatch(s)
    BY PassedFacts
  <1>3. EOC \in Nat /\ n \in Nat /\ n <= EOC
    BY Numbers
  <1>4. CASE cluster = EOC
    <2>1. EOC - n \in Nat /\ n + (EOC - n) = EOC
      BY <1>3
    <2>2. u = s
      BY <1>3, <1>4, <2>1, EntriesEnd
    <2>3. u \in Seq(DirectoryEntry)
      BY <1>3, EntriesFacts
    <2> HIDE DEF u, s
    <2>4. k \in DOMAIN s
      BY <2>2, <2>3
    <2>5. QED
      BY <1>1, <1>2, <2>2, <2>4 DEF NoMatch
  <1>5. CASE cluster \in Clusters /\ Matches(volume.dir[cluster]) = {} /\ Ended(volume.dir[cluster])
    <2> DEFINE d == volume.dir[cluster]
    <2>1. /\ s \in Seq(DirectoryEntry) /\ d \in Seq(DirectoryEntry) /\ u \in Seq(DirectoryEntry)
          /\ GoesOnWith(s, d, u)
      BY <1>5, AtRoot
    <2>2. Matches(d) = {} /\ Ended(d)
      BY <1>5
    <2> HIDE DEF s, d, u
    <2>3. Len(s) \in Nat /\ Len(d) \in Nat /\ Len(u) \in Nat /\ DOMAIN d = 1 .. Len(d)
      BY <2>1
    <2>4. PICK i \in 1 .. Len(d) : d[i].kind = "end"
      BY <2>2, <2>3 DEF Ended, IsEnd
    <2>5. ~(k <= Len(s))
      <3> SUFFICES ASSUME k <= Len(s) PROVE FALSE
        OBVIOUS
      <3>1. k \in 1 .. Len(s) /\ k \in DOMAIN s
        BY <2>1, <2>3
      <3>2. u[k] = s[k]
        BY <2>1, <3>1 DEF GoesOnWith
      <3>3. QED
        BY <1>1, <1>2, <3>1, <3>2 DEF NoMatch
    <2>6. ~(Len(s) + i <= k)
      <3>1. u[Len(s) + i] = d[i] /\ Len(s) + i \in Nat /\ Len(s) + i >= 1
        BY <2>1, <2>3 DEF GoesOnWith
      <3>2. QED
        BY <1>1, <2>3, <2>4, <3>1
    <2> DEFINE m == k - Len(s)
    <2>7. m \in 1 .. Len(d) /\ Len(s) + m = k
      BY <2>3, <2>5, <2>6
    <2> HIDE DEF m
    <2>8. d[m] = e /\ \A j \in 1 .. m : d[j].kind # "end"
      BY <1>1, <1>2, <2>1, <2>7, PlaceInDir
    <2>9. m \in Matches(d)
      BY <1>1, <2>1, <2>7, <2>8, MatchFacts
    <2>10. QED
      BY <2>2, <2>9
  <1>6. QED
    BY <1>4, <1>5

LEMMA NextInDir ==
  ASSUME NEW v \in Volumes, NEW n \in 0 .. EOC, RootChain(v)[n] \in Clusters
  PROVE  EntriesUpTo(v)[n + 1] = EntriesUpTo(v)[n] \o v.dir[RootChain(v)[n]]
  <1>1. n \in Nat /\ RootChain(v)[n] # EOC
    BY Numbers
  <1>2. EntriesIn(v, RootChain(v)[n]) = v.dir[RootChain(v)[n]]
    BY <1>1 DEF EntriesIn
  <1>3. QED
    BY <1>1, <1>2, EntriesFacts

(* A cluster without an end mark and without the file is passed.           *)
LEMMA PassesCluster ==
  ASSUME volume \in Volumes, NEW n \in 0 .. EOC, cluster = RootChain(volume)[n],
         cluster \in Clusters, pc \in {"ls", "find"}, Passed(n), ~Ended(volume.dir[cluster]),
         NEW sd, sd = EntriesUpTo(volume)[n + 1]
  PROVE  /\ n < EOC /\ sd \in Seq(DirectoryEntry) /\ NoEnd(sd)
         /\ pc = "find" /\ Matches(volume.dir[cluster]) = {} => NoMatch(sd)
  <1> DEFINE s == EntriesUpTo(volume)[n]
             d == volume.dir[cluster]
             u == EntriesUpTo(volume)[EOC]
  <1>1. /\ n < EOC /\ sd = s \o d
        /\ s \in Seq(DirectoryEntry) /\ d \in Seq(DirectoryEntry)
    <2>1. s \in Seq(DirectoryEntry) /\ d \in Seq(DirectoryEntry) /\ n < EOC
      BY AtRoot
    <2>2. sd = s \o d
      BY NextInDir
    <2>3. QED
      BY <2>1, <2>2
  <1>2. NoEnd(s) /\ (pc = "find" => NoMatch(s))
    BY PassedFacts
  <1>3. ~Ended(d)
    OBVIOUS
  <1> HIDE DEF s, d, u
  <1>4. Len(s) \in Nat /\ Len(d) \in Nat /\ DOMAIN s = 1 .. Len(s) /\ DOMAIN d = 1 .. Len(d)
    BY <1>1
  <1>5. /\ sd \in Seq(DirectoryEntry) /\ Len(sd) = Len(s) + Len(d)
        /\ \A i \in 1 .. Len(s) + Len(d) : sd[i] = IF i <= Len(s) THEN s[i] ELSE d[i - Len(s)]
    BY <1>1, ConcatProperties
  <1>6. ASSUME NEW k \in DOMAIN sd
        PROVE  (k \in DOMAIN s /\ sd[k] = s[k]) \/ \E j \in DOMAIN d : sd[k] = d[j]
    <2>1. k \in 1 .. Len(s) + Len(d)
      BY <1>5
    <2>2. CASE k <= Len(s)
      BY <1>4, <1>5, <2>1, <2>2
    <2>3. CASE ~(k <= Len(s))
      <3>1. k - Len(s) \in DOMAIN d
        BY <1>4, <2>1, <2>3
      <3>2. QED
        BY <1>5, <2>1, <2>3, <3>1
    <2>4. QED
      BY <2>2, <2>3
  <1>7. \A j \in DOMAIN d : d[j].kind # "end"
    BY <1>3 DEF Ended, IsEnd
  <1>8. NoEnd(sd)
    BY <1>2, <1>6, <1>7 DEF NoEnd
  <1>9. ASSUME pc = "find", Matches(d) = {} PROVE NoMatch(sd)
    <2>1. ASSUME NEW j \in DOMAIN d PROVE d[j].kind # "file" \/ d[j].name # fname
      <3>1. j \in 1 .. Len(d) /\ \A i \in 1 .. j : i \in DOMAIN d
        BY <1>4
      <3>2. QED
        BY <1>1, <1>7, <1>9, <3>1, MatchFacts
    <2>2. NoMatch(s)
      BY <1>2, <1>9
    <2>3. QED
      BY <1>6, <2>1, <2>2 DEF NoMatch
  <1>10. QED
    BY <1>1, <1>5, <1>8, <1>9 DEF d

-----------------------------------------------------------------------------
(* What fat32_ls shows.                                                    *)

LEMMA ShownEmpty ==
  ASSUME NEW s \in Seq(DirectoryEntry), Len(s) = 0
  PROVE  Shown(s) = <<>>
  BY SelectedEmpty DEF Shown

LEMMA ShownInSeq ==
  ASSUME NEW s \in Seq(DirectoryEntry)
  PROVE  Shown(s) \in Seq(DirectoryEntry)
  BY UpToInSeq DEF Shown

LEMMA ShownConcat ==
  ASSUME NEW s \in Seq(DirectoryEntry), NEW t \in Seq(DirectoryEntry), NEW st, st = s \o t
  PROVE  Shown(st) = Shown(s) \o Shown(t)
  <1> DEFINE M(u) == {k \in DOMAIN u : u[k].kind \notin {"deleted", "lfn"}}
  <1>1. /\ st \in Seq(DirectoryEntry) /\ Len(st) = Len(s) + Len(t)
        /\ \A i \in 1 .. Len(s) + Len(t) : st[i] = IF i <= Len(s) THEN s[i] ELSE t[i - Len(s)]
    BY ConcatProperties
  <1>2. Len(s) \in Nat /\ Len(t) \in Nat
    OBVIOUS
  <1>3. DOMAIN s = 1 .. Len(s) /\ DOMAIN t = 1 .. Len(t)
    OBVIOUS
  <1>4. DOMAIN st = 1 .. Len(s) + Len(t)
    BY <1>1, LenProperties
  <1>5. ASSUME NEW k \in 1 .. Len(s) PROVE k \in M(st) <=> k \in M(s)
    <2>1. k \in 1 .. Len(s) + Len(t) /\ k <= Len(s)
      BY <1>2
    <2>2. st[k] = s[k]
      BY <1>1, <2>1
    <2>3. QED
      BY <1>3, <1>4, <2>1, <2>2
  <1>6. ASSUME NEW k \in 1 .. Len(t) PROVE Len(s) + k \in M(st) <=> k \in M(t)
    <2>1. Len(s) + k \in 1 .. Len(s) + Len(t) /\ ~(Len(s) + k <= Len(s)) /\ Len(s) + k - Len(s) = k
      BY <1>2
    <2>2. st[Len(s) + k] = t[k]
      BY <1>1, <2>1
    <2>3. QED
      BY <1>3, <1>4, <2>1, <2>2
  <1>7. Shown(st) = Selected(st, M(st)) /\ Shown(s) = Selected(s, M(s)) /\ Shown(t) = Selected(t, M(t))
    BY DEF Shown
  <1> DEFINE A == M(st)
             B == M(s)
             C == M(t)
  <1>8. Beside(A, B, C, Len(s), Len(t))
    BY <1>5, <1>6 DEF Beside
  <1> HIDE DEF A, B, C
  <1>9. Selected(s \o t, A) = Selected(s, B) \o Selected(t, C)
    BY <1>8, SelectedConcat
  <1>10. Selected(st, A) = Selected(s, B) \o Selected(t, C)
    BY <1>9
  <1>11. Shown(st) = Selected(st, A) /\ Shown(s) = Selected(s, B) /\ Shown(t) = Selected(t, C)
    BY <1>7 DEF A, B, C
  <1>12. QED
    BY <1>10, <1>11

LEMMA ListedIsShown ==
  ASSUME NEW d \in Seq(DirectoryEntry)
  PROVE  Listed(d) = Shown(Cut(d))
  <1> DEFINE c == Cut(d)
             K == {k \in DOMAIN d : IsShown(d[k])}
             L == {k \in DOMAIN c : c[k].kind \notin {"deleted", "lfn"}}
  <1>1. PICK m \in 0 .. Len(d) : CutAt(d, m)
    BY CutExists
  <1>2. /\ c \in Seq(DirectoryEntry) /\ Len(c) = m /\ DOMAIN c = 1 .. m
        /\ \A k \in 1 .. m : c[k] = d[k]
    BY <1>1, CutFacts
  <1>3. DOMAIN d = 1 .. Len(d) /\ Len(d) \in Nat
    OBVIOUS
  <1>4. Listed(d) = Selected(c, K)
    BY CutIsUpToEnd DEF Listed
  <1>5. Shown(c) = Selected(c, L)
    BY DEF Shown
  <1>6. ASSUME NEW k \in 1 .. m PROVE k \in K <=> k \in L
    <2>1. k \in DOMAIN d /\ k \in DOMAIN c /\ c[k] = d[k] /\ d[k] \in DirectoryEntry
      BY <1>2, <1>3
    <2>2. d[k].kind # "end"
      BY <1>1 DEF CutAt
    <2>3. d[k].kind \in {"file", "dir", "lfn", "deleted", "end"}
      BY <2>1, EntryIsRecord
    <2>4. IsShown(d[k]) <=> d[k].kind \notin {"deleted", "lfn"}
      BY <2>2, <2>3 DEF IsShown
    <2>5. QED
      BY <2>1, <2>4
  <1> HIDE DEF c, K, L
  <1>7. Selected(c, K) = Selected(c, L)
    BY <1>2, <1>6, SelectedSame
  <1>8. QED
    BY <1>4, <1>5, <1>7 DEF c

(* fat32_ls meets the end mark, the end of the chain, or none of them.     *)
LEMMA ListedAll ==
  ASSUME volume \in Volumes, NEW n \in 0 .. EOC, cluster = RootChain(volume)[n],
         cluster \in Clusters, pc = "ls", Passed(n), Ended(volume.dir[cluster])
  PROVE  listed \o Listed(volume.dir[cluster]) = Shown(RootDirectory(volume))
  <1> DEFINE s == EntriesUpTo(volume)[n]
             d == volume.dir[cluster]
             u == EntriesUpTo(volume)[EOC]
  <1>1. /\ s \in Seq(DirectoryEntry) /\ d \in Seq(DirectoryEntry) /\ u \in Seq(DirectoryEntry)
        /\ GoesOnWith(s, d, u)
    BY AtRoot
  <1>2. NoEnd(s) /\ listed = Shown(s)
    BY PassedFacts
  <1>3. RootDirectory(volume) = Cut(u) /\ Ended(d)
    BY RootIsCut
  <1> HIDE DEF s, d, u
  <1>4. PICK m \in 0 .. Len(d) : CutAt(d, m)
    BY <1>1, CutExists
  <1>5. m < Len(d)
    <2>1. PICK k \in DOMAIN d : d[k].kind = "end"
      BY <1>3 DEF Ended, IsEnd
    <2>2. k \in 1 .. Len(d) /\ Len(d) \in Nat
      BY <1>1
    <2>3. k \notin 1 .. m
      BY <1>4, <2>1 DEF CutAt
    <2>4. QED
      BY <2>2, <2>3
  <1>6. Cut(u) = s \o Cut(d)
    BY <1>1, <1>2, <1>4, <1>5, CutOfDir DEF NoEnd
  <1>7. Cut(d) \in Seq(DirectoryEntry)
    BY <1>1, <1>4, CutFacts
  <1> DEFINE c == Cut(d)
             r == Cut(u)
  <1>8. r = s \o c /\ c \in Seq(DirectoryEntry) /\ Listed(d) = Shown(c)
    BY <1>1, <1>6, <1>7, ListedIsShown
  <1>9. RootDirectory(volume) = r
    BY <1>3
  <1> HIDE DEF c, r
  <1>10. Shown(r) = Shown(s) \o Shown(c)
    BY <1>1, <1>8, ShownConcat
  <1>11. listed \o Listed(d) = Shown(r)
    BY <1>2, <1>8, <1>10
  <1>12. QED
    BY <1>9, <1>11 DEF d

LEMMA ListedToEnd ==
  ASSUME volume \in Volumes, NEW n \in 0 .. EOC, EOC = RootChain(volume)[n],
         pc = "ls", Passed(n)
  PROVE  listed = Shown(RootDirectory(volume))
  <1> DEFINE s == EntriesUpTo(volume)[n]
             u == EntriesUpTo(volume)[EOC]
  <1>1. EOC \in Nat /\ n \in Nat /\ EOC - n \in Nat /\ n + (EOC - n) = EOC
    BY Numbers
  <1>2. u = s
    BY <1>1, EntriesEnd
  <1>3. s \in Seq(DirectoryEntry)
    BY <1>1, EntriesFacts
  <1>4. NoEnd(s) /\ listed = Shown(s)
    BY <1>1, PassedFacts
  <1>5. RootDirectory(volume) = Cut(u)
    BY RootIsCut
  <1> HIDE DEF s, u
  <1>6. Cut(s) = s
    BY <1>3, <1>4, NoEndNoCut DEF NoEnd
  <1>7. QED
    BY <1>2, <1>4, <1>5, <1>6

LEMMA ListsCluster ==
  ASSUME volume \in Volumes, NEW n \in 0 .. EOC, cluster = RootChain(volume)[n],
         cluster \in Clusters, pc = "ls", Passed(n), ~Ended(volume.dir[cluster]),
         NEW sd, sd = EntriesUpTo(volume)[n + 1]
  PROVE  listed \o Listed(volume.dir[cluster]) = Shown(sd)
  <1> DEFINE s == EntriesUpTo(volume)[n]
             d == volume.dir[cluster]
  <1>1. s \in Seq(DirectoryEntry) /\ d \in Seq(DirectoryEntry)
    BY AtRoot
  <1>2. sd = s \o d
    BY NextInDir
  <1>3. listed = Shown(s)
    BY PassedFacts
  <1>4. \A k \in DOMAIN d : d[k].kind # "end"
    BY DEF Ended, IsEnd
  <1> HIDE DEF s, d
  <1>5. Listed(d) = Shown(d)
    BY <1>1, <1>4, NoEndNoCut, ListedIsShown
  <1>6. Shown(sd) = Shown(s) \o Shown(d)
    BY <1>1, <1>2, ShownConcat
  <1>7. listed \o Listed(d) = Shown(sd)
    BY <1>3, <1>5, <1>6
  <1>8. QED
    BY <1>7 DEF d

-----------------------------------------------------------------------------
(* FileInv: the searches.                                                  *)

LEMMA FileStart == ASSUME Init PROVE FileInv
  <1>1. pc = "idle" /\ result = NULL
    BY DEF Init
  <1>2. ReturnsTheFile /\ pc \notin Searching /\ pc \notin {"open", "read", "copy"}
    BY <1>1 DEF ReturnsTheFile, Searching
  <1>3. QED
    BY <1>2 DEF FileInv

LEMMA FileGivesUp == ASSUME pc' = "idle", result' = NULL PROVE FileInv'
  <1>1. ReturnsTheFile' /\ pc' \notin Searching /\ pc' \notin {"open", "read", "copy"}
    BY DEF ReturnsTheFile, Searching
  <1>2. QED
    BY <1>1 DEF FileInv, Searching

LEMMA FileSpoiled == ASSUME failed' # {} PROVE FileInv'
  BY DEF FileInv

LEMMA PassedNow ==
  ASSUME NEW n \in Nat, volume' = volume,
         NEW m, m = IF pc' \in {"ls next", "find next"} THEN n + 1 ELSE n,
         NEW s, s = EntriesUpTo(volume)[m], NoEnd(s),
         pc' \in {"find", "find next"} =>
           \A k \in DOMAIN s : s[k].kind # "file" \/ s[k].name # fname',
         pc' \in {"ls", "ls next"} => listed' = Shown(s)
  PROVE  Passed(n)'
  BY DEF Passed, NoEnd, Shown

LEMMA SearchNow ==
  ASSUME NEW n \in 0 .. EOC, volume' = volume, pc' \in Searching,
         cluster' = RootChain(volume)[n],
         pc' \in {"ls next", "find next"} => cluster' # EOC, Passed(n)'
  PROVE  FileInv'
  <1>1. SearchInv'
    BY DEF SearchInv, RootChain
  <1>2. pc' # "idle" /\ pc' \notin {"open", "read", "copy"}
    BY DEF Searching
  <1>3. ReturnsTheFile'
    BY <1>2 DEF ReturnsTheFile
  <1>4. QED
    BY <1>1, <1>2, <1>3 DEF FileInv, Searching

LEMMA FileCall == ASSUME Fat32Inv, NEW place \in {"ls", "find"}, Begin(place) PROVE FileInv'
  <1> DEFINE s == EntriesUpTo(volume)[0]
  <1>1. /\ volume \in Volumes /\ volume' = volume /\ pc' = place
        /\ cluster' = volume.root_cluster /\ listed' = <<>>
    BY DEF Begin, Fat32Inv
  <1>2. s \in Seq(DirectoryEntry) /\ s = <<>>
    BY <1>1, EntriesFacts
  <1>3. 0 \in 0 .. EOC /\ 0 \in Nat
    BY <1>1, Numbers
  <1>4. cluster' = RootChain(volume)[0]
    BY <1>1, RootFacts
  <1> HIDE DEF s
  <1>5. Len(s) = 0 /\ DOMAIN s = {}
    BY <1>2
  <1>6. Shown(s) = <<>>
    BY <1>2, <1>5, ShownEmpty
  <1>7. NoEnd(s)
    BY <1>5 DEF NoEnd
  <1>8. pc' \notin {"ls next", "find next"} /\ pc' \in Searching
    BY <1>1 DEF Searching
  <1>9. Passed(0)'
    BY <1>1, <1>3, <1>5, <1>6, <1>7, <1>8, PassedNow DEF s
  <1>10. QED
    BY <1>1, <1>3, <1>4, <1>8, <1>9, SearchNow

(* A search that has read the FAT goes on with the next cluster; what it   *)
(* has passed is the same.                                                 *)
LEMMA FileOnward ==
  ASSUME Fat32Inv, FileInv, failed = {}, UNCHANGED <<volume, fname, listed>>,
         \/ pc = "ls next" /\ pc' = "ls"
         \/ pc = "find next" /\ pc' = "find",
         NextCluster(cluster'), failed' = {}
  PROVE  FileInv'
  <1>1. volume \in Volumes /\ pc \in Searching /\ pc' \in Searching
    BY DEF Fat32Inv, Searching
  <1>2. PICK n \in 0 .. EOC :
          cluster = RootChain(volume)[n] /\ cluster # EOC /\ Passed(n)
    BY <1>1 DEF FileInv, SearchInv, RootChain
  <1> n \in 0 .. EOC
    BY <1>2
  <1>3. EOC \in Nat /\ EOC # 0 /\ 0 \notin Clusters
    BY <1>1, Numbers
  <1> n \in Nat
    BY ONLY <1>3, n \in 0 .. EOC
  <1>4. cluster \in Clusters /\ cluster # 0
    BY <1>1, <1>2, <1>3, RootFacts
  <1>5. cluster' = volume.fat[cluster]
    BY <1>4 DEF NextCluster
  <1>6. cluster' = RootChain(volume)[n + 1]
    BY <1>1, <1>2, <1>3, <1>5, RootFacts DEF After
  <1>7. n < EOC
    BY <1>1, <1>2, <1>4, AtRoot
  <1>8. n + 1 \in 0 .. EOC /\ n + 1 \in Nat
    BY ONLY <1>3, <1>7, n \in 0 .. EOC
  <1> DEFINE s == EntriesUpTo(volume)[n + 1]
  <1>9. /\ \A k \in DOMAIN s : s[k].kind # "end"
        /\ pc = "find next" => \A k \in DOMAIN s : s[k].kind # "file" \/ s[k].name # fname
        /\ pc = "ls next" => listed = Shown(s)
    BY <1>2 DEF Passed
  <1> HIDE DEF s
  <1>10. /\ NoEnd(s)
         /\ pc' \in {"find", "find next"} =>
              \A k \in DOMAIN s : s[k].kind # "file" \/ s[k].name # fname'
         /\ pc' \in {"ls", "ls next"} => listed' = Shown(s)
    BY <1>9 DEF NoEnd
  <1>11. pc' \notin {"ls next", "find next"}
    OBVIOUS
  <1>12. Passed(n + 1)'
    BY <1>8, <1>10, <1>11, PassedNow DEF s
  <1>13. QED
    BY <1>1, <1>6, <1>8, <1>11, <1>12, SearchNow

(* What SearchInv says in the places where a cluster is read.              *)
LEMMA Reached ==
  ASSUME Fat32Inv, FileInv, failed = {}, pc \in {"ls", "find"}
  PROVE  \E n \in 0 .. EOC : cluster = RootChain(volume)[n] /\ Passed(n)
  <1>1. pc \in Searching
    BY DEF Searching
  <1>2. QED
    BY <1>1 DEF FileInv, SearchInv, RootChain

LEMMA ReachedOnChain ==
  ASSUME Fat32Inv, NEW n \in 0 .. EOC, cluster = RootChain(volume)[n]
  PROVE  cluster \in Clusters \cup {EOC} /\ volume \in Volumes /\ EOC \notin Clusters
  <1>1. volume \in Volumes
    BY DEF Fat32Inv
  <1>2. EOC \in Nat /\ EOC \notin Clusters
    BY <1>1, Numbers
  <1>3. n \in Nat
    BY ONLY <1>2, n \in 0 .. EOC
  <1>4. QED
    BY <1>1, <1>2, <1>3, RootFacts

(* A cluster without an end mark and without the file has been looked at.  *)
LEMMA FilePasses ==
  ASSUME Fat32Inv, FileInv, failed = {}, UNCHANGED <<volume, fname, cluster>>,
         cluster \in Clusters, ~Ended(volume.dir[cluster]),
         \/ /\ pc = "ls" /\ pc' = "ls next"
            /\ listed' = listed \o Listed(volume.dir[cluster])
         \/ /\ pc = "find" /\ pc' = "find next"
            /\ Matches(volume.dir[cluster]) = {}
  PROVE  FileInv'
  <1>1. pc \in {"ls", "find"} /\ pc' \in {"ls next", "find next"} /\ pc' \in Searching
    BY DEF Searching
  <1>2. PICK n \in 0 .. EOC : cluster = RootChain(volume)[n] /\ Passed(n)
    BY <1>1, Reached
  <1> n \in 0 .. EOC
    BY <1>2
  <1>3. volume \in Volumes /\ EOC \notin Clusters
    BY <1>2, ReachedOnChain
  <1>4. EOC \in Nat
    BY <1>3, Numbers
  <1> n \in Nat
    BY ONLY <1>4, n \in 0 .. EOC
  <1> DEFINE s == EntriesUpTo(volume)[n + 1]
  <1>5. NoEnd(s) /\ (pc = "find" /\ Matches(volume.dir[cluster]) = {} => NoMatch(s))
    BY <1>1, <1>2, <1>3, PassesCluster
  <1>6. pc = "ls" => listed \o Listed(volume.dir[cluster]) = Shown(s)
    BY <1>2, <1>3, ListsCluster
  <1> HIDE DEF s
  <1>7. pc' \in {"find", "find next"} =>
          \A k \in DOMAIN s : s[k].kind # "file" \/ s[k].name # fname'
    BY <1>5 DEF NoMatch
  <1>8. pc' \in {"ls", "ls next"} => listed' = Shown(s)
    BY <1>6
  <1> DEFINE m == IF pc' \in {"ls next", "find next"} THEN n + 1 ELSE n
  <1>9. m = n + 1
    BY <1>1
  <1>10. s = EntriesUpTo(volume)[m]
    BY <1>9 DEF s
  <1> HIDE DEF m
  <1>11. m = IF pc' \in {"ls next", "find next"} THEN n + 1 ELSE n
    BY DEF m
  <1>12. Passed(n)'
    BY <1>5, <1>7, <1>8, <1>10, <1>11, PassedNow
  <1>13. cluster' = RootChain(volume)[n] /\ cluster' # EOC
    BY <1>2, <1>3
  <1>14. QED
    BY <1>1, <1>12, <1>13, SearchNow

LEMMA FileLs == ASSUME Fat32Inv, FileInv, Ls PROVE FileInv'
  <1> SUFFICES ASSUME failed' = {} PROVE FileInv'
    BY FileSpoiled
  <1>1. CASE LsCluster
    <2>1. CASE Return(NULL, {})
      BY <2>1, FileGivesUp DEF Return
    <2>2. CASE ~Return(NULL, {})
      <3>1. /\ pc = "ls" /\ cluster < EOC /\ ~Ended(volume.dir[cluster]) /\ pc' = "ls next"
            /\ listed' = listed \o Listed(volume.dir[cluster])
            /\ UNCHANGED <<volume, fname, cluster>> /\ failed = {}
        BY <1>1, <2>2 DEF LsCluster
      <3>2. PICK n \in 0 .. EOC : cluster = RootChain(volume)[n]
        BY <3>1, Reached
      <3>3. cluster \in Clusters \cup {EOC} /\ volume \in Volumes
        BY <3>2, ReachedOnChain
      <3>4. EOC \in Nat
        BY <3>3, Numbers
      <3>5. cluster < EOC
        BY <3>1
      <3>6. cluster # EOC
        BY ONLY <3>4, <3>5
      <3>7. QED
        BY <3>1, <3>3, <3>6, FilePasses
    <2>3. QED
      BY <2>1, <2>2
  <1>2. CASE LsEnd
    BY <1>2, FileGivesUp DEF LsEnd, Return
  <1>3. CASE LsNext
    <2>1. CASE pc' = "idle"
      BY <1>3, <2>1, FileGivesUp DEF LsNext, Return
    <2>2. CASE pc' # "idle"
      <3>1. /\ pc = "ls next" /\ pc' = "ls" /\ NextCluster(cluster')
            /\ UNCHANGED <<volume, fname, listed>>
        BY <1>3, <2>2 DEF LsNext, Return
      <3>2. failed = {}
        BY <3>1 DEF NextCluster
      <3>3. QED
        BY <3>1, <3>2, FileOnward
    <2>3. QED
      BY <2>1, <2>2
  <1>4. QED
    BY <1>1, <1>2, <1>3 DEF Ls

LEMMA FileFindNext == ASSUME Fat32Inv, FileInv, FindNext PROVE FileInv'
  <1> SUFFICES ASSUME failed' = {} PROVE FileInv'
    BY FileSpoiled
  <1>1. /\ pc = "find next" /\ pc' = "find" /\ NextCluster(cluster')
        /\ UNCHANGED <<volume, fname, listed>>
    BY DEF FindNext
  <1>2. failed = {}
    BY <1>1 DEF NextCluster
  <1>3. QED
    BY <1>1, <1>2, FileOnward

(* Cluster 0 is not on the chain: the FAT could not be read.               *)
LEMMA FileFindInZero == ASSUME Fat32Inv, FileInv, FindInZero PROVE FileInv'
  <1> SUFFICES ASSUME failed' = {} PROVE FileInv'
    BY FileSpoiled
  <1>1. pc = "find" /\ cluster = 0 /\ failed = {}
    BY DEF FindInZero
  <1>2. PICK n \in 0 .. EOC : cluster = RootChain(volume)[n]
    BY <1>1, Reached
  <1>3. cluster \in Clusters \cup {EOC} /\ volume \in Volumes
    BY <1>2, ReachedOnChain
  <1>4. EOC # 0 /\ 0 \notin Clusters
    BY <1>3, Numbers
  <1>5. QED
    BY <1>1, <1>3, <1>4

LEMMA FileFound ==
  ASSUME pc' = "open", file_entry' \in Files(volume), UNCHANGED <<volume, fname>>,
         file_entry'.name = fname
  PROVE  FileInv'
  <1>1. FoundInv'
    BY DEF FoundInv
  <1>2. pc' \notin Searching /\ ReturnsTheFile'
    BY DEF Searching, ReturnsTheFile
  <1>3. QED
    BY <1>1, <1>2 DEF FileInv, Searching

LEMMA FileFind == ASSUME Fat32Inv, FileInv, Find PROVE FileInv'
  <1> SUFFICES ASSUME failed' = {} PROVE FileInv'
    BY FileSpoiled
  <1> DEFINE d == volume.dir[cluster]
  <1>1. pc = "find" /\ cluster \in Clusters /\ failed = {} /\ UNCHANGED <<volume, fname>>
    BY DEF Find
  <1>2. CASE Return(NULL, {})
    BY <1>2, FileGivesUp DEF Return
  <1>3. CASE pc' = "find next"
    <2>1. Matches(d) = {} /\ ~Ended(d) /\ cluster' = cluster
      BY <1>3 DEF Find, Return
    <2>2. QED
      BY <1>1, <1>3, <2>1, FilePasses
  <1>4. CASE pc' = "open"
    <2>1. PICK k \in Matches(d) : file_entry' = d[k]
      BY <1>4 DEF Find, Return
    <2>2. PICK n \in 0 .. EOC : cluster = RootChain(volume)[n] /\ Passed(n)
      BY <1>1, Reached
    <2>3. volume \in Volumes
      BY DEF Fat32Inv
    <2>4. d[k] \in Files(volume) /\ d[k].name = fname
      BY <1>1, <2>1, <2>2, <2>3, MatchIsFile
    <2>5. QED
      BY <1>1, <1>4, <2>1, <2>4, FileFound
  <1>5. QED
    BY <1>2, <1>3, <1>4 DEF Find

-----------------------------------------------------------------------------
(* FileInv: reading the file.                                              *)

LEMMA DivIs ==
  ASSUME NEW d \in Nat, d > 0, NEW m \in Nat, NEW k \in Nat, m * d <= k, k < m * d + d
  PROVE  k \div d = m /\ k % d = k - m * d
  <1> DEFINE q == k \div d
  <1>1. q \in Nat /\ q * d <= k /\ k < q * d + d /\ k % d = k - q * d
    BY Quotient
  <1> HIDE DEF q
  <1>2. q * d \in Nat /\ m * d \in Nat
    BY <1>1
  <1>3. CASE q < m
    BY <1>1, <1>2, <1>3, MonoTimes
  <1>4. CASE m < q
    BY <1>1, <1>2, <1>4, MonoTimes
  <1>5. CASE q = m
    BY <1>1, <1>5 DEF q
  <1>6. QED
    BY <1>1, <1>3, <1>4, <1>5

LEMMA SizeOfFile ==
  ASSUME NEW v \in Volumes, NEW e \in Files(v)
  PROVE  /\ e.size <= MaxSize
         /\ e.size > 0 => e.first \in Clusters
         /\ \A k \in 0 .. (e.size - 1) : ChainFrom(v, e.first)[k \div ClusterSize] \in Clusters
  BY VolumesAssumption

LEMMA FileOpen == ASSUME Fat32Inv, FileInv, Open PROVE FileInv'
  <1> SUFFICES ASSUME failed' = {} PROVE FileInv'
    BY FileSpoiled
  <1>1. /\ pc = "open" /\ pc' = "read" /\ failed = {}
        /\ cluster' = file_entry.first /\ bytes_left' = file_entry.size
        /\ UNCHANGED <<volume, fname, file_entry, data_ptr>>
    BY DEF Open
  <1>2. file_entry \in Files(volume) /\ file_entry.name = fname
    BY <1>1 DEF FileInv, FoundInv
  <1>3. volume \in Volumes /\ data_ptr = 0 /\ data_ptr' = 0
    BY <1>1 DEF Fat32Inv
  <1>4. Copied'
    BY <1>3 DEF Copied
  <1>5. ASSUME bytes_left' > 0 PROVE AtCluster'
    <2>1. file_entry.first \in Clusters
      BY <1>1, <1>2, <1>3, <1>5, SizeOfFile
    <2>2. ChainFrom(volume, file_entry.first)[0] = file_entry.first
      BY <1>3, <2>1, ChainFacts
    <2>3. 0 \in 0 .. 0 /\ 0 = 0 * ClusterSize
      BY Sizes
    <2>4. QED
      BY <1>1, <1>3, <2>2, <2>3 DEF AtCluster
  <1>6. FoundInv'
    BY <1>1, <1>2, <1>4, <1>5 DEF FoundInv
  <1>7. pc' \notin Searching /\ ReturnsTheFile'
    BY <1>1 DEF Searching, ReturnsTheFile
  <1>8. QED
    BY <1>6, <1>7 DEF FileInv, Searching

(* The next byte to read is in a cluster of the chain.                     *)
LEMMA OnChain ==
  ASSUME Fat32Inv, FoundInv, pc = "read", bytes_left > 0
  PROVE  \E m \in Nat : /\ data_ptr = m * ClusterSize
                        /\ cluster = ChainFrom(volume, file_entry.first)[m]
                        /\ cluster \in Clusters
  <1>1. PICK m \in 0 .. data_ptr :
          data_ptr = m * ClusterSize /\ cluster = ChainFrom(volume, file_entry.first)[m]
    BY DEF FoundInv, AtCluster
  <1>2. volume \in Volumes /\ file_entry \in Files(volume)
    BY DEF Fat32Inv, FoundInv
  <1>3. /\ data_ptr \in Nat /\ bytes_left \in Nat /\ data_ptr + bytes_left = file_entry.size
        /\ file_entry.size \in Nat
    BY DEF Fat32Inv, InRead
  <1>4. data_ptr \in 0 .. (file_entry.size - 1)
    BY <1>3
  <1>5. m \in Nat /\ ClusterSize \in Nat /\ ClusterSize > 0
    BY <1>1, <1>3, Sizes
  <1>6. data_ptr \div ClusterSize = m
    <2> DEFINE d == ClusterSize
    <2>1. m * d <= data_ptr /\ data_ptr < m * d + d
      BY <1>1, <1>3, <1>5
    <2>2. QED
      BY <1>3, <1>5, <2>1, DivIs
  <1>7. ChainFrom(volume, file_entry.first)[m] \in Clusters
    BY <1>2, <1>4, <1>6, SizeOfFile
  <1>8. QED
    BY <1>1, <1>5, <1>7

LEMMA FileReadChunk == ASSUME Fat32Inv, FileInv, ReadChunk PROVE FileInv'
  <1> SUFFICES ASSUME failed' = {} PROVE FileInv'
    BY FileSpoiled
  <1> DEFINE chain == ChainFrom(volume, file_entry.first)
             d == ClusterSize
  <1>1. /\ pc = "read" /\ bytes_left > 0 /\ failed = {}
        /\ file_data' = ChunkRead
        /\ data_ptr' = data_ptr + Chunk /\ bytes_left' = bytes_left - Chunk
        /\ UNCHANGED <<volume, fname, file_entry>>
        /\ NextCluster(cluster') /\ pc' = IF cluster' = 0 THEN "copy" ELSE "read"
    BY DEF ReadChunk, NextCluster
  <1>2. FoundInv
    BY <1>1 DEF FileInv
  <1>3. PICK m \in Nat : data_ptr = m * d /\ cluster = chain[m] /\ cluster \in Clusters
    BY <1>1, <1>2, OnChain
  <1>4. volume \in Volumes /\ file_entry \in Files(volume) /\ file_entry.name = fname /\ Copied
    BY <1>1, <1>2 DEF Fat32Inv, FoundInv
  <1>5. InRead /\ file_entry.size \in Nat /\ DOMAIN file_data = 0 .. (MaxSize + d)
    BY <1>1 DEF Fat32Inv, Unread
  <1>6. data_ptr \in Nat /\ bytes_left \in Nat /\ data_ptr + bytes_left = file_entry.size
    BY <1>5 DEF InRead
  <1>7. d \in Nat /\ d > 0 /\ MaxSize \in Nat /\ file_entry.size <= MaxSize
    BY <1>4, Sizes, SizeOfFile, Fat32Assumption
  <1>8. Chunk \in Nat /\ Chunk <= bytes_left /\ Chunk <= d /\ (Chunk < bytes_left => Chunk = d)
    BY <1>6, <1>7 DEF Chunk
  <1>9. Chunk <= Sectors(Chunk) * SectorSize /\ Sectors(Chunk) * SectorSize \in Nat
    BY <1>8, SectorsFacts, Sizes
  <1>10. cluster # 0 /\ EOC # 0 /\ 0 \notin Clusters
    BY <1>3, <1>4, Numbers
  <1>11. cluster' = After(volume, cluster) /\ cluster' \in Clusters \cup {EOC}
    <2>1. cluster' = volume.fat[cluster]
      BY <1>1, <1>10 DEF NextCluster
    <2>2. cluster # EOC
      BY <1>3, <1>4, Numbers
    <2>3. QED
      BY <1>3, <1>4, <2>1, <2>2, AfterFacts DEF After
  <1>12. pc' = "read"
    BY <1>1, <1>10, <1>11
  <1>13. file_entry.first \in Clusters
    BY <1>1, <1>4, <1>6, SizeOfFile
  <1>14. chain[m + 1] = After(volume, chain[m])
    BY <1>3, <1>4, <1>13, ChainFacts
  <1>15. cluster' = chain[m + 1]
    BY <1>3, <1>11, <1>14
  <1> HIDE DEF chain, d
  <1>16. ASSUME NEW k \in 0 .. (data_ptr' - 1)
         PROVE  (file_data')[k] = Byte(chain[k \div d], k % d)
    <2>1. k \in Nat /\ k < data_ptr + Chunk
      BY <1>1, <1>6, <1>8
    <2>2. k \in DOMAIN file_data
      BY <1>5, <1>6, <1>7, <1>8, <2>1
    <2>3. CASE k < data_ptr
      <3>1. (file_data')[k] = file_data[k]
        BY <1>1, <1>6, <2>1, <2>2, <2>3 DEF ChunkRead
      <3>2. k \in 0 .. (data_ptr - 1)
        BY <1>6, <2>1, <2>3
      <3>3. file_data[k] = Byte(chain[k \div d], k % d)
        BY <1>4, <3>2 DEF Copied, chain, d
      <3>4. QED
        BY <3>1, <3>3
    <2>4. CASE ~(k < data_ptr)
      <3>1. k >= data_ptr /\ k < data_ptr + Sectors(Chunk) * SectorSize
        BY <1>6, <1>8, <1>9, <2>1, <2>4
      <3>2. (file_data')[k] = Byte(cluster, k - data_ptr)
        BY <1>1, <2>2, <3>1 DEF ChunkRead
      <3>3. m * d <= k /\ k < m * d + d
        BY <1>3, <1>6, <1>7, <1>8, <2>1, <3>1
      <3>4. k \div d = m /\ k % d = k - m * d
        BY <1>7, <2>1, <3>3, DivIs
      <3>5. QED
        BY <1>3, <3>2, <3>4
    <2>5. QED
      BY <2>3, <2>4
  <1>17. Copied'
    BY <1>1, <1>16 DEF Copied, chain, d
  <1>18. ASSUME bytes_left' > 0 PROVE AtCluster'
    <2>1. Chunk = d
      BY <1>1, <1>6, <1>8, <1>18
    <2>2. (m + 1) * d = m * d + d /\ m * d \in Nat
      BY <1>7
    <2>3. data_ptr' = (m + 1) * d
      BY <1>1, <1>3, <2>1, <2>2
    <2>4. m + 1 \in Nat /\ m + 1 <= (m + 1) * d
      BY <1>7
    <2>5. m + 1 \in 0 .. data_ptr'
      BY <2>3, <2>4
    <2>6. QED
      BY <1>1, <1>15, <2>3, <2>5 DEF AtCluster, chain, d
  <1>19. FoundInv'
    BY <1>1, <1>4, <1>12, <1>17, <1>18 DEF FoundInv
  <1>20. pc' \notin Searching /\ ReturnsTheFile'
    BY <1>12 DEF Searching, ReturnsTheFile
  <1>21. QED
    BY <1>19, <1>20 DEF FileInv, Searching

LEMMA FileReadEnd == ASSUME Fat32Inv, FileInv, ReadEnd PROVE FileInv'
  <1> SUFFICES ASSUME failed' = {} PROVE FileInv'
    BY FileSpoiled
  <1>1. /\ pc = "read" /\ pc' = "copy" /\ failed = {} /\ (bytes_left = 0 \/ cluster >= EOC)
        /\ UNCHANGED <<volume, fname, cluster, file_entry, data_ptr, bytes_left, file_data>>
    BY DEF ReadEnd, locals
  <1>2. FoundInv /\ volume \in Volumes
    BY <1>1 DEF FileInv, Fat32Inv
  <1>3. /\ data_ptr \in Nat /\ bytes_left \in Nat /\ data_ptr + bytes_left = file_entry.size
        /\ file_entry.size \in Nat
    BY <1>1 DEF Fat32Inv, InRead
  <1>4. ~(bytes_left > 0)
    <2> SUFFICES ASSUME bytes_left > 0 PROVE FALSE
      OBVIOUS
    <2>1. cluster \in Clusters
      BY <1>1, <1>2, OnChain
    <2>2. EOC \in Nat /\ cluster \in Nat /\ cluster < EOC
      BY <1>2, <2>1, Numbers
    <2>3. cluster >= EOC
      BY <1>1, <1>3
    <2>4. QED
      BY ONLY <2>2, <2>3
  <1>5. data_ptr = file_entry.size
    BY <1>3, <1>4
  <1>6. Copied'
    BY <1>1, <1>2 DEF FoundInv, Copied
  <1>7. FoundInv'
    BY <1>1, <1>2, <1>5, <1>6 DEF FoundInv
  <1>8. pc' \notin Searching /\ ReturnsTheFile'
    BY <1>1 DEF Searching, ReturnsTheFile
  <1>9. QED
    BY <1>7, <1>8 DEF FileInv, Searching

LEMMA FileCopy == ASSUME Fat32Inv, FileInv, Copy PROVE FileInv'
  <1> SUFFICES ASSUME failed' = {} PROVE FileInv'
    BY FileSpoiled
  <1>1. /\ pc = "copy" /\ pc' = "idle" /\ failed = {} /\ UNCHANGED <<volume, fname>>
        /\ result' = [k \in 1 .. file_entry.size |-> file_data[k - 1]]
    BY DEF Copy, Return
  <1>2. /\ file_entry \in Files(volume) /\ file_entry.name = fname /\ Copied
        /\ data_ptr = file_entry.size
    BY <1>1 DEF FileInv, FoundInv
  <1>3. file_entry.size \in Nat
    BY DEF Fat32Inv
  <1>4. PICK e : e = file_entry
    OBVIOUS
  <1>5. result' = Contents(e)
    <2>1. ASSUME NEW k \in 1 .. e.size
          PROVE  file_data[k - 1] =
                   Byte(ChainFrom(volume, e.first)[(k - 1) \div ClusterSize], (k - 1) % ClusterSize)
      <3>1. k - 1 \in 0 .. (data_ptr - 1)
        BY <1>2, <1>3, <1>4
      <3>2. QED
        BY <1>2, <1>4, <3>1 DEF Copied
    <2>2. QED
      BY <1>1, <1>4, <2>1 DEF Contents
  <1>6. Contents(e)' = Contents(e)
    BY <1>1 DEF Contents
  <1>7. ReturnsTheFile'
    BY <1>1, <1>2, <1>4, <1>5, <1>6 DEF ReturnsTheFile
  <1>8. pc' \notin Searching /\ pc' \notin {"open", "read", "copy"}
    BY <1>1 DEF Searching
  <1>9. QED
    BY <1>7, <1>8 DEF FileInv, Searching

LEMMA FileStutters == ASSUME FileInv, UNCHANGED vars PROVE FileInv'
  <1>1. UNCHANGED <<volume, pc, fname, cluster, file_entry, data_ptr, bytes_left, file_data,
                    result, listed, failed>>
    BY DEF vars, locals
  <1> SUFFICES ASSUME failed = {} PROVE FileInv'
    BY <1>1 DEF FileInv
  <1>2. pc \in Searching => SearchInv'
    BY <1>1 DEF FileInv, SearchInv, Passed, Shown
  <1>3. pc \in {"open", "read", "copy"} => FoundInv'
    BY <1>1 DEF FileInv, FoundInv, Copied, AtCluster
  <1>4. ReturnsTheFile'
    BY <1>1 DEF FileInv, ReturnsTheFile, Contents
  <1>5. QED
    BY <1>1, <1>2, <1>3, <1>4 DEF FileInv, Searching

LEMMA FileNext == ASSUME Fat32Inv, FileInv, [Next]_vars PROVE FileInv'
  <1>1. CASE LsCall \/ \E name \in Fnames : ReadCall(name)
    BY <1>1, FileCall DEF LsCall, ReadCall
  <1>2. CASE Ls
    BY <1>2, FileLs
  <1>3. CASE Read
    <2>1. CASE FindEnd \/ ReadFails
      BY <2>1, FileGivesUp DEF FindEnd, ReadFails, Return
    <2>2. QED
      BY <1>3, <2>1, FileFind, FileFindInZero, FileFindNext, FileOpen, FileReadChunk,
         FileReadEnd, FileCopy DEF Read
  <1>4. CASE UNCHANGED vars
    BY <1>4, FileStutters
  <1>5. QED
    BY <1>1, <1>2, <1>3, <1>4 DEF Next

(* The inductive invariant of the searches and of the file that is read,   *)
(* as long as no read fails.                                               *)
THEOREM Fat32FileInvariant == Spec => [](Fat32Inv /\ FileInv)
  <1>1. Init => Fat32Inv /\ FileInv
    BY Fat32Start, FileStart
  <1>2. Fat32Inv /\ FileInv /\ [Next]_vars => Fat32Inv' /\ FileInv'
    BY Fat32Next, FileNext
  <1>3. QED
    BY <1>1, <1>2, PTL DEF Spec

(* What fails: every way out after a cluster that could not be read gives  *)
(* NULL, and no call goes on from it.                                      *)
LEMMA GivesUpNext == ASSUME GivesUp, [Next]_vars PROVE GivesUp'
  <1>1. CASE LsCall \/ \E name \in Fnames : ReadCall(name)
    <2>1. failed' = {}
      BY <1>1 DEF LsCall, ReadCall, Begin
    <2>2. QED
      BY <2>1 DEF GivesUp
  <1>2. CASE LsEnd \/ FindEnd \/ ReadFails
    <2>1. failed' \in {failed, {"cluster"}, failed \cup {"cluster"}}
      BY <1>2 DEF LsEnd, FindEnd, ReadFails
    <2>2. pc' = "idle" /\ result' = NULL
      BY <1>2 DEF LsEnd, FindEnd, ReadFails, Return
    <2>3. QED
      BY <2>1, <2>2 DEF GivesUp
  <1>3. CASE LsNext \/ FindNext \/ ReadChunk
    <2>1. "cluster" \notin failed
      BY <1>3 DEF GivesUp, LsNext, FindNext, ReadChunk
    <2>2. failed' \in {failed, failed \cup {"fat"}}
      BY <1>3 DEF LsNext, FindNext, ReadChunk, NextCluster
    <2>3. QED
      BY <2>1, <2>2 DEF GivesUp
  <1>4. CASE LsCluster \/ Find \/ FindInZero \/ Open \/ ReadEnd \/ Copy
    <2>1. pc # "idle" /\ failed' = failed
      BY <1>4 DEF LsCluster, Find, FindInZero, Open, ReadEnd, Copy
    <2>2. QED
      BY <2>1 DEF GivesUp
  <1>5. CASE UNCHANGED vars
    BY <1>5 DEF vars, GivesUp
  <1>6. QED
    BY <1>1, <1>2, <1>3, <1>4, <1>5 DEF Next, Ls, Read

(* fat32_read returns the file of that name, byte for byte, on every       *)
(* volume and for every size of a cluster, if the FAT could be read,       *)
(* whatever other reads fail.                                              *)
THEOREM Fat32ReturnsTheFile == Spec => []ReturnsTheFileUnlessFatFails
  <1>1. Spec => []GivesUp
    <2>1. Init => GivesUp
      BY DEF Init, GivesUp
    <2>2. GivesUp /\ [Next]_vars => GivesUp'
      BY GivesUpNext
    <2>3. QED
      BY <2>1, <2>2, PTL DEF Spec
  <1>2. ASSUME FileInv, GivesUp PROVE ReturnsTheFileUnlessFatFails
    <2>1. CASE "fat" \in failed
      BY <2>1 DEF ReturnsTheFileUnlessFatFails
    <2>2. CASE "cluster" \in failed
      BY <1>2, <2>2 DEF GivesUp, ReturnsTheFile, ReturnsTheFileUnlessFatFails
    <2>3. CASE failed = {}
      BY <1>2, <2>3 DEF FileInv, ReturnsTheFileUnlessFatFails
    <2>4. QED
      BY <1>2, <2>1, <2>2, <2>3 DEF GivesUp
  <1>3. QED
    BY <1>1, <1>2, Fat32FileInvariant, PTL

LEMMA SearchEnds ==
  ASSUME Fat32Inv, FileInv, [Next]_vars,
         pc \in {"find", "find next"}, pc' = "idle", failed' = {}
  PROVE  \A e \in Files(volume) : e.name # fname
  <1> DEFINE d == volume.dir[cluster]
  <1>1. pc = "find" /\ failed = {} /\ volume \in Volumes
        /\ (Find \/ FindInZero \/ FindEnd)
    BY DEF Fat32Inv, vars, Next, Read, Ls, LsCall, ReadCall, Begin, LsCluster, LsEnd, LsNext, Find,
         FindInZero, FindNext, FindEnd, Open, ReadChunk, ReadFails, ReadEnd, Copy
  <1>2. PICK n \in 0 .. EOC : cluster = RootChain(volume)[n] /\ Passed(n)
    BY <1>1, Reached
  <1>3. cluster \in Clusters \cup {EOC}
    BY <1>2, ReachedOnChain
  <1>4. EOC \in Nat /\ EOC # 0 /\ 0 \notin Clusters /\ \A c \in Clusters : c < EOC
    BY <1>1, Numbers
  <1>5. CASE Find
    <2>1. cluster \in Clusters /\ Matches(d) = {} /\ Ended(d)
      BY <1>5 DEF Find
    <2>2. QED
      BY <1>1, <1>2, <2>1, NotInDirectory
  <1>6. CASE FindInZero
    BY <1>3, <1>4, <1>6 DEF FindInZero
  <1>7. CASE FindEnd
    <2>1. cluster >= EOC
      BY <1>7 DEF FindEnd
    <2>2. cluster \notin Clusters
      <3> SUFFICES ASSUME cluster \in Clusters PROVE FALSE
        OBVIOUS
      <3>1. cluster < EOC /\ cluster \in Nat
        BY <1>1, Numbers
      <3>2. QED
        BY ONLY <1>4, <2>1, <3>1
    <2>3. QED
      BY <1>1, <1>2, <1>3, <2>2, NotInDirectory
  <1>8. QED
    BY <1>1, <1>5, <1>6, <1>7

(* fat32_read does not fail to find a file that is in the directory.       *)
THEOREM Fat32FindsTheFile == Spec => FindsTheFile
  <1> DEFINE Found == (pc \in {"find", "find next"} /\ pc' = "idle" /\ failed' = {}) =>
                        (\A e \in Files(volume) : e.name # fname)
  <1>1. Fat32Inv /\ FileInv /\ [Next]_vars => [Found]_vars
    BY SearchEnds
  <1>2. QED
    BY <1>1, Fat32FileInvariant, PTL DEF Spec, FindsTheFile

LEMMA ListEnds ==
  ASSUME Fat32Inv, FileInv, [Next]_vars,
         pc \in {"ls", "ls next"}, pc' = "idle", failed' = {}
  PROVE  listed' = Shown(RootDirectory(volume))
  <1>1. volume \in Volumes /\ (LsCluster \/ LsEnd \/ LsNext)
    BY DEF Fat32Inv, vars, Next, Read, Ls, LsCall, ReadCall, Begin, LsCluster, LsEnd, LsNext, Find,
         FindInZero, FindNext, FindEnd, Open, ReadChunk, ReadFails, ReadEnd, Copy
  <1>2. EOC \in Nat /\ EOC # 0 /\ 0 \notin Clusters /\ \A c \in Clusters : c < EOC
    BY <1>1, Numbers
  <1>3. CASE LsCluster
    <2>1. /\ pc = "ls" /\ failed = {} /\ cluster < EOC /\ Ended(volume.dir[cluster])
          /\ listed' = listed \o Listed(volume.dir[cluster])
      BY <1>3 DEF LsCluster
    <2>2. PICK n \in 0 .. EOC : cluster = RootChain(volume)[n] /\ Passed(n)
      BY <2>1, Reached
    <2>3. cluster \in Clusters \cup {EOC}
      BY <2>2, ReachedOnChain
    <2>4. cluster < EOC
      BY <2>1
    <2>5. cluster # EOC
      BY ONLY <1>2, <2>4
    <2>6. cluster \in Clusters
      BY <2>3, <2>5
    <2>7. listed \o Listed(volume.dir[cluster]) = Shown(RootDirectory(volume))
      BY <1>1, <2>1, <2>2, <2>6, ListedAll
    <2>8. QED
      BY <2>1, <2>7
  <1>4. CASE LsEnd
    <2>1. pc = "ls" /\ failed = {} /\ cluster >= EOC /\ listed' = listed
      BY <1>4 DEF LsEnd
    <2>2. PICK n \in 0 .. EOC : cluster = RootChain(volume)[n] /\ Passed(n)
      BY <2>1, Reached
    <2>3. cluster \in Clusters \cup {EOC}
      BY <2>2, ReachedOnChain
    <2>4. cluster >= EOC
      BY <2>1
    <2>5. cluster \notin Clusters
      <3> SUFFICES ASSUME cluster \in Clusters PROVE FALSE
        OBVIOUS
      <3>1. cluster < EOC /\ cluster \in Nat
        BY <1>1, Numbers
      <3>2. QED
        BY ONLY <1>2, <2>4, <3>1
    <2>6. EOC = RootChain(volume)[n]
      BY <2>2, <2>3, <2>5
    <2>7. QED
      BY <1>1, <2>1, <2>2, <2>6, ListedToEnd
  <1>5. CASE LsNext
    <2>1. pc = "ls next" /\ failed = {} /\ NextCluster(0)
      BY <1>5 DEF LsNext, NextCluster, Return
    <2>2. pc \in Searching
      BY <2>1 DEF Searching
    <2>3. PICK n \in 0 .. EOC : cluster = RootChain(volume)[n] /\ cluster # EOC
      BY <2>1, <2>2 DEF FileInv, SearchInv, RootChain
    <2>4. cluster \in Clusters
      BY <2>3, ReachedOnChain
    <2>5. volume.fat[cluster] = 0
      BY <1>2, <2>1, <2>4 DEF NextCluster
    <2>6. volume.fat[cluster] \in Clusters \cup {EOC}
      BY <1>1, <2>4, Fat32Assumption
    <2>7. QED
      BY <1>2, <2>5, <2>6
  <1>6. QED
    BY <1>1, <1>3, <1>4, <1>5

(* fat32_ls shows all of the directory, in its order, and nothing else.    *)
THEOREM Fat32ListsAll == Spec => ListsAll
  <1> DEFINE All == (pc \in {"ls", "ls next"} /\ pc' = "idle" /\ failed' = {}) =>
                      listed' = Shown(RootDirectory(volume))
  <1>1. Fat32Inv /\ FileInv /\ [Next]_vars => [All]_vars
    BY ListEnds
  <1>2. QED
    BY <1>1, Fat32FileInvariant, PTL DEF Spec, ListsAll

=============================================================================
