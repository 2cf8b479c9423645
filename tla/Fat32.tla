------------------------------- MODULE Fat32 --------------------------------
(***************************************************************************)
(* drivers/fat32.c: listing the root directory, and reading a file into    *)
(* memory cluster by cluster along its chain in the FAT, when any read of  *)
(* the drive may fail. A call runs in the shell's task; nothing else uses  *)
(* its state. Where a cluster or its entry in the FAT lies on the drive is *)
(* left out: a volume is its FAT, its directory entries and its data.      *)
(***************************************************************************)
EXTENDS Integers, Sequences, Selection

CONSTANTS
  SectorSize,           \* 512
  sectors_per_cluster,
  Clusters,             \* numbers of clusters, from 2
  EOC,                  \* 0x0FFFFFF8, the end of a chain
  Volumes,              \* [root_cluster, fat, dir]: dir[c] are the entries in cluster c
  Fnames,               \* the names that are asked for
  MaxSize               \* of a file, rounded up to sectors

DirectoryEntry ==
  [kind : {"file", "dir", "lfn", "deleted", "end"}, name : STRING, first : Nat, size : Nat]

ASSUME Fat32Assumption ==
  /\ SectorSize \in Nat \ {0} /\ sectors_per_cluster \in Nat \ {0} /\ MaxSize \in Nat
  /\ Clusters \subseteq Nat \ {0, 1} /\ EOC \in Nat /\ \A c \in Clusters : c < EOC
  /\ \A v \in Volumes :
       /\ v.root_cluster \in Clusters /\ v.fat \in [Clusters -> Clusters \cup {EOC}]
       /\ v.dir \in [Clusters -> Seq(DirectoryEntry)]

ClusterSize == sectors_per_cluster * SectorSize

-----------------------------------------------------------------------------
(* What is on a volume                                                     *)

(* Cluster n of the chain that starts with c.                              *)
After(v, c) == IF c = EOC THEN EOC ELSE v.fat[c]
ChainFrom(v, c) ==
  LET at[n \in Nat] == IF n = 0 THEN c ELSE After(v, at[n - 1])
  IN  at

(* The entries in the first n clusters of the root directory, as one       *)
(* sequence. A chain that ends has fewer than EOC clusters.                *)
EntriesIn(v, c) == IF c = EOC THEN <<>> ELSE v.dir[c]
EntriesUpTo(v) ==
  LET chain == ChainFrom(v, v.root_cluster)
      all[n \in Nat] == IF n = 0 THEN <<>> ELSE all[n - 1] \o EntriesIn(v, chain[n - 1])
  IN  all

(* The root directory: the entries before the first end mark.              *)
RootDirectory(v) ==
  LET entries == EntriesUpTo(v)[EOC]
      visible == {k \in DOMAIN entries : \A j \in 1 .. k : entries[j].kind # "end"}
  IN  [k \in visible |-> entries[k]]

Files(v) ==
  LET dir == RootDirectory(v) IN {dir[k] : k \in {j \in DOMAIN dir : dir[j].kind = "file"}}

(* The volume is sound: the chain of the root directory ends, and that of  *)
(* a file does not before all of its bytes. Whatever writes to the drive,  *)
(* this kernel does not, is to leave it so.                                *)
ASSUME VolumesAssumption ==
  \A v \in Volumes :
    /\ ChainFrom(v, v.root_cluster)[EOC] = EOC
    /\ \A e \in Files(v) :
         /\ e.size <= MaxSize
         /\ e.size > 0 => e.first \in Clusters
         /\ \A k \in 0 .. (e.size - 1) : ChainFrom(v, e.first)[k \div ClusterSize] \in Clusters

-----------------------------------------------------------------------------
VARIABLES
  volume,
  pc,
  fname,          \* the argument of fat32_read
  cluster,        \* current_cluster, dir_cluster or current_file_cluster
  file_entry, data_ptr, bytes_left,
  file_data,      \* the buffer for the sectors, and the memory behind it
  buffers,        \* what the call has allocated and not freed
  result,         \* the bytes of the file returned, or NULL
  listed,         \* what fat32_ls has printed
  \* History of a call:
  failed          \* the kinds of read that failed

locals == <<file_entry, data_ptr, bytes_left, file_data>>
vars == <<volume, pc, fname, cluster, locals, buffers, result, listed, failed>>

Byte(c, k) == <<c, k>>   \* byte k of cluster c
Junk == Byte(0, 0)       \* what malloc's memory holds
NULL == [k \in {0} |-> Junk]   \* not the contents of a file
NoEntry == [kind |-> "end", name |-> "", first |-> 0, size |-> 0]
Unread == [k \in 0 .. (MaxSize + ClusterSize) |-> Junk]

Init ==
  /\ volume \in Volumes
  /\ pc = "idle"
  /\ fname = "" /\ cluster = 0
  /\ file_entry = NoEntry /\ data_ptr = 0 /\ bytes_left = 0 /\ file_data = Unread
  /\ buffers = {} /\ result = NULL /\ listed = <<>> /\ failed = {}

Forget == file_entry' = NoEntry /\ data_ptr' = 0 /\ bytes_left' = 0 /\ file_data' = Unread

(* The caller is done with the last file and frees it.                     *)
Begin(place) ==
  /\ pc = "idle" /\ pc' = place
  /\ cluster' = volume.root_cluster
  /\ buffers' = {"dir"}
  /\ result' = NULL /\ listed' = <<>> /\ failed' = {}
  /\ UNCHANGED <<volume, locals>>

Return(r, kept) ==
  /\ pc' = "idle" /\ result' = r /\ buffers' = kept
  /\ cluster' = 0
  /\ Forget

-----------------------------------------------------------------------------
(* Definitions named ...Slip are the one that follows with a mistake in it;*)
(* the properties are checked to notice it.                                *)

(* get_next_cluster gives 0 if the FAT cannot be read. Entry 0 of the FAT, *)
(* which is looked up when a caller goes on from there, is the media type, *)
(* an end of chain.                                                        *)
NextCluster(next) ==
  \/ next = (IF cluster = 0 THEN EOC ELSE volume.fat[cluster]) /\ UNCHANGED failed
  \/ next = 0 /\ failed' = failed \cup {"fat"}

(* The entries of a directory cluster before an end mark.                  *)
IsEndSlip(e) == e.kind \in {"end", "deleted"}
IsEnd(e) == e.kind = "end"
Ended(entries) == \E k \in DOMAIN entries : IsEnd(entries[k])
UpToEnd(entries) ==
  LET before == {k \in DOMAIN entries : \A j \in 1 .. k : ~IsEnd(entries[j])}
  IN  [k \in before |-> entries[k]]

IsShown(e) == e.kind \in {"file", "dir"}
ListedSlip(entries) == Selected(entries, {k \in DOMAIN entries : IsShown(entries[k])})
Listed(entries) == Selected(UpToEnd(entries), {k \in DOMAIN entries : IsShown(entries[k])})

(* fat32_ls                                                                *)

LsCall == Begin("ls") /\ UNCHANGED fname

LsClusterSlip ==
  /\ pc = "ls" /\ cluster < EOC
  /\ listed' = listed \o Listed(volume.dir[cluster])
  /\ \/ Ended(volume.dir[cluster]) /\ Return(NULL, buffers)
     \/ /\ ~Ended(volume.dir[cluster])
        /\ pc' = "ls next"
        /\ UNCHANGED <<cluster, locals, buffers, result>>
  /\ UNCHANGED <<volume, fname, failed>>
LsCluster ==
  /\ pc = "ls" /\ cluster < EOC
  /\ listed' = listed \o Listed(volume.dir[cluster])
  /\ \/ Ended(volume.dir[cluster]) /\ Return(NULL, {})
     \/ /\ ~Ended(volume.dir[cluster])
        /\ pc' = "ls next"
        /\ UNCHANGED <<cluster, locals, buffers, result>>
  /\ UNCHANGED <<volume, fname, failed>>

(* The end of the chain, or a cluster that cannot be read.                 *)
LsEnd ==
  /\ pc = "ls"
  /\ \/ cluster >= EOC /\ UNCHANGED failed
     \/ cluster < EOC /\ failed' = {"cluster"}
  /\ Return(NULL, {})
  /\ UNCHANGED <<volume, fname, listed>>

LsNext ==
  /\ pc = "ls next"
  /\ \E next \in Clusters \cup {0, EOC} :
       /\ NextCluster(next)
       /\ \/ next = 0 /\ Return(NULL, {})
          \/ next # 0 /\ pc' = "ls" /\ cluster' = next /\ UNCHANGED <<locals, buffers, result>>
  /\ UNCHANGED <<volume, fname, listed>>

-----------------------------------------------------------------------------
(* fat32_read: find the file                                               *)

ReadCall(name) == Begin("find") /\ fname' = name

(* The entry that matches, if there is one before the end mark.            *)
Matches(entries) ==
  {k \in DOMAIN UpToEnd(entries) : entries[k].kind = "file" /\ entries[k].name = fname}

Find ==
  /\ pc = "find" /\ cluster \in Clusters
  /\ LET entries == volume.dir[cluster]
     IN  \/ /\ Matches(entries) # {}
            /\ \E k \in Matches(entries) :
                 /\ \A j \in Matches(entries) : k <= j
                 /\ file_entry' = entries[k]
            /\ pc' = "open"
            /\ UNCHANGED <<cluster, data_ptr, bytes_left, file_data, buffers, result>>
         \/ /\ Matches(entries) = {} /\ Ended(entries)
            /\ Return(NULL, {})
         \/ /\ Matches(entries) = {} /\ ~Ended(entries)
            /\ pc' = "find next"
            /\ UNCHANGED <<cluster, locals, buffers, result>>
  /\ UNCHANGED <<volume, fname, listed, failed>>

(* Unlike fat32_ls, the search goes on with cluster 0 when the FAT cannot  *)
(* be read: sectors before the data, taken for entries. They match no name *)
(* and may or may not look like an end of the directory.                   *)
FindInZero ==
  /\ pc = "find" /\ cluster = 0
  /\ \/ Return(NULL, {})
     \/ pc' = "find next" /\ UNCHANGED <<cluster, locals, buffers, result>>
  /\ UNCHANGED <<volume, fname, listed, failed>>

FindNext ==
  /\ pc = "find next"
  /\ \E next \in Clusters \cup {0, EOC} :
       /\ NextCluster(next)
       /\ pc' = "find" /\ cluster' = next
  /\ UNCHANGED <<volume, fname, locals, buffers, result, listed>>

FindEnd ==
  /\ pc = "find"
  /\ \/ cluster >= EOC /\ UNCHANGED failed
     \/ cluster < EOC /\ failed' = failed \cup {"cluster"}
  /\ Return(NULL, {})
  /\ UNCHANGED <<volume, fname, listed>>

-----------------------------------------------------------------------------
(* fat32_read: read the file                                               *)

SectorsSlip(bytes) == bytes \div SectorSize + 1
Sectors(bytes) == (bytes + SectorSize - 1) \div SectorSize

(* The size of the buffer, rounded up to whole sectors.                    *)
Aligned(size) ==
  IF size % SectorSize # 0 THEN ((size + SectorSize) \div SectorSize) * SectorSize ELSE size

(* The buffer of a file that is empty is malloc(0), NULL.                  *)
Open ==
  /\ pc = "open" /\ pc' = "read"
  /\ cluster' = file_entry.first
  /\ bytes_left' = file_entry.size
  /\ buffers' = IF file_entry.size > 0 THEN {"file_data"} ELSE {}
  /\ UNCHANGED <<volume, fname, file_entry, data_ptr, file_data, result, listed, failed>>

Chunk == IF bytes_left < ClusterSize THEN bytes_left ELSE ClusterSize

(* The sectors of a chunk go to data_ptr: bytes behind its end as well.    *)
ChunkRead == [k \in DOMAIN file_data |->
  IF k >= data_ptr /\ k < data_ptr + Sectors(Chunk) * SectorSize
  THEN Byte(cluster, k - data_ptr) ELSE file_data[k]]

ReadChunk ==
  /\ pc = "read" /\ bytes_left > 0 /\ cluster < EOC
  /\ file_data' = ChunkRead
  /\ data_ptr' = data_ptr + Chunk
  /\ bytes_left' = bytes_left - Chunk
  /\ \E next \in Clusters \cup {0, EOC} :
       /\ NextCluster(next)
       /\ cluster' = next
       /\ pc' = IF next = 0 THEN "copy" ELSE "read"
  /\ UNCHANGED <<volume, fname, file_entry, buffers, result, listed>>

ReadFailsSlip ==
  /\ pc = "read" /\ bytes_left > 0 /\ cluster < EOC
  /\ failed' = failed \cup {"cluster"}
  /\ pc' = "copy"
  /\ UNCHANGED <<volume, fname, cluster, locals, buffers, result, listed>>
ReadFails ==
  /\ pc = "read" /\ bytes_left > 0 /\ cluster < EOC
  /\ failed' = failed \cup {"cluster"}
  /\ Return(NULL, {})
  /\ UNCHANGED <<volume, fname, listed>>

ReadEnd ==
  /\ pc = "read" /\ (bytes_left = 0 \/ cluster >= EOC)
  /\ pc' = "copy"
  /\ UNCHANGED <<volume, fname, cluster, locals, buffers, result, listed, failed>>

(* The file is copied to a structure with its size, as many bytes as its   *)
(* entry says, read or not.                                                *)
Copy ==
  /\ pc = "copy"
  /\ Return([k \in 1 .. file_entry.size |-> file_data[k - 1]], {"ret"})
  /\ UNCHANGED <<volume, fname, listed, failed>>

-----------------------------------------------------------------------------
Ls == LsCluster \/ LsEnd \/ LsNext
Read == Find \/ FindInZero \/ FindNext \/ FindEnd \/ Open \/ ReadChunk \/ ReadFails \/ ReadEnd \/ Copy

Next ==
  \/ LsCall \/ \E name \in Fnames : ReadCall(name)
  \/ Ls \/ Read

Spec == Init /\ [][Next]_vars

-----------------------------------------------------------------------------
(* Properties                                                              *)

(* The contents of a file, byte for byte.                                  *)
Contents(e) == [k \in 1 .. e.size |->
  Byte(ChainFrom(volume, e.first)[(k - 1) \div ClusterSize], (k - 1) % ClusterSize)]

(* What fat32_read returns is the file of that name, all of it and nothing *)
(* else ("Read the contents of a file to memory", fat32.c:180).            *)
ReturnsTheFile ==
  pc = "idle" /\ result # NULL => \E e \in Files(volume) : e.name = fname /\ result = Contents(e)

(* That holds if the FAT could be read, whatever other reads fail.         *)
ReturnsTheFileUnlessFatFails == "fat" \notin failed => ReturnsTheFile

(* A file that is there is found, if all reads succeed.                    *)
FindsTheFile ==
  [][(pc \in {"find", "find next"} /\ pc' = "idle" /\ failed' = {}) =>
       (\A e \in Files(volume) : e.name # fname)]_vars

(* fat32_ls shows every file and directory once, those before the end mark *)
(* only, if all reads succeed.                                             *)
Shown(entries) ==
  Selected(entries, {k \in DOMAIN entries : entries[k].kind \notin {"deleted", "lfn"}})
ListsAll ==
  [][(pc \in {"ls", "ls next"} /\ pc' = "idle" /\ failed' = {}) =>
       listed' = Shown(RootDirectory(volume))]_vars

(* The sectors that are read never go beyond the end of the buffer         *)
(* (fat32.c:236).                                                          *)
NoOverrun == \A k \in DOMAIN file_data : k >= Aligned(file_entry.size) => file_data[k] = Junk

(* On every way out of a call all buffers are freed but the file returned. *)
BuffersFreed == pc = "idle" => buffers = IF result = NULL THEN {} ELSE {"ret"}

(* What has been read and what is left make up the file; as long as        *)
(* something is left, whole clusters have been read.                       *)
InRead ==
  /\ data_ptr \in Nat /\ bytes_left \in Nat
  /\ data_ptr + bytes_left = file_entry.size
  /\ bytes_left > 0 => \E m \in 0 .. data_ptr : data_ptr = m * ClusterSize

(* The inductive invariant of the buffers.                                 *)
Fat32Inv ==
  /\ volume \in Volumes /\ file_entry.size \in Nat
  /\ pc \notin {"open", "read", "copy"} => file_entry = NoEntry
  /\ pc \notin {"read", "copy"} => file_data = Unread /\ data_ptr = 0
  /\ pc = "read" => InRead
  /\ DOMAIN file_data = DOMAIN Unread
  /\ NoOverrun /\ BuffersFreed

(* The inductive invariant of what is found there, as long as all reads    *)
(* succeed. The clusters that a search is through with have no end mark;   *)
(* fat32_ls has shown them, and fat32_read has not found the file.         *)
Searching == {"ls", "ls next", "find", "find next"}

Passed(n) ==
  LET entries == EntriesUpTo(volume)[IF pc \in {"ls next", "find next"} THEN n + 1 ELSE n]
  IN  /\ \A k \in DOMAIN entries :
           /\ entries[k].kind # "end"
           /\ pc \in {"find", "find next"} => entries[k].kind # "file" \/ entries[k].name # fname
      /\ pc \in {"ls", "ls next"} => listed = Shown(entries)

SearchInv ==
  \E n \in 0 .. EOC :
    /\ cluster = ChainFrom(volume, volume.root_cluster)[n]
    /\ pc \in {"ls next", "find next"} => cluster # EOC
    /\ Passed(n)

(* Of the file that was found all bytes before data_ptr are in memory, and *)
(* the cluster is the one with the next.                                   *)
Copied ==
  \A k \in 0 .. (data_ptr - 1) :
    file_data[k] = Byte(ChainFrom(volume, file_entry.first)[k \div ClusterSize], k % ClusterSize)

AtCluster ==
  \E m \in 0 .. data_ptr :
    data_ptr = m * ClusterSize /\ cluster = ChainFrom(volume, file_entry.first)[m]

FoundInv ==
  /\ file_entry \in Files(volume) /\ file_entry.name = fname
  /\ pc \in {"read", "copy"} => Copied
  /\ pc = "read" /\ bytes_left > 0 => AtCluster
  /\ pc = "copy" => data_ptr = file_entry.size

FileInv ==
  failed = {} =>
    /\ pc \in Searching => SearchInv
    /\ pc \in {"open", "read", "copy"} => FoundInv
    /\ ReturnsTheFile

(* A cluster that cannot be read ends the call, without a file.            *)
GivesUp ==
  /\ failed \subseteq {"fat", "cluster"}
  /\ "cluster" \in failed => pc = "idle" /\ result = NULL

=============================================================================
