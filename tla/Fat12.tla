------------------------------- MODULE Fat12 --------------------------------
(***************************************************************************)
(* The file system of programs/fat12.c on the SPI flash: a FAT in two      *)
(* copies with a cached one, a root directory, and the caller's handles.   *)
(* A guest program is one thread, so a call is one action, and a sector is *)
(* read and written whole (what SpiFlash shows of the driver).  The boot   *)
(* sector's fields and the spelling of names are left out.                 *)
(*                                                                         *)
(* The caller opens files for reading and creates them for writing, as     *)
(* fat12.h says, and does not delete a file it has open.  It may mount or  *)
(* format again at any time and then starts over.                          *)
(***************************************************************************)
EXTENDS Integers, Sequences, FiniteSets, SequencesExt

CONSTANTS
    Names,        \* file names
    NumClusters,  \* FAT12_TOTAL_CLUSTERS
    Entries,      \* FAT12_ROOT_ENTRIES
    SectorSize,   \* FAT12_SECTOR_SIZE, in units of what is written
    Handles,      \* the caller's fat12_file_t
    Lengths,      \* what the caller passes as len
    SplitsFull    \* whether the caller goes on writing where a write ended on a
                  \* sector boundary

\* name[0] of an entry: 0x00, 0xE5 or a name.
End == "end"
Deleted == "deleted"

ASSUME Fat12Assumption ==
    /\ NumClusters \in Nat \ {0} /\ Entries \in Nat \ {0} /\ SectorSize \in Nat \ {0}
    /\ Lengths \subseteq Nat \ {0}
    /\ SplitsFull \in BOOLEAN
    /\ {End, Deleted} \cap Names = {}

Clusters == 2 .. NumClusters + 1
FREE == 0
EOC  == -1       \* 0xFFF
Slots == 0 .. Entries - 1

VARIABLES
    fat,        \* the two copies on flash
    dir,        \* the root directory on flash
    sector,     \* the data sectors on flash, by cluster
    cache,      \* g_fat_buf
    loaded,     \* g_fat_loaded
    dirty,      \* g_fat_dirty
    file,       \* the handles
    stored,     \* history, by slot: what the writer of the closed file wrote
    moved,      \* history, by handle: what it has written, or read
    orphans     \* history: clusters on flash of files that were never closed

onFlash == <<fat, dir, sector>>
fatCache == <<cache, loaded, dirty>>
fatVars == <<onFlash, fatCache, file, stored, moved, orphans>>

Links == Clusters \cup {FREE, EOC}
\* A unit of data: the file it was written to and where.
Units == Names \X Nat \cup {<<>>}

Closed == [mode |-> "closed", first |-> 0, cur |-> 0, size |-> 0, pos |-> 0, slot |-> 0]
Handle == [mode : {"closed", "reads", "writes"}, first : Clusters \cup {0},
           cur : Clusters \cup {0}, size : Nat, pos : Nat, slot : Slots]

FatTypeOK ==
    /\ fat \in [1 .. 2 -> [Clusters -> Links]]
    /\ dir \in [Slots -> [name : Names \cup {End, Deleted}, first : Clusters \cup {0}, size : Nat]]
    /\ sector \in [Clusters -> [0 .. SectorSize - 1 -> Units]]
    /\ cache \in [Clusters -> Links] /\ loaded \in BOOLEAN /\ dirty \in BOOLEAN
    /\ file \in [Handles -> Handle]
    /\ orphans \subseteq Clusters

NoLinks == [c \in Clusters |-> FREE]

\* fat12_format.
FatInit ==
    /\ fat = [i \in 1 .. 2 |-> NoLinks]
    /\ dir = [s \in Slots |-> [name |-> End, first |-> 0, size |-> 0]]
    /\ sector = [c \in Clusters |-> [i \in 0 .. SectorSize - 1 |-> <<>>]]
    /\ cache = NoLinks /\ loaded = TRUE /\ dirty = FALSE
    /\ file = [h \in Handles |-> Closed]
    /\ stored = [s \in Slots |-> <<>>]
    /\ moved = [h \in Handles |-> <<>>]
    /\ orphans = {}

----------------------------------------------------------------------------
(* The FAT *)

\* What fat_get sees: fat_load reads the first copy once.
Fat == IF loaded THEN cache ELSE fat[1]

FreeIn(links) == {c \in Clusters : links[c] = FREE}

\* The clusters fat_get leads through from c on.
Chain(links, c) ==
    LET chain[k \in 0 .. Cardinality(Clusters)] ==
          IF k = 0 THEN <<>>
          ELSE LET next == IF k = 1 THEN c ELSE links[chain[k - 1][k - 1]]
               IN  IF Len(chain[k - 1]) = k - 1 /\ next \in Clusters
                   THEN Append(chain[k - 1], next) ELSE chain[k - 1]
    IN  chain[Cardinality(Clusters)]

----------------------------------------------------------------------------
(* The directory *)

\* dir_find stops at the first entry that was never used.
Listed(s) == \A r \in 0 .. s : dir[r].name # End
Found(name, s) == Listed(s) /\ dir[s].name = name
Exists(name) == \E s \in Slots : Found(name, s)

\* The slot fat12_create takes.
FreeSlots == {s \in Slots : dir[s].name \in {End, Deleted}}

----------------------------------------------------------------------------
(* Calls *)

Opened(h, mode, s, entry) ==
    /\ file' = [file EXCEPT ![h] = [mode |-> mode, first |-> entry.first, cur |-> entry.first,
                                    size |-> entry.size, pos |-> 0, slot |-> s]]
    /\ moved' = [moved EXCEPT ![h] = <<>>]

fat12_open(h, name) ==
    /\ file[h].mode = "closed"
    /\ \E s \in Slots : Found(name, s) /\ Opened(h, "reads", s, dir[s])
    /\ UNCHANGED <<onFlash, fatCache, stored, orphans>>

fat12_create(h, name) ==
    /\ file[h].mode = "closed"
    /\ ~Exists(name) /\ FreeSlots # {}
    /\ LET s == Min(FreeSlots)
           entry == [name |-> name, first |-> 0, size |-> 0]
       IN  /\ dir' = [dir EXCEPT ![s] = entry]
           /\ Opened(h, "writes", s, entry)
           /\ stored' = [stored EXCEPT ![s] = <<>>]
    /\ UNCHANGED <<fat, sector, fatCache, orphans>>

\* One round of fat12_read's loop, on a reader r that has got what it has got.
ReadRound(r) ==
    LET f == r.file
        off == f.pos % SectorSize
        n == Min({SectorSize - off, f.size - f.pos, r.len})
        next == IF (f.pos + n) % SectorSize = 0 THEN Fat[f.cur] ELSE f.cur
    IN  [file |-> [f EXCEPT !.pos = @ + n, !.cur = IF next \in Clusters THEN next ELSE @],
         len |-> r.len - n,
         got |-> r.got \o [i \in 1 .. n |-> sector[f.cur][off + i - 1]],
         more |-> next \in Clusters,
         loaded |-> r.loaded \/ (f.pos + n) % SectorSize = 0]

\* The rounds of fat12_read's loop: one for each unit is enough.
ReadOf(start) ==
    LET after[k \in 0 .. start.len] ==
          IF k = 0 THEN start
          ELSE LET r == after[k - 1]
               IN  IF r.len > 0 /\ r.file.pos < r.file.size /\ r.file.cur >= 2 /\ r.more
                   THEN ReadRound(r) ELSE r
    IN  after[start.len]

fat12_read(h) ==
    /\ file[h].mode = "reads"
    /\ \E len \in Lengths :
        LET end == ReadOf([file |-> file[h], len |-> len, got |-> <<>>, more |-> TRUE,
                           loaded |-> loaded])
        IN  /\ file' = [file EXCEPT ![h] = end.file]
            /\ moved' = [moved EXCEPT ![h] = @ \o end.got]
            /\ loaded' = end.loaded
            /\ cache' = IF end.loaded THEN Fat ELSE cache
    /\ UNCHANGED <<onFlash, dirty, stored, orphans>>

\* Fault variant: the new cluster is not linked to the one before.
LinkedNever(links, c, d) == [links EXCEPT ![d] = EOC]

\* fat_alloc marks d the end of a chain; fat_set links it behind c.
Linked(links, c, d) == [links EXCEPT ![d] = EOC, ![c] = d]

\* A cluster at the start of a file's first round, or between two rounds.
Allocate(w) ==
    LET free == FreeIn(w.links) IN
      IF free = {} THEN [w EXCEPT !.full = TRUE]
      ELSE IF w.file.cur = 0
           THEN [w EXCEPT !.links[Min(free)] = EOC, !.dirty = TRUE,
                          !.file.first = Min(free), !.file.cur = Min(free)]
           ELSE [w EXCEPT !.links = Linked(w.links, w.file.cur, Min(free)), !.dirty = TRUE,
                          !.file.cur = Min(free)]

\* The units that go into the sector: the file's next ones.
Filled(w, name, n) ==
    LET off == w.file.pos % SectorSize IN
      [w EXCEPT
         !.sector[w.file.cur] =
             [i \in 0 .. SectorSize - 1 |->
                 IF i \in off .. off + n - 1 THEN <<name, Len(w.put) + i - off>> ELSE @[i]],
         !.put = @ \o [i \in 1 .. n |-> <<name, Len(w.put) + i - 1>>],
         !.file.pos = @ + n,
         !.file.size = IF w.file.pos + n > @ THEN w.file.pos + n ELSE @,
         !.len = @ - n]

\* One round of fat12_write's loop.
WriteRound(w, name) ==
    LET ready == IF w.file.cur = 0 THEN Allocate(w) ELSE w IN
      IF ready.full THEN ready
      ELSE LET n == Min({SectorSize - (ready.file.pos % SectorSize), ready.len})
               filled == Filled(ready, name, n)
           IN  IF filled.file.pos % SectorSize = 0 /\ filled.len > 0
               THEN Allocate(filled) ELSE filled

\* The rounds of fat12_write's loop.
Written(start, name) ==
    LET after[k \in 0 .. start.len] ==
          IF k = 0 THEN start
          ELSE LET w == after[k - 1]
               IN  IF w.len > 0 /\ ~w.full THEN WriteRound(w, name) ELSE w
    IN  after[start.len]

\* The first round allocates, so the FAT is loaded when the call returns.
fat12_write(h) ==
    /\ file[h].mode = "writes"
    /\ SplitsFull \/ file[h].pos % SectorSize # 0 \/ file[h].pos = 0
    /\ \E len \in Lengths :
        LET end == Written([file |-> file[h], len |-> len, links |-> Fat, dirty |-> dirty,
                            sector |-> sector, put |-> moved[h], full |-> FALSE],
                           dir[file[h].slot].name)
        IN  /\ file' = [file EXCEPT ![h] = end.file]
            /\ sector' = end.sector
            /\ cache' = end.links /\ loaded' = TRUE /\ dirty' = end.dirty
            /\ moved' = [moved EXCEPT ![h] = end.put]
    /\ UNCHANGED <<fat, dir, stored, orphans>>

\* Fault variant: the cached FAT stays in memory.
FlushedNever == fat

\* What fat_flush leaves of the two copies.
Flushed == IF dirty THEN [i \in 1 .. 2 |-> cache] ELSE fat

fat12_close(h) ==
    /\ file[h].mode # "closed"
    /\ file' = [file EXCEPT ![h] = Closed]
    /\ moved' = [moved EXCEPT ![h] = <<>>]
    /\ \/ /\ file[h].mode = "reads"
          /\ UNCHANGED <<onFlash, dirty, stored>>
       \/ /\ file[h].mode = "writes"
          /\ fat' = Flushed /\ dirty' = FALSE
          /\ dir' = [dir EXCEPT ![file[h].slot] =
                       [@ EXCEPT !.first = file[h].first, !.size = file[h].size]]
          /\ stored' = [stored EXCEPT ![file[h].slot] = moved[h]]
          /\ UNCHANGED sector
    /\ UNCHANGED <<cache, loaded, orphans>>

\* Fault variant: only the first cluster becomes free.
FreedFirst(c) == IF c \in Clusters THEN {c} ELSE {}

\* What fat_free_chain frees.
Freed(c) == ToSet(Chain(Fat, c))

fat12_delete(name) ==
    /\ \E s \in Slots :
        /\ Found(name, s)
        /\ \A h \in Handles : file[h].mode # "closed" => file[h].slot # s
        /\ LET freed == Freed(dir[s].first)
               links == [c \in Clusters |-> IF c \in freed THEN FREE ELSE Fat[c]]
           IN  /\ cache' = links
               /\ fat' = IF dirty \/ freed # {} THEN [i \in 1 .. 2 |-> links] ELSE fat
        /\ dir' = [dir EXCEPT ![s].name = Deleted]
        /\ stored' = [stored EXCEPT ![s] = <<>>]
    /\ loaded' = TRUE /\ dirty' = FALSE
    /\ UNCHANGED <<sector, file, moved, orphans>>

\* The caller mounts again and has no handle any more.
fat12_init ==
    /\ loaded' = FALSE /\ dirty' = FALSE
    /\ file' = [h \in Handles |-> Closed]
    /\ moved' = [h \in Handles |-> <<>>]
    /\ orphans' = orphans \cup
         {c \in Clusters : fat[1][c] # FREE
                           /\ \E h \in Handles : file[h].mode = "writes"
                                                /\ c \in ToSet(Chain(Fat, file[h].first))}
    /\ UNCHANGED <<onFlash, cache, stored>>

\* Data sectors keep what they held; the caller has no handle any more.
fat12_format ==
    /\ fat' = [i \in 1 .. 2 |-> NoLinks]
    /\ dir' = [s \in Slots |-> [name |-> End, first |-> 0, size |-> 0]]
    /\ cache' = NoLinks /\ loaded' = TRUE /\ dirty' = FALSE
    /\ file' = [h \in Handles |-> Closed]
    /\ stored' = [s \in Slots |-> <<>>]
    /\ moved' = [h \in Handles |-> <<>>]
    /\ orphans' = {}
    /\ UNCHANGED sector

FatNext ==
    \/ fat12_format \/ fat12_init
    \/ \E name \in Names : fat12_delete(name)
    \/ \E h \in Handles :
          \/ fat12_read(h) \/ fat12_write(h) \/ fat12_close(h)
          \/ \E name \in Names : fat12_open(h, name) \/ fat12_create(h, name)

FatSpec == FatInit /\ [][FatNext]_fatVars

----------------------------------------------------------------------------
(* Properties *)

\* The data of a file, if its chain is as long as its size says.
SectorsFor(size) == (size + SectorSize - 1) \div SectorSize
Holds(links, f, units) ==
    LET chain == Chain(links, f.first) IN
      /\ Len(units) = f.size /\ Len(chain) = SectorsFor(f.size)
      /\ \A i \in 1 .. f.size :
            units[i] = sector[chain[(i - 1) \div SectorSize + 1]][(i - 1) % SectorSize]

Writes(h) == file[h].mode = "writes"
BeingWritten(s) == \E h \in Handles : Writes(h) /\ file[h].slot = s

\* Whatever files are open, half written or given up by a new mount, a full
\* disk and a full directory included: every file that was closed is found and
\* holds what was written to it, by either copy of the FAT on flash (fat_flush
\* before the directory entry in fat12_close, fat12_delete).  This is of writes
\* that keep to fat12.h:122 (SplitsFull = FALSE); WrittenIsKept shows the others.
ClosedFilesStand ==
    \A s \in Slots :
        dir[s].name \in Names =>
            /\ Listed(s)
            /\ ~BeingWritten(s) =>
                 \A i \in 1 .. 2 : Holds(fat[i], dir[s], stored[s])

\* A cluster is allocated exactly if one file has it, written and closed or
\* still being written: none is shared, freed while in use, or lost, but for
\* those of a file whose handle a new mount gave up (fat_alloc, fat_free_chain).
ClustersOwned ==
    LET owners == {<<"dir", s>> : s \in {s \in Slots : dir[s].name \in Names}}
                  \cup {<<"handle", h>> : h \in {h \in Handles : Writes(h)}}
        ownedBy(o) == ToSet(Chain(Fat, IF o[1] = "dir" THEN dir[o[2]].first ELSE file[o[2]].first))
    IN  /\ \A c \in Clusters :
              Cardinality({o \in owners : c \in ownedBy(o)})
                = IF Fat[c] = FREE \/ c \in orphans THEN 0 ELSE 1

\* A reader gets the file from its start without a gap, and a read before its
\* end gets something (fat12_read's step to the next cluster).  Of files written
\* as for ClosedFilesStand.
ReadBack ==
    [][\A h \in Handles :
         fat12_read(h) =>
            /\ moved'[h] = SubSeq(stored[file[h].slot], 1, file'[h].pos)
            /\ file'[h].pos > file[h].pos \/ file[h].pos = file[h].size]_fatVars

\* fat12.h on fat12_write: "Write len bytes; returns bytes written": what the
\* calls said they wrote is in the file, one after the other.
WrittenIsKept == \A h \in Handles : Writes(h) => Holds(Fat, file[h], moved[h])
=============================================================================
