------------------------------ MODULE PageCache ------------------------------
(***************************************************************************)
(* The page cache of v2/pkg/cache: pages as files of one directory, a map  *)
(* of entries with their sizes, a limit on the sum of the sizes, and a map *)
(* from blocks to the pages that depend on them.                           *)
(*                                                                         *)
(* One mutex guards the maps, but Get holds it neither while it reads a    *)
(* file nor between that and the Delete of what it could not use, and Set  *)
(* writes the file in place.  A restart rebuilds the entries from the      *)
(* files, whatever they contain.                                           *)
(*                                                                         *)
(* A page is the number of the Set that stored it.  The hit counters are   *)
(* left out, and so are access times: any entry may be the oldest, and a   *)
(* page may be found expired at any time.                                  *)
(***************************************************************************)
EXTENDS Integers, FiniteSets, Functions

CONSTANTS
    Key, Block,
    Size,        \* sizes of pages
    MaxSize,     \* Cache.maxSize
    MaxSets,     \* bound: pages stored
    MaxFaults,   \* bound: failed writes and removals of files
    MaxRestarts  \* bound: crashes and restarts

ASSUME CacheAssumption ==
    /\ Size \subseteq Nat \ {0} /\ MaxSize \in Nat
    /\ MaxSets \in Nat /\ MaxFaults \in Nat /\ MaxRestarts \in Nat

VARIABLES
    entries,  \* Cache.entries
    size,     \* Cache.size
    pages,    \* Cache.blockPages: how often each page is listed for a block
    files,    \* the directory; "needs" (the blocks the page shows) is history
    writer,   \* the Set that holds the mutex
    readers,  \* Gets that have found their entry and hold no mutex
    removed,  \* history: pages that were deleted, evicted or invalidated
    sets, faults, restarts  \* counters of the bounds

bounds == <<sets, faults, restarts>>
vars   == <<entries, size, pages, files, writer, readers, removed, bounds>>

Without(f, K) == Restrict(f, DOMAIN f \ K)

Put(f, k, x) == [l \in DOMAIN f \cup {k} |-> IF l = k THEN x ELSE f[l]]

SizeOf(f, K) == SumFunction([k \in K |-> f[k].size])

NoSet    == [at |-> "nowhere"]
Unlocked == writer = NoSet
Fault    == faults < MaxFaults /\ faults' = faults + 1

Init ==
    /\ entries = <<>> /\ size = 0
    /\ pages   = [b \in Block |-> [k \in Key |-> 0]]
    /\ files   = <<>>
    /\ writer  = NoSet /\ readers = {}
    /\ removed = {}
    /\ sets = 0 /\ faults = 0 /\ restarts = 0

-----------------------------------------------------------------------------
(* Removing entries.                                                       *)

\* errors of os.Remove are ignored
Remove(K) ==
    \/ files' = Without(files, K) /\ UNCHANGED faults
    \/ /\ Fault
       /\ \E k \in K \cap DOMAIN files : files' = Without(files, K \ {k})

\* removeBlockMapping for each block of k's entry: one occurrence of k
Unlisted(k) ==
    [b \in Block |->
        IF b \in entries[k].blocks /\ pages[b][k] > 0
        THEN [pages[b] EXCEPT ![k] = @ - 1] ELSE pages[b]]

Drop(K) ==
    /\ Remove(K)
    /\ entries' = Without(entries, K)
    /\ size' = size - SizeOf(entries, K)
    /\ removed' = removed \cup {entries[k].page : k \in K}

DropEntry(k) == Drop({k}) /\ pages' = Unlisted(k)

Delete(k) ==
    /\ Unlocked /\ k \in DOMAIN entries
    /\ DropEntry(k)
    /\ UNCHANGED <<writer, readers, sets, restarts>>

Listed(b) == {k \in DOMAIN entries : pages[b][k] > 0}

\* subtracts a page's size each time the page is listed
SubtractListed(b) ==
    /\ Unlocked
    /\ Remove(Listed(b))
    /\ entries' = Without(entries, Listed(b))
    /\ size' = size - SumFunction([k \in Listed(b) |-> entries[k].size * pages[b][k]])
    /\ removed' = removed \cup {entries[k].page : k \in Listed(b)}
    /\ pages' = [pages EXCEPT ![b] = [k \in Key |-> 0]]
    /\ UNCHANGED <<writer, readers, sets, restarts>>

\* forgets the pages and leaves their files
ForgetBlock(b) ==
    /\ Unlocked
    /\ entries' = Without(entries, Listed(b))
    /\ size' = size - SizeOf(entries, Listed(b))
    /\ removed' = removed \cup {entries[k].page : k \in Listed(b)}
    /\ pages' = [pages EXCEPT ![b] = [k \in Key |-> 0]]
    /\ UNCHANGED <<files, writer, readers, bounds>>

\* leaves the pages listed for the other blocks they depend on
InvalidateBlock(b) ==
    /\ Unlocked
    /\ Drop(Listed(b))
    /\ pages' = [pages EXCEPT ![b] = [k \in Key |-> 0]]
    /\ UNCHANGED <<writer, readers, sets, restarts>>

\* every file of the directory, also those without an entry
Clear ==
    /\ Unlocked
    /\ Remove(DOMAIN files)
    /\ entries' = <<>> /\ size' = 0
    /\ pages' = [b \in Block |-> [k \in Key |-> 0]]
    /\ removed' = removed \cup {entries[k].page : k \in DOMAIN entries}
    /\ UNCHANGED <<writer, readers, sets, restarts>>

-----------------------------------------------------------------------------
(* Set, under the mutex from Set to FinishSet or FailSet.                  *)

Set(k) ==
    /\ Unlocked /\ sets < MaxSets
    /\ sets' = sets + 1
    /\ \E n \in Size, B \in SUBSET Block :
          writer' = [at |-> "evict", key |-> k, size |-> n, blocks |-> B,
                     page |-> sets + 1]
    /\ UNCHANGED <<entries, size, pages, files, readers, removed, faults, restarts>>

OverLimit == size + writer.size > MaxSize /\ DOMAIN entries # {}

EvictOldest ==
    /\ writer.at = "evict" /\ OverLimit
    /\ \E k \in DOMAIN entries : DropEntry(k)
    /\ UNCHANGED <<writer, readers, sets, restarts>>

Truncate ==
    /\ \E n \in 0 .. writer.size - 1 :
          files' = Put(files, writer.key,
                       [size |-> n, page |-> writer.page, whole |-> FALSE,
                        needs |-> writer.blocks])
    /\ writer' = [writer EXCEPT !.at = "write"]
    /\ UNCHANGED <<entries, size, pages, readers, removed, bounds>>

\* as if a page that replaces another needed no room
OpenUnlessReplacing ==
    /\ writer.at = "evict" /\ (OverLimit => writer.key \in DOMAIN entries)
    /\ Truncate

\* os.WriteFile truncates the file and writes it piece by piece
OpenFile ==
    /\ writer.at = "evict" /\ ~OverLimit
    /\ Truncate

Entry ==
    [size |-> writer.size, blocks |-> writer.blocks, page |-> writer.page]

WriteWhole ==
    /\ writer.at = "write"
    /\ files' = [files EXCEPT ![writer.key].size = writer.size,
                              ![writer.key].whole = TRUE]
    /\ entries' = Put(entries, writer.key, Entry)
    /\ writer' = NoSet
    /\ UNCHANGED <<readers, removed, bounds>>

\* keeps the mappings of the page it replaces
FinishWithOldMappings ==
    /\ WriteWhole
    /\ LET k == writer.key
           old == k \in DOMAIN entries
       IN  /\ size' = size - SizeOf(entries, {k} \cap DOMAIN entries) + writer.size
           /\ pages' = IF old THEN pages
                       ELSE [b \in Block |-> IF b \in writer.blocks
                               THEN [pages[b] EXCEPT ![k] = @ + 1] ELSE pages[b]]

\* counts the page it replaces twice
FinishWithoutOld ==
    /\ WriteWhole
    /\ LET k == writer.key
           kept == IF k \in DOMAIN entries THEN Unlisted(k) ELSE pages
       IN  /\ size' = size + writer.size
           /\ pages' = [b \in Block |-> IF b \in writer.blocks
                          THEN [kept[b] EXCEPT ![k] = @ + 1] ELSE kept[b]]

FinishSet ==
    /\ WriteWhole
    /\ LET k == writer.key
           kept == IF k \in DOMAIN entries THEN Unlisted(k) ELSE pages
       IN  /\ size' = size - SizeOf(entries, {k} \cap DOMAIN entries) + writer.size
           /\ pages' = [b \in Block |-> IF b \in writer.blocks
                          THEN [kept[b] EXCEPT ![k] = @ + 1] ELSE kept[b]]

\* the file cannot be opened, or not be written to its end
FailSet ==
    /\ writer # NoSet /\ (writer.at = "evict" => ~OverLimit)
    /\ Fault
    /\ writer' = NoSet
    /\ UNCHANGED <<entries, size, pages, files, readers, removed, sets, restarts>>

-----------------------------------------------------------------------------
(* Get.                                                                    *)

Lookup(k) ==
    /\ Unlocked /\ k \in DOMAIN entries
    /\ readers' = readers \cup {k}
    /\ UNCHANGED <<entries, size, pages, files, writer, removed, bounds>>

\* whatever the file holds by now
ReadFile(k) ==
    /\ k \in readers /\ k \in DOMAIN files
    /\ readers' = readers \ {k}
    /\ UNCHANGED <<entries, size, pages, files, writer, removed, bounds>>

\* expired or unreadable: deletes what the key has by now
GiveUp(k) ==
    /\ k \in readers /\ Unlocked
    /\ readers' = readers \ {k}
    /\ IF k \in DOMAIN entries THEN DropEntry(k)
       ELSE UNCHANGED <<entries, size, pages, files, removed, faults>>
    /\ UNCHANGED <<writer, sets, restarts>>

-----------------------------------------------------------------------------
(* The process ends, perhaps inside Set; New and loadExisting.             *)
Restart ==
    /\ restarts < MaxRestarts /\ restarts' = restarts + 1
    /\ entries' = [k \in DOMAIN files |->
                      [size |-> files[k].size, blocks |-> {},
                       page |-> files[k].page]]
    /\ size' = SizeOf(files, DOMAIN files)
    /\ pages' = [b \in Block |-> [k \in Key |-> 0]]
    /\ writer' = NoSet /\ readers' = {}
    /\ UNCHANGED <<files, removed, sets, faults>>

Next ==
    \/ \E k \in Key : Set(k) \/ Delete(k) \/ Lookup(k) \/ ReadFile(k) \/ GiveUp(k)
    \/ \E b \in Block : InvalidateBlock(b)
    \/ EvictOldest \/ OpenFile \/ FinishSet \/ FailSet
    \/ Clear
    \/ Restart

Spec == Init /\ [][Next]_vars

-----------------------------------------------------------------------------
Page == 1 .. MaxSets
SetType ==
    [at : {"evict", "write"}, key : Key, size : Size, blocks : SUBSET Block,
     page : Page]
EntryType == [size : Nat, blocks : SUBSET Block, page : Page]
FileType  == [size : Nat, page : Page, whole : BOOLEAN, needs : SUBSET Block]

TypeOK ==
    /\ DOMAIN entries \subseteq Key /\ entries \in [DOMAIN entries -> EntryType]
    /\ size \in Nat
    /\ pages \in [Block -> [Key -> Nat]]
    /\ DOMAIN files \subseteq Key /\ files \in [DOMAIN files -> FileType]
    /\ writer \in SetType \cup {NoSet}
    /\ readers \subseteq Key /\ removed \subseteq Page
    /\ sets \in 0 .. MaxSets /\ faults \in 0 .. MaxFaults
    /\ restarts \in 0 .. MaxRestarts

(* The running total is the sum of the entries' sizes, after any sequence  *)
(* of replacements, evictions, invalidations and failed writes.            *)
SizeIsExact == size = SizeOf(entries, DOMAIN entries)

(* The cache exceeds its limit only with a single page that is larger than *)
(* the limit, unless files without an entry were left for a restart.       *)
WithinLimit ==
    size <= MaxSize \/ Cardinality(DOMAIN entries) = 1
        \/ (faults > 0 /\ restarts > 0)

(* The directory holds the pages of the entries, whole and of the recorded *)
(* sizes, and nothing else, as long as no write or removal failed and no   *)
(* crash came in the middle of a Set.                                      *)
DiskIsAccounted ==
    Unlocked /\ faults = 0 /\ restarts = 0 =>
        /\ DOMAIN files = DOMAIN entries
        /\ \A k \in DOMAIN files :
              /\ files[k].whole /\ files[k].page = entries[k].page
              /\ files[k].size = entries[k].size

(* The cache knows what it holds: the total is that of the entries, and    *)
(* the entries are those of the directory.                                 *)
Accounted == SizeIsExact /\ DiskIsAccounted

(* An entry that Set made is listed for each of its blocks, so that        *)
(* InvalidateBlock finds it, whatever was invalidated or replaced before.  *)
MappingCovers ==
    \A k \in DOMAIN entries : \A b \in entries[k].blocks : pages[b][k] > 0

(* A page that was deleted, evicted or invalidated is never in the cache   *)
(* again, not even after a restart, unless its file could not be removed.  *)
NoRevival ==
    faults = 0 => \A k \in DOMAIN entries : entries[k].page \notin removed
=============================================================================
