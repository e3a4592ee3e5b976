----------------------------- MODULE TileCache ------------------------------
(***************************************************************************)
(* The map's tiles: MapView asks for the visible ones when the view moved, *)
(* the cache's own looper finds each in memory, on disk or by running      *)
(* curl, and the window draws from memory meanwhile.                       *)
(*                                                                         *)
(* A request is handled tile by tile, and so is a redraw: between two      *)
(* tiles of one there may be any of the other.  A file's content is a      *)
(* picture, something without the PNG magic (an HTTP error page: curl runs *)
(* without -f), or a picture that cannot be decoded (cut short).           *)
(***************************************************************************)
EXTENDS SequencesExt, Integers

CONSTANTS
    LastTile,           \* tiles are 1 .. LastTile, in the order a request walks them
    MaxTilesPerRequest, \* 50
    MaxMemoryTiles,     \* kMaxMemoryTiles
    MaxDiskCache,       \* kMaxDiskCacheBytes, in sizes of a tile
    MaxTileRequests,    \* bound on the requests waiting
    MaxDrift            \* bound on what the books may be off by, in tiles

ASSUME TilesAssumption ==
    {LastTile, MaxTilesPerRequest, MaxMemoryTiles, MaxDiskCache, MaxTileRequests,
     MaxDrift}
        \subseteq Nat

AllTiles == 1 .. LastTile
Contents == {"picture", "page", "torn"}

VARIABLES
    fEnabled,       \* tiles are switched on (fShowTiles is always the same)
    fLastArea,      \* the area MapView asked for last
    redraw,         \* the redraw under way: next tile, last; or none
    tileQueue,      \* areas asked for, not yet taken up
    job,            \* the request being handled: next tile, last, walked, any fetched
    fTiles,         \* tiles in memory, by lastUsed
    disk,           \* content of each tile's file
    byAge,          \* the files, oldest mtime first
    fDiskCacheSize, \* what the cache believes is on disk
    drifted         \* a download ended, since the scan, that the books miss

tileVars == <<fEnabled, fLastArea, redraw, tileQueue, job, fTiles, disk, byAge,
              fDiskCacheSize, drifted>>

NoJob == [next |-> 1, last |-> 0, walked |-> 0, any |-> FALSE]
NoArea == <<0, 0>>
NoRedraw == [next |-> 0, area |-> NoArea]
Areas == {a \in AllTiles \X AllTiles : a[1] <= a[2]}
OnDisk == ToSet(byAge)

\* _ScanDiskCache, in the constructor: an older run's files, of any kind.
TilesInit ==
    /\ fEnabled = TRUE
    /\ fLastArea = NoArea /\ redraw = NoRedraw
    /\ tileQueue = <<>> /\ job = NoJob
    /\ fTiles = <<>>
    /\ \E old \in SUBSET AllTiles : byAge = SetToSeq(old)
    /\ disk \in [AllTiles -> Contents]
    /\ \A t \in AllTiles : t \notin OnDisk => disk[t] = "picture"
    /\ fDiskCacheSize = Len(byAge)
    /\ drifted = FALSE

-----------------------------------------------------------------------------
\* The window's thread.  MapView::_DrawTiles: the tiles of the view, one by one.
DrawTiles ==
    /\ fEnabled /\ redraw = NoRedraw /\ Len(tileQueue) < MaxTileRequests
    /\ \E area \in Areas : redraw' = [next |-> area[1], area |-> area]
    /\ UNCHANGED <<fEnabled, fLastArea, tileQueue, job, fTiles, disk, byAge,
                   fDiskCacheSize, drifted>>

Drawing == redraw # NoRedraw /\ redraw.next <= redraw.area[2]

\* DrawTile, for a tile that is in memory or not: the one drawn is the newest.
DrawTile ==
    /\ Drawing
    /\ redraw' = [redraw EXCEPT !.next = redraw.next + 1]
    /\ fTiles' = IF redraw.next \in ToSet(fTiles)
                 THEN Append(RemoveFirst(fTiles, redraw.next), redraw.next) ELSE fTiles
    /\ UNCHANGED <<fEnabled, fLastArea, tileQueue, job, disk, byAge, fDiskCacheSize,
                   drifted>>

\* The end of _DrawTiles: the area is asked for, once.
RequestTiles ==
    /\ redraw # NoRedraw /\ ~Drawing
    /\ redraw' = NoRedraw
    /\ fLastArea' = redraw.area
    /\ tileQueue' = IF redraw.area = fLastArea THEN tileQueue
                    ELSE Append(tileQueue, redraw.area)
    /\ UNCHANGED <<fEnabled, job, fTiles, disk, byAge, fDiskCacheSize, drifted>>

\* SetTilesEnabled; with tiles off nothing is drawn or asked for.
ToggleTiles ==
    /\ redraw = NoRedraw
    /\ fEnabled' = ~fEnabled
    /\ UNCHANGED <<fLastArea, redraw, tileQueue, job, fTiles, disk, byAge,
                   fDiskCacheSize, drifted>>

-----------------------------------------------------------------------------
\* The cache's looper.  A request found while tiles are off is dropped.
TakeRequest ==
    /\ job = NoJob /\ tileQueue # <<>>
    /\ tileQueue' = Tail(tileQueue)
    /\ job' = IF fEnabled
              THEN [NoJob EXCEPT !.next = Head(tileQueue)[1], !.last = Head(tileQueue)[2]]
              ELSE NoJob
    /\ UNCHANGED <<fEnabled, fLastArea, redraw, fTiles, disk, byAge, fDiskCacheSize,
                   drifted>>

Walking == job.next <= job.last /\ job.walked < MaxTilesPerRequest

Advance(any) ==
    job' = [job EXCEPT !.next = job.next + 1, !.walked = job.walked + 1,
                       !.any = job.any \/ any]

ForgetsTheSize(size, n) == size

\* The accounting of a file removed as corrupt never goes below nothing.
SizeLess(size, n) == IF size > n THEN size - n ELSE 0

Without(t) == RemoveFirst(byAge, t)

InMemory ==
    /\ Walking /\ job.next \in ToSet(fTiles)
    /\ Advance(FALSE)
    /\ UNCHANGED <<fEnabled, fLastArea, redraw, tileQueue, fTiles, disk, byAge,
                   fDiskCacheSize, drifted>>

\* _LoadFromDisk finds a picture.
FromDisk ==
    /\ Walking /\ job.next \notin ToSet(fTiles)
    /\ job.next \in OnDisk /\ disk[job.next] = "picture"
    /\ fTiles' = Append(fTiles, job.next)
    /\ Advance(TRUE)
    /\ UNCHANGED <<fEnabled, fLastArea, redraw, tileQueue, disk, byAge, fDiskCacheSize,
                   drifted>>

\* What the file is after curl: a failure may leave none, the old one or a part.
Download ==
    /\ Walking /\ job.next \notin ToSet(fTiles)
    /\ (job.next \in OnDisk => disk[job.next] # "picture")
    /\ fDiskCacheSize - Len(byAge) \in -MaxDrift .. MaxDrift
    /\ LET t       == job.next
           page    == t \in OnDisk /\ disk[t] = "page"
           files   == IF page THEN Without(t) ELSE byAge
           size    == IF page THEN SizeLess(fDiskCacheSize, 1) ELSE fDiskCacheSize
       IN \/ \* curl exits 0: the file is new, and counted
             \E c \in Contents :
               LET gone == c = "page"
               IN /\ disk' = [disk EXCEPT ![t] = IF gone THEN "picture" ELSE c]
                  /\ byAge' = IF gone THEN Without(t) ELSE Append(Without(t), t)
                  /\ fDiskCacheSize' = IF gone THEN SizeLess(size + 1, 1) ELSE size + 1
                  /\ fTiles' = IF c = "picture" THEN Append(fTiles, t) ELSE fTiles
                  /\ drifted' = (drifted \/ t \in ToSet(files))
                  /\ Advance(c = "picture")
          \/ \* curl fails before it wrote anything
             /\ byAge' = files
             /\ disk' = IF page THEN [disk EXCEPT ![t] = "picture"] ELSE disk
             /\ fDiskCacheSize' = size
             /\ Advance(FALSE)
             /\ UNCHANGED <<fTiles, drifted>>
          \/ \* curl fails on the way: a part of the picture stays, not counted
             /\ byAge' = Append(Without(t), t)
             /\ disk' = [disk EXCEPT ![t] = "torn"]
             /\ fDiskCacheSize' = size
             /\ drifted' = (drifted \/ t \notin ToSet(files))
             /\ Advance(FALSE)
             /\ UNCHANGED fTiles
    /\ UNCHANGED <<fEnabled, fLastArea, redraw, tileQueue>>

\* _PruneMemoryCache: the least recently used tiles go.
PruneMemoryCache ==
    fTiles' = IF Len(fTiles) > MaxMemoryTiles
              THEN SubSeq(fTiles, Len(fTiles) - MaxMemoryTiles + 1, Len(fTiles)) ELSE fTiles

\* _PruneDiskCache: the oldest files go, until the books say 90 % of the limit.
PruneDiskCache ==
    LET target == (MaxDiskCache * 9) \div 10
        excess == IF fDiskCacheSize > MaxDiskCache THEN fDiskCacheSize - target ELSE 0
        n      == IF excess < Len(byAge) THEN excess ELSE Len(byAge)
    IN /\ byAge' = SubSeq(byAge, n + 1, Len(byAge))
       /\ fDiskCacheSize' = fDiskCacheSize - n
       /\ disk' = [t \in AllTiles |-> IF t \in ToSet(SubSeq(byAge, 1, n))
                                      THEN "picture" ELSE disk[t]]

\* The request is walked through; the view is told (MSG_TILES_READY) and
\* redraws, which asks for nothing new.
FinishRequest ==
    /\ job # NoJob /\ ~Walking
    /\ job' = NoJob
    /\ IF job.any THEN PruneMemoryCache /\ PruneDiskCache
       ELSE UNCHANGED <<fTiles, disk, byAge, fDiskCacheSize>>
    /\ UNCHANGED <<fEnabled, fLastArea, redraw, tileQueue, drifted>>

TilesNext == DrawTiles \/ DrawTile \/ RequestTiles \/ ToggleTiles
             \/ TakeRequest \/ InMemory \/ FromDisk \/ Download \/ FinishRequest

-----------------------------------------------------------------------------
\* Between two requests memory is within its limit and holds no tile twice,
\* however the window redrew meanwhile (_PruneMemoryCache, _FindEntry).
MemoryBounded ==
    job = NoJob => Len(fTiles) <= MaxMemoryTiles /\ Cardinality(ToSet(fTiles)) = Len(fTiles)

\* The books agree with the disk unless curl died half-way through a file or
\* overwrote one that could not be decoded: error pages that are saved,
\* recognised and deleted, and pruning, keep them exact (fDiskCacheSize).
DiskAccounted == drifted \/ fDiskCacheSize = Len(byAge)

\* The cache keeps its limit in memory and its books of the disk
\* (_PruneMemoryCache, _PruneDiskCache).
CacheKept == MemoryBounded /\ DiskAccounted
=============================================================================
