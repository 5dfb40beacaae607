# A TLA+ verification project for SaturnMania

SaturnMania is Sonic Mania (the RSDKv5 engine) on the Sega Saturn: two SH-2
CPUs, the VDP1 and VDP2 video chips, a CD block, and 2 MB of RAM plus a 4 MB
cartridge. Most of the engine is the decompiled RSDKv5 source; what is new, and
what this project is about, is the code that replaces a PC's memory, disc and
renderer by caches, windows and command lists that fit the console.

The models are written from the source, not from its comments. A property is
stated where the code can go wrong in a way that a run on hardware hits seldom:
a cache that outlives what it was filled from, a chip that reads while the CPU
writes, a failing CD read in the middle of a refill.

## 1. The system: parts, state, interaction

| Part | Source | State it keeps | Operations | Hard behaviour |
|---|---|---|---|---|
| VDP1 sprite slots, direct command list, texel gate | `p6_vdp1.c` | sheet handles; per-bucket slot tables (key, LRU stamp); texels in VDP1 RAM; two list halves, the published one; the gate's memo | bind, blit (hit, miss, restage), list begin/end, seam reset | VDP1 rasterises frame *n* while the SH-2 builds *n+1*; vblank between any two steps; seams rebind handles |
| CD pack backend | `p6_gfs.c` | virtual handles with cursor and window; one shared GFS handle, its tracked pointer, a reference count | open, close, seek, read, refill | nested opens, skipped seeks, CD failures in a refill |
| Streamed foreground layers | `SaturnLayout.cpp` | mounted zone, resident layers, two slots of two windows | mount, bind, pre-inflate, get, set, refill | collision and present share the slots; reload of the same or another zone; aborted refills |
| Banded and resident sheets | `SaturnSheet.cpp` | band store, LRU band cache, resident bump allocator, name hashes | stage, make resident, fetch, resets | seams that rewind the allocator under live pointers, fixed windows in the same memory |
| Pre-cut frame directories | `SaturnFrameDir.cpp` | 16 directory slots | stage, reset, lookup, routes by store slot and by handle | a route that outlives the registry it numbers |
| Dual-SH2 present | `p6_vdp2.c`, jo-engine `slave.c` | work posted to the slave, both CPUs' caches, the composed plane, its pending flag | kick, compute, join, vblank copy | no cache coherence between the CPUs; layer slots shared; a blank at any time |
| Frame loop, scene chain | `p6_io_main.cpp` | current scene, chain position, load steps | frame, load, seam, stream tick | order of the load steps |
| Dataset storage | `Storage.cpp` | five pools, registered pointers | allocate, remove, garbage-collect, defragment | pointers move |
| Entities | `Object.cpp`, `p6_io_main.cpp`, `p6_ovl_ghz.c` | physical slots and the remap of scene slots, resident and free list, dead marks, sorted index, near set | load and compaction, index build, stream out and in, visit, kill | slots change owner each tick; a cached near set decides who is updated |
| Sound, music, save, input | `p6_sfx.c`, `p6_snd.c`, `Audio.cpp`, `audio.c`, `save.c`, `InputDevice_Saturn.cpp` | channels, track, slots, pad | play, stop, save, poll | pending CD commands |

How they interact. The frame loop (`p6_io_main.cpp`) opens a command list,
runs the engine's draw lists, whose sprite draws call `p6_vdp1_blit`; a cache
miss there reads pixels from a frame directory, a resident sheet or the banded
store. The loop closes the list; the vblank interrupt (`p6_fg_vblank`) points
VDP1 at it. Collision code and the VDP2 present read tiles through the layer
slots; objects remove tiles through the same module. Every tick the entity stream frees the slots
the camera left behind, before the update loop runs over the near set. After
the update, the frame forks the composition of the foreground plane onto the
slave SH-2, draws the sky, and joins. The engine's reader opens
`DATA.RSDK` through the CD backend, often nested (an animation file stays open
while its sheet is read). A scene load mounts the zone's layer store, binds the
layers, arms the present and pre-inflates; a seam of the front-end chain resets
sheet handles and slot keys.

What makes each part correct:

* sprite slots: a slot that hits holds the texels of the sheet its handle is
  bound to *now*; what a list refers to is not rewritten under it; texels are
  written only while VDP1 is idle, unless the gate gave up; a list half is never
  written and read at once; a waited-for frame is swapped whole;
* pack backend: handles behave like independent stdio streams over one file;
* layers: a read returns the current tile whatever was cached, evicted,
  aborted, removed or reloaded before;
* dataset storage: an owner's block holds what the owner wrote, wherever it was
  moved to;
* present: whoever composes, the screen shows one version of the layers, a
  change of them arrives, and no CPU reads a line older than the other's store;
* resident store: residents, blobs and fixed windows keep apart, and a sheet is
  drawn from its own pixels over all seams;
* entities: a physical slot has one owner; the dead stay dead; what is near is
  live; what is in range does not vanish.

## 2. Modules

| Module | Models | Extends / uses |
|---|---|---|
| `SpriteSlots` | `p6_vdp1.c` front-end path, the frame skeleton of `p6_io_main.cpp`, vblank, VDP1 | |
| `MCSpriteSlots` | instance for TLC | `SpriteSlots` |
| `SpriteSlots_proofs` | theorems | `SpriteSlots`, `TLAPS` |
| `StdioFiles` | what the engine expects of its file layer (abstract) | |
| `PackFile` | `p6_gfs.c` | `Stdio == INSTANCE StdioFiles`, the refinement |
| `MCPackFile`, `PackFile_proofs` | instance; theorems | `PackFile` |
| `LayoutWindow` | `SaturnLayout.cpp` and its callers | |
| `MCLayoutWindow` | instance for TLC | `LayoutWindow` |
| `LayoutWindow_proofs` | theorems | `LayoutWindow` |
| `Datasets` | `Storage.cpp`; the strings of `Text.cpp` that lean on it | |
| `MCDatasets`, `Datasets_proofs` | instance; theorems | `Datasets` |
| `ForegroundPresent` | what a present of the foreground promises (abstract) | |
| `PresentFork` | `p6_vdp2.c` present, its frame in `p6_io_main.cpp`, jo-engine `slave.c`, both caches | `Present == INSTANCE ForegroundPresent WITH ...`, the refinement |
| `MCPresentFork`, `PresentFork_proofs` | instance; theorems | `PresentFork` |
| `PresentFork_refinement` | proof of the refinement | `PresentFork_proofs` |
| `SheetStore` | `SaturnSheet.cpp`, `SaturnFrameDir.cpp`, the seams of `p6_io_main.cpp`, the bindings of `p6_vdp1.c` | |
| `MCSheetStore`, `SheetStore_proofs` | the disc's sizes; theorems | `SheetStore` |
| `EntityPool` | the entity stream, index and update loop of `p6_io_main.cpp`, `p6_ovl_ghz.c`, `Object.cpp` | |
| `MCEntityPool`, `EntityPool_proofs` | instance; theorems | `EntityPool` |

A definition marked `faulty` is no part of a specification: it is the plausible
bug of the definition that follows it, kept to show that a property rejects it.

### SpriteSlots

The SH-2, VDP1 and the vblank interrupt are three actors whose steps interleave
freely. A frame is `ListBegin`, any number of draws, `ListEnd`, the wait
(`SwapWaitDone` or `SwapWaitSkipped`), and the vblank that ends `slSynch`.
A draw is `BlitHit`, or `BlitMiss` followed by the gate (`GateMemoised`,
`GateReadIdle` then `GateMemoise`, or `GateTimeout`), the write and
`RestageDone`: the gate's read of EDSR.CEF and its later read of the vblank
count are two steps, because the interrupt can come between them. `SheetBind`
and `PalReset` are the seam. `LoadFrame` is a frame that returns before it opens
a list. VDP1 takes one command per `Rasterise` and sets CEF in `DrawEnd`.
A texture is the pair of the sheet it comes from and its rectangle; a
half-written one is `Garbage`. `asked`, `frameStart`, `forced` and `late` are
history variables: what the frame asked for, when it began, which slots were
written after a gate timeout, whether the wait failed.

`FreeRunSwap` says when the framebuffer changes. `FALSE`: only at the vblank
that ends an `slSynch` call, which is how SGL is driven here. `TRUE`: at every
vblank. The gate's argument is right in the first case only.

The vblank handler is one step: its patch of the jump cell is taken to precede
VDP1's restart. Not modelled: the polygon and rotated-sprite emitters (same list
and drop rule), the glyph cache of the title card, the pool of the plain build,
off-screen culling, and all counters that only witness.

### StdioFiles and PackFile

`PackFile` keeps `s_handles` as functions of the handle, the shared GFS handle
as `packFile`, `packRefs`, the tracked pointer `packPos`, and, apart from it,
the pointer the GFS handle really has, `gfsPos`. A read is `ReadBegin`, then
`Copy` and fills in turn, then `ReadEnd`; a fill succeeds, fails in the seek or
fails in the read. `FailedPrefix` is the set of sector counts a failing read may
have copied before it failed. A byte is named by its file and offset, so any
mix-up shows. Calls that fail before they change anything are not steps. The
division by the element size is left out: the reader always passes 1.

`StdioFiles` has no window, no shared handle and no tracked pointer; each
stream delivers its file's bytes from its cursor. The refinement maps its
variables to those of the same name. `Copy` is `Deliver`, a failing fill is
`DeviceFails`, a successful fill is a stutter.

### LayoutWindow

A load is one step for mount and bind, then reads may happen, then
`PreInflate`. `GetHit` is a hit in either way (a swap when in the other),
`GetRefill` fills the other way, `GetAborted` is a band refill that stops at a
band that cannot be inflated: the rows before it are written, the origin stays,
the way becomes active all the same. `SetTile` removes a tile from the resident
store and both ways. `Present` binds both slots after a change. A mount can fail
with the old store overwritten (`MountFails`). This is the build whose big
layers are streamed; the build with whole layers in the cartridge does not use
the windows.

### Datasets

One of the five pools. `blocks` are the headers below `usedStorage`, `entries`
the registry (`dataEntries` with `storageEntries`), `mem` the pointer variables
themselves, which the allocator reads at a collection and writes at a
compaction. A call is one step: nothing runs in between. `Allocate`,
`RemoveEntry`, `Copy`, `Defragment` and `Reset` are the allocator's entry points
with their callers' guards; `Forget` and `Leave` are what programs do to
registered variables without telling it: overwrite them, or return from the
function whose locals they are. After `Leave` the local's word holds anything,
in particular the address of somebody's block. `word` and `text` say what the
owners wrote: a moved, overwritten or shared block shows as a wrong word.
A copy made when the registry is full is not registered (`Storage.cpp:501`); it is
`loose`, does not move with its block, and is exempt from `Intact`.
`RemoveEntry` keeps the code's order: the test reads the removed variable itself
at each entry, so owners registered after it keep their block.

`Kept` moves what is kept of a table up over the gaps, `Retargeted` is the loop
that gives each moved block's new address to its owners, block after block; both
are recursive functions, so that the proofs can follow them step by step.

`AppendText` (of `SpecText` only) is `AppendText`/`AppendString` when the string
must grow. Left out: the active flag of a header, which only the compaction
that computes it reads; `clear`; the five sizes; pointer variables that lie
inside a block of another pool.


### ForegroundPresent and PresentFork

`ForegroundPresent` is the promise: objects move, one step composes the plane
for the camera, one publishes the scroll position, a vertical blank shows both.
`PresentFork` has two processors that take the steps of `p6_present_compute` in
turn with the master's. Its words are those both processors use through their
caches: a read takes the own line if there is one, a store writes through, any
line may be evicted at any moment (`Evict`). What the code accesses past the
cache (arguments, done flag, splash flag, plane) has no line. The refinement
hides the composition until its last step: until then the abstract page is the
plane on the screen.

`slSlaveFunc` queues a command. The slave purges its cache on a command that
`slSynch` sends, so once a frame and not at each fork and join as the comment at
`p6_vdp2.c:2466` has it; the model purges in the blank that ends `slSynch`. The
splash runs on the slave only during the boot load, the only one under masked
interrupts; later loads (`LoadEnter`, `LoadScene`) fork nothing.
A plane is a row of columns that wraps around; a column carries the version of
the layers it was composed from.

`LateUpload` is the retry of a foreground whose files could not be read at the seam
(`p6_io_main.cpp:9939-9954`): after the fork and before the join the master changes the tiles' format
and marks the plane dirty, although the comment at `p6_vdp2.c:2412-2413` has it
written before any fork. The slave's own store at `p6_vdp2.c:2583` would lose
the mark if it still composed; 128 KB are read from the CD first, which takes far
longer than a composition, so the model takes it to be done. Nothing in the
code says so: without that guard TLC finds `PresentSpec` violated.

`sky` says whether the sky's CRAM banks hold its colours. The palette upload of a
composition may overwrite them (`Palette`); the master writes them when it draws
the sky and, in a forked frame, again after the join. `SkyKept` is about the state that comes of
it: once a scene has been presented the banks hold the sky's colours whenever
no present is under way, so at the blank that shows the frame, too. It depends on
the join as much as on the order: with a done flag left set from the frame before, the
join passes early and the slave's upload lands in `slSynch`.

Left out: the self-check of the visible cells after a composition
(`p6_vdp2.c:2597-2626`), which reads tiles the windows hold already and only sets
witnesses; the guard of the title's island at the upload (2348), a leg that
writes its plane to the VDP2 itself; the inflate scratch of `SaturnSheet.cpp`, whose consumers on the master run while the slave
composes only on paths the comments call synchronous; the forked half of the
scan in `Object.cpp` (540-600, 815-836); palette cycling; the counters mirrored
for a debugger.

### SheetStore

The 4 MB cartridge's resident store on the way from the logos to the playable
zone. The scene chain is a sequence of legs; a leg's seam is a sequence of
operations in the code's order (`Boot`, `AizSeam`, `CutsceneSeam`, `GhzSeam`),
each an action (`Stage`, `Promote`, `FrdStage`, `Fallback`, `Reclaim`, `Floor`,
`Arm`, `Attach`, `Windows`, `Fg`, `Sky`), then frames are drawn. `cart` is the
set of extents that still hold what was put there: whoever writes over a part of
one takes it out. Any read may fail, `MaxFaults` times in all.
A resident and a blob are placed by `Fits` and `Claimed` from the cursor; the
windows nobody allocates are named constants with the code's addresses.

A cast member may stand for several sheets that are always handled together:
TSONIC for the rest of the title, ZONE for the shields, the global and the
zone's objects, EXPLOS for the animals too, SONIC23 for two. The menu's seam,
where nothing is promoted, is skipped. A band store without room is one of the
faults. Not modelled: the LRU cache of inflated bands, the binary search in a
directory, the cap on handles, short reads, the water variant of the zone.

### EntityPool

A load creates all entities, builds the index and packs the near ones into the
physical slots (`LoadScene`: census, index, `p6_pool_compact`); `born` are the slots that survive
their `Create`. A frame may rebuild the index (`FrameIndex`) and makes the near
set for the camera (`Camera`). A tick frees (`StreamOut`), fills slot by slot
(`Materialise`, `StreamDone`), then visits the near slots in order (`Visit`). An
object may destroy (`Kill`) or let loose (`Loosen`) another at any point of that loop.
`killed` and `late` are histories: slots whose entity is gone in this life, and
those let loose by another after their own turn.

`SpawnFits` says what the compaction does not test, that the entities near a spawn fit the pool;
`DriftAssumption` that an entity which is not active everywhere strays no
farther from its spawn than the index margin allows.
Both are about level data that are not in the repository.

Left out: the y range (the update test's other axis only narrows it); slots an
object resets itself, which go to the dummy; the two frames between the frame's
two index builds; the loop over physical slots of the build without front end;
temporary entities, type groups and draw lists; scenes with filtered entities,
where the filter pass (`Scene.cpp:830-857`) slides entities while the records
are indexed by raw slot; the conversion back from physical to scene slot.
In every state TLC reaches, the index was built by a load, so the frame's own
rebuild, which would take its census in the shrunk pool, is not taken: this is
what `NearLive` and its mutant are about.

## 3. Runs

| Run | Checks | Bounds |
|---|---|---|
| `sprite_slots` | eight invariants, two liveness properties, `FairSpec` | 2 sheets behind 1 handle, 3 rectangles in one bucket of 2 slots, lists of 2, clock up to 3 |
| `pack_file` | three invariants, refinement, liveness | 2 handles, 2 files, windows of 2 and seek refills of 1 sector, reads of 1, 3 and 6 bytes |
| `layout_window` | three invariants, one action property | 2 zones, 2 layers of 2 by 3 tiles, windows of 1 by 2, bands of 2 rows |
| `layout_window_reload` | expected violation of `ReloadIsPristine` | as above |
| `datasets` | two invariants, two action properties | 2 static variables and 1 local, blocks of 1 and 2 words with a header of 2, 10 words, 3 registry entries |
| `datasets_text` | expected violation of `Intact` under `SpecText` | 8 words, 4 entries |
| `present_fork` | four invariants, refinement, two liveness properties | 2 camera columns, a screen of 1 and a part, a plane of 5, 2 scenes of up to 2 versions of the layers |
| `sheet_store` | five invariants | the sizes of the disc's files in cells of 4 KB, store of 416 cells, 16 blobs, 3 failed reads |
| `sheet_store_cutscene` | expected violation of `ResidentsConsistent` | as above |
| `entity_pool` | four invariants, one action property | 5 scene slots, 2 usable physical ones and the dummy, 3 cameras, window 3, margin 2, drift 1 |
| `entity_pool_pin` | expected violation of `PinnedNotDropped` | as above |
| `entity_pool_acts` | expected violation of `HoldsPlaced` | the same with two acts |

Why the bounds are enough for the questions asked. More rectangles than slots
in a bucket force evictions and let a frame ask for more than fits; one handle
and two sheets suffice for a seam to bind the handle to another sheet. The run has one bucket, since its liveness
properties allow no symmetry; the safety theorems hold for any number of them. Two file handles are what the code has; a file of a few sectors has a
first, a middle and a partial last sector, and a window that covers part of it.
Two windows smaller than a layer in both directions, with bands that cut them,
give swaps, evictions and refills that stop half way. The numbers are in the
`.cfg` files; the theorems of section 5 hold for all of them.

Three blocks fit the pool, so a compaction can close a gap under two of them;
the registry has as many entries as there are variables, so stale entries and
second registrations fill it.

The plane is just wide enough for the rectangle composed and one column more,
so that columns wrap onto others; two cameras cross a tile to and fro. Two
scenes with a tile to remove each give a change within a scene and one across.
The sizes of `MCSheetStore` are the real ones, so what overlaps there overlaps
on the console; three failed reads can spoil two legs and still leave one for the
landing. In `entity_pool` a wide object and a manager are always wanted, which fills the
two usable slots at the spawn; at the other two cameras more is wanted than fits until
something is destroyed. Slots 3 and 4 lie beyond the physical ones.

`MaxClock` bounds `s_useclock`, an `int` that only a seam resets; the model
stops drawing at the bound and the wrap is not modelled. In
`LayoutWindow` the tiles of a window without an origin are `Junk`: the memory
keeps the old ones, but nothing reads them before a refill has written them all.

### Fairness

`SpriteSlots!FairSpec` has weak fairness of the SH-2's own steps (gate, write,
end of frame) and of vblank, which is a hardware interrupt. VDP1 has none: a
hung VDP1 is a behaviour, and the bounded spins must get past it.
`PackFile!FairSpec` has weak fairness of the steps inside `Saturn_fRead`: the
loop runs, and GFS returns, well or badly.
`PresentFork!Fairness` has weak fairness of the master's steps, of the
composition's, of the end of the splash and of vblank: neither processor stops,
and blanks keep coming. Eviction has none. `SheetStore` and `EntityPool` state
no liveness and no fairness.

## 4. What the expected violations show

* `layout_window_reload`: a tile removed in play is missing after a reload of
  the same zone, as the resident layer is not inflated again although
  `SaturnLayout.cpp:217` takes it to hold the first load's tiles.

* `datasets_text`: a string that grows in a full pool loses its old characters:
  its variable is cleared first, so the compaction reclaims the block it is
  about to copy from (`Text.cpp:298-301`).
* `sheet_store_cutscene`: the cutscene's seam rewinds the store and promotes the
  players' sheet first, at the very start of the store, where the engine writes
  its scanlines each frame (`p6_io_main.cpp:8609-8614`). The blobs are kept clear of
  that window by a floor, the resident is not.
* `entity_pool_pin`: the pin at the end of a visit compares the loop's slot with
  the number of physical slots (`Object.cpp:1118`); in this build that is a scene
  slot, so an entity in a slot beyond 640 that turns active everywhere in its own
  update is not pinned, and the stream takes it away once the camera has left,
  which the comment at 1112-1117 rules out. `NoneVanishes` of `entity_pool` has
  these slots as an exemption and shows that they are the only ones.
* `entity_pool_acts`: the store of records is loaded once, for act 1
  (`p6_io_main.cpp:4767`). After the advance to act 2, the stream brings act 1's entities
  into act 2's slots.

Two runs rest on an assumption whose failure TLC shows at once, should someone
change the instance. With `FailedPrefix = {0, 1}` (a failing CD read that copied
some sectors) `WindowFaithful` fails: the old window stays declared over the
new bytes. With `FreeRunSwap = TRUE` (a framebuffer change at every vblank)
the gate's properties fail: it reads CEF, then the vblank count, and memoises the
new period as idle while VDP1 draws.

Disagreements between code and comments met on the way, without a run of their own:

* the slave's cache purge and the late upload, above; the splash comments in `p6_io_main.cpp` say it is forked at
  each masked load, there is only the first;
* a failed read of the ghost objects' blob in the cutscene makes its sheet
  resident, up to the window of the sky;
* the budget that `p6_io_main.cpp:7690-7716` works out for the jungle leg does
  not hold: two players' blobs no longer fit and their sheets are drawn from bands;
* the cutscene sets `s_ghcbg_loaded`, so the landing never loads its own sky in
  the chain; `p6_cut_promote` (5419-5440) never runs in it, though
  8586-8600 says it does;
* `SaturnEntitySlot` (`p6_io_main.cpp:770-773`, "exact inverse") returns the
  physical slot once the pool is shrunk.

## 5. What is proved

All theorems are for every value of the constants that satisfies the named
assumptions of the modules.

`SpriteSlots_proofs`. `TypeCorrect`, then `CacheCoherent` and `CacheUnique`
from one inductive invariant over the slots and the miss in progress: while a
slot is rewritten its key is of the past and only the request says what it will
hold. `CapacityTheorem` proves `BuiltListIntact`: every slot a command of the
list being built refers to was touched in this frame, so its stamp exceeds
`frameStart`; the victim of a miss has the least stamp of its bucket; were it a
slot of this frame, all slots of the bucket would be, each holding another
rectangle asked for, and with the missing one the frame would ask for more than
the bucket holds. This counting argument needs the cardinality facts of
`FiniteSetTheorems` and is the heart of the cache's design.
Under `~FreeRunSwap`, `GateHoldsTheorem`, `GateTheorem`, `PrivateTheorem`, `WholeFrameTheorem` and
`DisplayTheorem` prove the properties about VDP1: their invariant says that VDP1
reads the published half, that it can only be restarted in `slSynch`, and that a
write in progress was let through by an idle VDP1 or by a timeout.

`PackFile_proofs`. `TypeCorrect` and `BookkeepingTheorem` prove types, reference
count and tracked pointer by induction, with two strengthenings: the read in progress
never wants more than the file has left (`CallFits`), and the windows have the
size their fill gave them (`WindowSized`). With `FailedPrefix = {0}`,
`WindowTheorem` proves that windows hold their file's bytes and `StdioTheorem`
that the backend implements `StdioFiles`.

`LayoutWindow_proofs` proves the four properties of the `layout_window` run, and
two that only the proofs use: `StoreIsZones` and `SlotsBound`. A
window of a layer that becomes resident must already hold what the pre-inflate
is about to write, so the inductive invariant `IInv` adds `LoadWindows` (before
the pre-inflate no tile has been removed from a window) and `Loading` (a zone in
play has been pre-inflated; one being loaded has a whole band store or is still
resident). `WayHolds` is what one window claims: a read changes one window, and
`ReadIInv` proves once that the others stand. The proof of `SetTile` needs
`SlotsBound`: a removal in one slot leaves the other's layer alone only because
it is another layer.

`PresentFork_proofs`. `TypeCorrect`, `OneUser` and `SkyStays` rest on an
invariant in three parts. `Places` says who runs what when; `Lines`, which lines
are current: outside a fork the master's are (it purged them when it joined) and,
but in `slSynch`, the slave has none; while it composes, what it has read is
current, because the master stores nothing of what they share; `Flags`, that
every line of the pending flag holds 0 or 1. Eviction cannot disturb any of it,
so the two purges suffice wherever lines are lost. `SkyStays` adds `Coloured`
to it: `SkyKept` itself, and that no scene later than the one loaded is
published. `Places` places every palette upload inside a present, the join and the
draw of the sky end a forked and an unforked one with the banks written, and a
load moves on to a scene that is not published yet (`SceneMonotone`).

`PresentFork_refinement` proves that `PresentFork` implements
`ForegroundPresent` (`Implements`), and from it `Untorn`: the screen shows
columns of one version of the layers. Its invariant `Planes` says that outside a
composition the plane is marked pending or is on the screen already (`Marked`), and
that a composition has done its columns, and no others, with the camera and
version it began with (`InWork`); the lemmas about the wrapping plane say that
columns less than a plane apart lie in different places. `Untorn` adds `Shown`,
an invariant of the abstract present. A step of the
composition stutters until its last one, which is the abstract composition.

`Datasets_proofs` proves the four properties of the `datasets` run for any number
of variables, sizes and registry entries. `IInv` is `TypeOK` and `Owned`: an
owner is named by an entry of the registry at the block it points to (`Names`),
and the block holds its text (`Holds`). Without `Names` nothing keeps a block
through a compaction. The proof of a compaction goes in three steps, each by
induction over the table: what is kept of the blocks lies no higher than
before (`Tops` of a subsequence), so a word is moved from a place not yet
written over; after block *i* has been retargeted, the entries of the first *i*
blocks name new addresses and the others old ones, and the two cannot be
confused, because a new address is at most the block's old one and below the next
block's; and the words of block *i* are then those it had. `RefusalsAreEarned`
adds that a compaction without gaps changes nothing, so that a refusal
after it counts the blocks that others hold.

`SheetStore_proofs`. `TypeCorrect`, `NothingOverlaps` and `OwnFrames`, from
`TypeOK /\ StoreDisjoint /\ RouteOwn`, which is inductive: what is live lies in
front of the cursor, so what is allocated next is apart from it; a blob keeps its
number until the rewind, which clears every way to it. The sizes, the floors and
the number of faults are arbitrary.

Two theorems are about the order of the seams' operations, and rest on lemmas
that read the seams operation by operation (`BootOps` ... `GhzOps`, `AtGhz`).
`LandingTheorem` proves `LandingServed`: its invariant `LandingPlan` says,
by the program counter, which sheets are staged, that the registry is the first
so many blobs of `Landing` in that order, each routed, and that the cursor is no
higher than their sizes (`LandingTop`). `PixelsTheorem` proves `PixelsIntact`
from five parts: handles are of the scene's sheets (`Scened`); until the jungle's
floor is set only the sheets of the logos and the title are placed, and
afterwards behind it (`Places`); the landing's backdrop is in before its rebuild (`Backdrop`); the
cutscene is filled from the bottom (`CutsceneStore`); so whoever writes,
every live extent is unspoilt, or a resident under the scanlines, or a title's
resident the jungle does not draw (`Unspoilt`). These two need that
the sizes fit: `LandingFits` (the landing's blobs and the letters fit the store)
and `CutsceneFits` (what the cutscene places ends below the window of its sky),
which are hypotheses of the theorems; `MCSheetStore` has TLC evaluate them on the
sizes of the disc's files.

`EntityPool_proofs`. `TypeCorrect`, `PoolTheorem` and `DeadTheorem` hold for any
acts. Their invariant `IInv` adds to the properties where the tick is (`Stage`),
that whatever is resident, near or always wanted has an index entry (`Indexed`),
what the fill has still to bring (`Pending`), and that what was killed is still
resident, marked dead, or not in the index at all (`KilledKnown`). That the compaction is a bijection between the residents and the
first physical slots is `RankFacts`: the number of residents before one is less
than their number, and grows strictly, by the cardinality theorems.
`NearTheorem` and `VanishTheorem` hold when there is one act (`OneAct`); with
two, `HoldsPlaced` fails, and with it what they rest on. They need `AInv`: the index holds the spawn of
everything born (`IndexRight`), the near set covers what it should
(`AlwaysCovers`, `NearCovers`, `AlwaysNear`), the fill's to-do list what is missing
(`FillCovers`), residents stray no farther than `Drift` (`Strays`), and what is
loose is pinned but for the two exceptions (`LoosePinned`). `DriftAssumption` is
used in one place, the lemma that what is far from the camera is out of range.

Only model-checked: the liveness properties (`MissIsStaged`, `ListIsShown`,
`ReadReturns`, `ChangeShown`, `FrameComesRound`), which are outside the
prover's reach. Every invariant and every action property of a passing run is
proved. `HoldsTheorem` proves for one act what `entity_pool_acts` refutes for two.

## 6. Plan

1. The loader of sound effects on top of `Datasets`, with its pool-full latch.
2. Sound and music: channel allocation, the track switch against a pending
   CD command. Save.

### Not modelled

* Collision geometry, drawing arithmetic, decompression: data computations over
  large inputs, without interleaving; a bounded model would not reach a case a
  test does not.
* The game objects: gameplay; the modules have what they do to shared state
  (remove a tile, destroy or let loose another entity, ask for a sprite).
* The LRU of inflated bands: a band is inflated anew when it is missing, and
  its content is a function of its key; what could go stale, the store below it, is
  `SheetStore`'s.
* The glyph cache of the title card, the polygon emitters, the plain build
  without front end: variants of the paths that are modelled.
* The engine's file reader: decoding; its calls fix the inputs of `PackFile`.
* Sound, music, save, input: still open, items 1 and 2 above.
* The older hand port under `src/src/rsdk`, which the RSDKv5 port supersedes, and
  vendored code, offline tools and assets, which are most of the
  repository by size.
