----------------------------- MODULE LayoutWindow -----------------------------
(***************************************************************************)
(* The streamed foreground layers (SaturnLayout.cpp): a zone's band store is *)
(* mounted, the layers that fit are inflated once into a resident store in   *)
(* the cartridge, and every tile the engine reads goes through one of two    *)
(* slots (FG Low, FG High), each a cache of two windows ("ways") of the      *)
(* layer it is bound to.  The game reads tiles (collision, present), removes *)
(* tiles (a broken wall), reloads the scene (a death, the next act), and the *)
(* present binds both slots again after a change.                           *)
(*                                                                         *)
(* A tile value is named for its place in the store, so a window that holds  *)
(* another zone's, layer's or cell's tile is told apart.  The byte order of  *)
(* a tile is swapped on a write and on a read and left out.  A read outside  *)
(* the layer returns the empty tile, changes nothing and is not a step.      *)
(***************************************************************************)
EXTENDS Integers, FiniteSets

CONSTANTS
  Zones,       \* the zones with a band store (<TAG>LAYT.BIN)
  NLayers,     \* s_layerCount
  FGLow,       \* index of the layer named "FG Low"
  FGHigh,      \* index of the layer named "FG High"
  Fits,        \* the layers the resident store has room for
  XSize, YSize,      \* size of the two layers in tiles
  WinCols, WinRows,  \* SATURNLAYOUT_WIN_COLS, SATURNLAYOUT_WIN_ROWS
  BandRows,    \* s_bandRows
  Probes,      \* the cells the game reads
  Breakable,   \* the cells the game removes
  NoZone       \* nothing is mounted

Layers == 0..(NLayers - 1)
Slots == {0, 1}
Ways == {0, 1}
Cells == (0..(XSize - 1)) \X (0..(YSize - 1))
WinCells == (0..(WinCols - 1)) \X (0..(WinRows - 1))

ASSUME LayersAssumption ==
  /\ NLayers \in Nat /\ FGLow \in Layers /\ FGHigh \in Layers
  /\ FGHigh = FGLow + 1            \* the layer order the present relies on
  /\ 0 \in Fits /\ Fits \subseteq Layers
ASSUME SizeAssumption ==
  /\ XSize \in Nat \ {0} /\ YSize \in Nat \ {0}
  /\ WinCols \in Nat \ {0} /\ WinRows \in Nat \ {0} /\ BandRows \in Nat \ {0}
ASSUME CellsAssumption ==
  Breakable \subseteq Cells /\ Probes \subseteq Cells /\ NoZone \notin Zones

VARIABLES
  zone,        \* s_layout_tag: the zone whose store is mounted
  blobOk,      \* the band store in memory is that zone's
  resident,    \* s_layer_res[l] # 0
  store,       \* the resident pixels of each layer
  bound,       \* SaturnLayoutSlot.layer
  active,      \* SaturnLayoutSlot.active
  org,         \* SaturnLayoutWindow.{wx, wy} of each way
  win,         \* the tiles at SaturnLayoutWindow.win, Junk in an empty way
  dirty,       \* p6_vdp2_present_dirty
  phase,       \* "load" up to the resident pre-inflate, then "play"
  torn         \* history: an aborted refill has written into this way

slotVars == <<bound, active, org, win, torn>>
storeVars == <<zone, blobOk, resident, store>>
vars == <<zone, blobOk, resident, store, bound, active, org, win,
          dirty, phase, torn>>

NoLayer == -1
NoOrg == <<-1, -1>>
NoTile == <<"empty">>              \* 0xFFFF
Junk == <<"junk">>                 \* whatever the memory holds
Stored(z, l, c) == <<z, l, c>>
Tiles == (Zones \X Layers \X Cells) \cup {NoTile, Junk}

TypeOK ==
  /\ zone \in Zones \cup {NoZone} /\ blobOk \in BOOLEAN
  /\ resident \in [Layers -> BOOLEAN]
  /\ store \in [Layers -> [Cells -> Tiles]]
  /\ bound \in [Slots -> Layers \cup {NoLayer}]
  /\ active \in [Slots -> Ways]
  /\ org \in [Slots -> [Ways -> Cells \cup {NoOrg}]]
  /\ win \in [Slots -> [Ways -> [WinCells -> Tiles]]]
  /\ torn \in [Slots -> [Ways -> BOOLEAN]]
  /\ dirty \in BOOLEAN /\ phase \in {"load", "play"}

EmptyWays == [w \in Ways |-> NoOrg]
WholeWays == [w \in Ways |-> FALSE]
UnknownTiles == [w \in Ways |-> [d \in WinCells |-> Junk]]

Init ==
  /\ zone = NoZone /\ blobOk = FALSE
  /\ resident = [l \in Layers |-> FALSE]
  /\ store = [l \in Layers |-> [c \in Cells |-> Junk]]
  /\ bound = [s \in Slots |-> NoLayer]
  /\ active = [s \in Slots |-> 0]
  /\ org = [s \in Slots |-> EmptyWays]
  /\ win = [s \in Slots |-> UnknownTiles]
  /\ torn = [s \in Slots |-> WholeWays]
  /\ dirty = TRUE /\ phase = "play"

----------------------------------------------------------------------------
(* Loading a scene: p6_layout_mount_for_scene, LoadSceneAssets, the arming  *)
(* of the present, and at the end the resident pre-inflate.                *)

WaysAfterBindKept == org                         \* faulty: windows survive
WaysAfterBind == [s \in Slots |-> EmptyWays]

\* SaturnLayout_Bind of both slots; the old tiles stay, unclaimed
BindSlots(low, high) ==
  /\ bound' = [s \in Slots |-> IF s = 0 THEN low ELSE high]
  /\ active' = [s \in Slots |-> 0]
  /\ org' = WaysAfterBind
  /\ torn' = [s \in Slots |-> WholeWays]
  /\ win' = [s \in Slots |-> UnknownTiles]

ResidencyAfterMount == [l \in Layers |-> FALSE]

\* the tag differs and the store of the new zone is read and mounted
Mount(z) ==
  /\ z # zone
  /\ zone' = z /\ blobOk' = TRUE
  /\ resident' = ResidencyAfterMount
  /\ UNCHANGED store

\* ... or its read fails, perhaps half way: the old store is still mounted
MountFails(z) ==
  /\ z # zone /\ zone # NoZone
  /\ blobOk' \in {blobOk, FALSE}
  /\ UNCHANGED <<zone, resident, store>>

LoadScene(z) ==
  /\ phase = "play"
  /\ Mount(z) \/ MountFails(z) \/ (z = zone /\ UNCHANGED storeVars)
  /\ BindSlots(FGLow, FGHigh)
  /\ dirty' = TRUE /\ phase' = "load"

Blob(l, c) == IF blobOk THEN Stored(zone, l, c) ELSE Junk

\* SaturnLayout_PreInflateResident: skipped when layer 0 is resident.  The
\* self-check of SetTile after it binds slot 0 again and leaves the present
\* dirty; its read is the next GetTile, its write is undone.
PreInflate ==
  /\ phase = "load" /\ phase' = "play"
  /\ IF resident[0]
       THEN UNCHANGED <<resident, store>>
       ELSE /\ resident' = [l \in Layers |-> l \in Fits]
            /\ store' = [l \in Layers |->
                 IF l \in Fits THEN [c \in Cells |-> Blob(l, c)] ELSE store[l]]
  /\ bound' = [bound EXCEPT ![0] = FGLow]
  /\ active' = [active EXCEPT ![0] = 0]
  /\ org' = [org EXCEPT ![0] = EmptyWays]
  /\ torn' = [torn EXCEPT ![0] = WholeWays]
  /\ win' = [win EXCEPT ![0] = UnknownTiles]
  /\ dirty' = TRUE
  /\ UNCHANGED <<zone, blobOk>>

----------------------------------------------------------------------------
(* Reading: SaturnLayout_GetTile and SaturnLayout_Refill.                   *)

WithinCol(o, c) == o[1] <= c[1] /\ c[1] < o[1] + WinCols
WindowHas(s, w, c) ==
  LET o == org[s][w] IN
  o[1] >= 0 /\ WithinCol(o, c) /\ o[2] <= c[2] /\ c[2] < o[2] + WinRows
Offset(o, c) == <<c[1] - o[1], c[2] - o[2]>>

Inside(v, size, win1) ==
  LET top == IF size > win1 THEN size - win1 ELSE 0
  IN  IF v < 0 THEN 0 ELSE IF v > top THEN top ELSE v
OriginFor(c) ==
  <<Inside(c[1] - WinCols \div 4, XSize, WinCols),
    Inside(c[2] - WinRows \div 4, YSize, WinRows)>>

Source(l, c) == IF resident[l] THEN store[l][c] ELSE Blob(l, c)

\* the window of a way after the given rows were copied for origin o
Copied(s, w, o, rows) ==
  [d \in WinCells |->
     LET c == <<o[1] + d[1], o[2] + d[2]>> IN
     IF c \in Cells /\ c[2] \in rows THEN Source(bound[s], c) ELSE win[s][w][d]]

Bound(s) == bound[s] # NoLayer

\* the active way has it, or the other way does and becomes active
GetHit(s, w, c) ==
  /\ Bound(s) /\ c \in Cells /\ WindowHas(s, w, c)
  /\ w # active[s] => ~WindowHas(s, active[s], c)
  /\ active' = [active EXCEPT ![s] = w]
  /\ UNCHANGED <<storeVars, bound, org, win, torn, dirty, phase>>

VictimActive(s) == active[s]                     \* faulty: the way just used
VictimWay(s) == 1 - active[s]
Misses(s, c) ==
  Bound(s) /\ c \in Cells /\ \A w \in Ways : ~WindowHas(s, w, c)

\* the other way is refilled around the probe and becomes active
GetRefill(s, c) ==
  LET w == VictimWay(s)
      o == OriginFor(c)
  IN  /\ Misses(s, c)
      /\ win' = [win EXCEPT ![s][w] = Copied(s, w, o, 0..(YSize - 1))]
      /\ org' = [org EXCEPT ![s][w] = o]
      /\ torn' = [torn EXCEPT ![s][w] = FALSE]
      /\ active' = [active EXCEPT ![s] = w]
      /\ UNCHANGED <<storeVars, bound, dirty, phase>>

\* a band of a layer that is not resident cannot be inflated (no scratch, a
\* band too large for it, a corrupt stream): the rows of the bands before it
\* are written, the origin stays (of an empty way: none), and the read is
\* outside the window
GetAborted(s, c) ==
  LET w == VictimWay(s)
      o == OriginFor(c)
  IN  /\ Misses(s, c) /\ ~resident[bound[s]]
      /\ \E band \in (o[2] \div BandRows)..((o[2] + WinRows - 1) \div BandRows) :
           /\ band * BandRows < YSize
           /\ win' = IF org[s][w] = NoOrg THEN win ELSE
                [win EXCEPT ![s][w] = Copied(s, w, o, 0..(band * BandRows - 1))]
      /\ torn' = [torn EXCEPT ![s][w] = org[s][w] # NoOrg]
      /\ active' = [active EXCEPT ![s] = w]
      /\ UNCHANGED <<storeVars, bound, org, dirty, phase>>

----------------------------------------------------------------------------
(* Removing a tile: SaturnLayout_SetTile(slot, x, y, -1).                  *)

WriteActiveOnly(s, w, c) == w = active[s] /\ WindowHas(s, w, c)  \* faulty
WritesWay(s, w, c) == WindowHas(s, w, c)

SetTile(s, c) ==
  /\ phase = "play" /\ Bound(s)
  /\ store' = IF resident[bound[s]]
                THEN [store EXCEPT ![bound[s]][c] = NoTile] ELSE store
  /\ win' = [win EXCEPT ![s] = [w \in Ways |->
       IF WritesWay(s, w, c)
         THEN [@[w] EXCEPT ![Offset(org[s][w], c)] = NoTile] ELSE @[w]]]
  /\ dirty' = TRUE
  /\ UNCHANGED <<zone, blobOk, resident, bound, active, org, torn, phase>>

PresentHighPast == FGLow + 2                     \* faulty: the layer after it
PresentHigh == FGLow + 1

\* p6_present_compute after a change: bind both slots; its reads are reads
Present ==
  /\ phase = "play" /\ Bound(0) /\ dirty
  /\ BindSlots(FGLow, PresentHigh)
  /\ dirty' = FALSE
  /\ UNCHANGED <<storeVars, phase>>

----------------------------------------------------------------------------
Next ==
  \/ \E z \in Zones : LoadScene(z)
  \/ PreInflate \/ Present
  \/ \E s \in Slots :
       \/ \E c \in Probes :
            \/ GetRefill(s, c) \/ GetAborted(s, c)
            \/ \E w \in Ways : GetHit(s, w, c)
       \/ \E c \in Breakable : SetTile(s, c)

Spec == Init /\ [][Next]_vars

----------------------------------------------------------------------------
(* Properties.                                                             *)

InLayer(s, w, d) ==
  <<org[s][w][1] + d[1], org[s][w][2] + d[2]>>

\* Every window of a resident layer holds what the resident store holds
\* there: a removal reaches the store and both ways, and nothing of another
\* zone or layer survives a mount, a load or a bind of the slots.  A way that
\* an aborted refill has written into, while the layer was not yet resident,
\* is the exception: it keeps its origin over rows of another place.
WindowsExact ==
  \A s \in Slots, w \in Ways :
    Bound(s) /\ resident[bound[s]] /\ org[s][w] # NoOrg /\ ~torn[s][w] =>
      \A d \in WinCells :
        InLayer(s, w, d) \in Cells =>
          win[s][w][d] = store[bound[s]][InLayer(s, w, d)]

\* A resident layer is the mounted zone's, apart from the removed tiles.
StoreIsZones ==
  \A l \in Layers : resident[l] =>
    \A c \in Cells : store[l][c] \in {Stored(zone, l, c), NoTile}

\* No window holds a tile of another zone, layer or place, whether it was
\* copied from the resident store or inflated, as long as the mounted band
\* store is whole.
WindowsOfLayer ==
  \A s \in Slots, w \in Ways :
    Bound(s) /\ blobOk /\ org[s][w] # NoOrg /\ ~torn[s][w] =>
      \A d \in WinCells :
        InLayer(s, w, d) \in Cells =>
          win[s][w][d] \in {Stored(zone, bound[s], InLayer(s, w, d)), NoTile}

\* The two slots never show one layer twice: the fall-through of GHZ2.
SlotsBound == bound \in {[s \in Slots |-> NoLayer],
                         [s \in Slots |-> IF s = 0 THEN FGLow ELSE FGHigh]}

\* A read never pushes out the window that served the read before it, so two
\* places that are read in turn (the Player's two sensor bands) both stay
\* cached.
KeepsJustRead ==
  [][\A s \in Slots :
       org'[s] # org[s] /\ org'[s] # EmptyWays
       => org'[s][active[s]] = org[s][active[s]]]_vars

\* "the cart resident layout still holds the first load's pixels" when a
\* reload of the same zone ends: SaturnLayout_PreInflateResident.
ReloadIsPristine ==
  [][phase = "load" /\ phase' = "play" /\ blobOk =>
       \A l \in Layers : resident'[l] =>
         \A c \in Cells : store'[l][c] = Stored(zone, l, c)]_vars
==============================================================================
