------------------------- MODULE LayoutWindow_proofs --------------------------
(***************************************************************************)
(* Theorems about LayoutWindow for any zones, layers, cells, window and band *)
(* sizes.  The windows of a layer that becomes resident must already hold    *)
(* what the pre-inflate will write; that is LoadWindows, and it rests on the *)
(* order of a scene load, which is Loading.                                 *)
(***************************************************************************)
EXTENDS LayoutWindow, TLAPS

\* a zone in play has been pre-inflated; one that is loaded is either still
\* resident or has a whole band store to be inflated from
Loading ==
  /\ phase = "play" /\ zone # NoZone => resident[0]
  /\ phase = "load" => Bound(0) /\ (resident[0] \/ blobOk)
  /\ blobOk => zone # NoZone
  /\ ~resident[0] => \A l \in Layers : ~resident[l]

\* before the pre-inflate nothing has been removed from a window
LoadWindows ==
  phase = "load" /\ ~resident[0] =>
    \A s \in Slots, w \in Ways :
      Bound(s) /\ org[s][w] # NoOrg /\ ~torn[s][w] =>
        \A d \in WinCells : InLayer(s, w, d) \in Cells =>
          win[s][w][d] = Stored(zone, bound[s], InLayer(s, w, d))

IInv ==
  /\ TypeOK /\ SlotsBound /\ StoreIsZones /\ WindowsExact /\ WindowsOfLayer
  /\ Loading /\ LoadWindows

USE DEF Slots, Ways

LEMMA StoredTile ==
  /\ \A z \in Zones, l \in Layers, c \in Cells : Stored(z, l, c) \in Tiles
  /\ NoTile \in Tiles /\ Junk \in Tiles
  BY DEF Stored, Tiles

LEMMA CellsOfLayer ==
  ASSUME NEW c \in Cells
  PROVE  /\ c[1] \in Nat /\ c[2] \in Nat /\ c[1] < XSize /\ c[2] < YSize
         /\ c = <<c[1], c[2]>> /\ c # NoOrg
  BY SizeAssumption DEF Cells, NoOrg

\* the window around a probe starts inside the layer
LEMMA OriginInLayer ==
  ASSUME NEW c \in Cells
  PROVE  OriginFor(c) \in Cells
<1>1. ASSUME NEW v \in Int, NEW size \in Nat \ {0}, NEW k \in Nat \ {0}, v < size
      PROVE  Inside(v, size, k) \in 0..(size - 1)
  BY <1>1 DEF Inside
<1>2. /\ WinCols \div 4 \in Nat /\ WinRows \div 4 \in Nat
  BY SizeAssumption, SMTT(20)
<1>3. /\ c[1] - WinCols \div 4 \in Int /\ c[1] - WinCols \div 4 < XSize
      /\ c[2] - WinRows \div 4 \in Int /\ c[2] - WinRows \div 4 < YSize
  BY <1>2, CellsOfLayer, SizeAssumption
<1>4. /\ Inside(c[1] - WinCols \div 4, XSize, WinCols) \in 0..(XSize - 1)
      /\ Inside(c[2] - WinRows \div 4, YSize, WinRows) \in 0..(YSize - 1)
  BY <1>1, <1>3, SizeAssumption
<1> QED  BY <1>4 DEF OriginFor, Cells

\* where a copied tile comes from
LEMMA SourceFacts ==
  ASSUME IInv, NEW l \in Layers, NEW c \in Cells
  PROVE  /\ Source(l, c) \in Tiles
         /\ resident[l] => Source(l, c) = store[l][c]
         /\ blobOk => Source(l, c) \in {Stored(zone, l, c), NoTile}
         /\ blobOk /\ ~resident[l] => Source(l, c) = Stored(zone, l, c)
         /\ Blob(l, c) \in Tiles
<1>1. blobOk => zone \in Zones  BY DEF IInv, TypeOK, Loading
<1>2. Blob(l, c) \in Tiles  BY <1>1, StoredTile DEF Blob
<1>3. store[l][c] \in Tiles  BY DEF IInv, TypeOK
<1> QED  BY <1>1, <1>2, <1>3 DEF Source, Blob, IInv, StoreIsZones

LEMMA CopiedType ==
  ASSUME IInv, NEW s \in Slots, NEW w \in Ways, Bound(s), NEW o \in Cells, NEW rows
  PROVE  Copied(s, w, o, rows) \in [WinCells -> Tiles]
<1>1. bound[s] \in Layers  BY DEF IInv, TypeOK, Bound
<1>2. win[s][w] \in [WinCells -> Tiles]  BY DEF IInv, TypeOK
<1> QED  BY <1>1, <1>2, SourceFacts DEF Copied

\* the state of slots just bound: no way claims anything
LEMMA Unclaimed ==
  /\ EmptyWays \in [Ways -> Cells \cup {NoOrg}]
  /\ \A w \in Ways : EmptyWays[w] = NoOrg
  /\ WholeWays \in [Ways -> BOOLEAN]
  /\ UnknownTiles \in [Ways -> [WinCells -> Tiles]]
  BY StoredTile DEF EmptyWays, WholeWays, UnknownTiles

LEMMA BindFacts ==
  ASSUME BindSlots(FGLow, FGHigh)
  PROVE  /\ bound' \in [Slots -> Layers \cup {NoLayer}]
         /\ active' \in [Slots -> Ways]
         /\ org' \in [Slots -> [Ways -> Cells \cup {NoOrg}]]
         /\ win' \in [Slots -> [Ways -> [WinCells -> Tiles]]]
         /\ torn' \in [Slots -> [Ways -> BOOLEAN]]
         /\ SlotsBound' /\ bound'[0] # NoLayer
         /\ \A s \in Slots, w \in Ways : org'[s][w] = NoOrg
<1>1. FGLow # NoLayer /\ FGLow \in Layers /\ FGHigh \in Layers
  BY LayersAssumption DEF NoLayer, Layers
<1> QED  BY <1>1, Unclaimed DEF BindSlots, WaysAfterBind, SlotsBound

----------------------------------------------------------------------------
LEMMA InitIInv == Init => IInv
<1> SUFFICES ASSUME Init PROVE IInv  OBVIOUS
<1> USE DEF Init
<1>1. TypeOK  BY Unclaimed, StoredTile DEF TypeOK
<1>2. SlotsBound /\ StoreIsZones /\ Loading
  BY LayersAssumption DEF SlotsBound, StoreIsZones, Loading
<1>3. \A s \in Slots : ~Bound(s)  BY DEF Bound
<1> QED  BY <1>1, <1>2, <1>3
         DEF IInv, WindowsExact, WindowsOfLayer, LoadWindows

LEMMA LoadSceneIInv ==
  ASSUME IInv, NEW z \in Zones, LoadScene(z)
  PROVE  IInv'
<1> USE DEF LoadScene
<1>1. zone' \in Zones /\ blobOk' \in BOOLEAN /\ zone' # NoZone
  BY CellsAssumption DEF IInv, TypeOK, Mount, MountFails, storeVars
<1>2. \/ resident' = resident
      \/ resident' = [l \in Layers |-> FALSE] /\ blobOk'
  BY DEF Mount, MountFails, ResidencyAfterMount, storeVars
<1>3. store' = store  BY DEF Mount, MountFails, storeVars
<1>4. TypeOK'
  BY <1>1, <1>2, <1>3, BindFacts DEF TypeOK, IInv
<1>5. StoreIsZones'
  <2>1. CASE zone' = zone /\ resident' = resident
    BY <2>1, <1>3 DEF IInv, StoreIsZones
  <2>2. CASE resident' = [l \in Layers |-> FALSE]
    BY <2>2 DEF StoreIsZones
  <2> QED  BY <2>1, <2>2 DEF Mount, MountFails, ResidencyAfterMount, storeVars
<1>6. Loading'
  <2>1. bound'[0] # NoLayer /\ phase = "play" /\ phase' = "load"  BY BindFacts
  <2>2. 0 \in Layers  BY LayersAssumption
  <2>3. resident'[0] \/ blobOk'
    <3>1. CASE Mount(z)  BY <3>1 DEF Mount
    <3>2. CASE MountFails(z)
      BY <3>2, <2>1 DEF MountFails, IInv, Loading
    <3>3. CASE z = zone /\ UNCHANGED storeVars
      BY <3>3, <2>1, CellsAssumption DEF storeVars, IInv, Loading
    <3> QED  BY <3>1, <3>2, <3>3
  <2>4. ~resident'[0] => \A l \in Layers : ~resident'[l]
    BY <1>2, <2>2 DEF IInv, Loading
  <2> QED  BY <1>1, <2>1, <2>3, <2>4 DEF Loading, Bound
<1>7. \A s \in Slots, w \in Ways : org'[s][w] = NoOrg  BY BindFacts
<1> QED  BY <1>4, <1>5, <1>6, <1>7, BindFacts
         DEF IInv, WindowsExact, WindowsOfLayer, LoadWindows

\* slot 1 keeps its windows, and its layer may become resident: then they hold
\* what is inflated, by LoadWindows
LEMMA PreInflateIInv ==
  ASSUME IInv, PreInflate
  PROVE  IInv'
<1> USE DEF PreInflate
<1>1. 0 \in Layers /\ 0 \in Fits /\ FGLow \in Layers /\ FGLow # NoLayer
  BY LayersAssumption DEF Layers, NoLayer
<1>2. bound[0] # NoLayer /\ (resident[0] \/ blobOk)
  BY DEF IInv, Loading, Bound
<1>3. bound' = bound
  BY <1>2 DEF IInv, TypeOK, SlotsBound
<1>4. \A w \in Ways : org'[0][w] = NoOrg
  BY Unclaimed DEF IInv, TypeOK
<1>5. org'[1] = org[1] /\ win'[1] = win[1] /\ torn'[1] = torn[1]
  BY DEF IInv, TypeOK
<1>6. ~resident[0] => \A l \in Layers, c \in Cells :
        /\ Blob(l, c) = Stored(zone, l, c) /\ Blob(l, c) \in Tiles
        /\ ~resident[l]
        /\ resident'[l] <=> l \in Fits
        /\ resident'[l] => store'[l][c] = Stored(zone, l, c)
        /\ store'[l][c] \in Tiles
  BY <1>2, SourceFacts DEF IInv, TypeOK, Loading, Blob
<1>7. TypeOK'
  <2>1. resident' \in [Layers -> BOOLEAN]
    <3>1. CASE resident[0]  BY <3>1 DEF IInv, TypeOK
    <3>2. CASE ~resident[0]
      <4>1. resident' = [l \in Layers |-> l \in Fits]  BY <3>2
      <4>2. \A l \in Layers : (l \in Fits) \in BOOLEAN  OBVIOUS
      <4> QED  BY <4>1, <4>2
    <3> QED  BY <3>1, <3>2
  <2>2. store' \in [Layers -> [Cells -> Tiles]]
    <3>1. CASE resident[0]  BY <3>1 DEF IInv, TypeOK
    <3>2. CASE ~resident[0]  BY <3>2, SourceFacts DEF IInv, TypeOK
    <3> QED  BY <3>1, <3>2
  <2> QED  BY <2>1, <2>2, <1>1, Unclaimed DEF IInv, TypeOK
<1>8. SlotsBound'  BY <1>3 DEF IInv, SlotsBound
<1>9. StoreIsZones'
  <2>1. CASE resident[0]  BY <2>1 DEF IInv, StoreIsZones
  <2>2. CASE ~resident[0]  BY <2>2, <1>6 DEF StoreIsZones
  <2> QED  BY <2>1, <2>2
<1>10. WindowsExact'
  <2> SUFFICES ASSUME NEW s \in Slots, NEW w \in Ways,
                      Bound(s)', resident'[bound'[s]], org'[s][w] # NoOrg,
                      ~torn'[s][w],
                      NEW d \in WinCells, InLayer(s, w, d)' \in Cells
               PROVE  win'[s][w][d] = store'[bound'[s]][InLayer(s, w, d)']
    BY DEF WindowsExact
  <2>1. s = 1 /\ bound[s] \in Layers /\ Bound(s)
    BY <1>3, <1>4 DEF Bound, IInv, TypeOK
  <2>2. InLayer(s, w, d)' = InLayer(s, w, d)  BY <2>1, <1>5 DEF InLayer
  <2>3. CASE resident[0]
    BY <2>1, <2>2, <2>3, <1>3, <1>5 DEF IInv, WindowsExact
  <2>4. CASE ~resident[0]
    <3>1. win[s][w][d] = Stored(zone, bound[s], InLayer(s, w, d))
      BY <2>1, <2>2, <2>4, <1>5 DEF IInv, LoadWindows
    <3> QED  BY <3>1, <2>1, <2>2, <2>4, <1>3, <1>5, <1>6
  <2> QED  BY <2>3, <2>4
<1>11. WindowsOfLayer'
  <2> SUFFICES ASSUME NEW s \in Slots, NEW w \in Ways,
                      Bound(s)', blobOk', org'[s][w] # NoOrg, ~torn'[s][w],
                      NEW d \in WinCells, InLayer(s, w, d)' \in Cells
               PROVE  win'[s][w][d]
                        \in {Stored(zone, bound[s], InLayer(s, w, d)'), NoTile}
    BY <1>3 DEF WindowsOfLayer, Stored
  <2>1. s = 1 /\ Bound(s)  BY <1>3, <1>4 DEF Bound
  <2>2. InLayer(s, w, d)' = InLayer(s, w, d)  BY <2>1, <1>5 DEF InLayer
  <2> QED  BY <2>1, <2>2, <1>5 DEF IInv, WindowsOfLayer
<1>12. Loading'
  BY <1>1, <1>6 DEF IInv, Loading, TypeOK
<1> QED  BY <1>7, <1>8, <1>9, <1>10, <1>11, <1>12 DEF IInv, LoadWindows

----------------------------------------------------------------------------
(* One way of one slot changes at most: the claims about the others stand.  *)

\* what a window claims, when it claims anything
WayHolds(s, w) ==
  Bound(s) /\ org[s][w] # NoOrg /\ ~torn[s][w] =>
    \A d \in WinCells : InLayer(s, w, d) \in Cells =>
      LET c == InLayer(s, w, d) IN
      /\ resident[bound[s]] => win[s][w][d] = store[bound[s]][c]
      /\ blobOk => win[s][w][d] \in {Stored(zone, bound[s], c), NoTile}
      /\ phase = "load" /\ ~resident[0]
           => win[s][w][d] = Stored(zone, bound[s], c)

LEMMA WaysHold ==
  WindowsExact /\ WindowsOfLayer /\ LoadWindows
  <=> \A s \in Slots, w \in Ways : WayHolds(s, w)
  BY DEF WindowsExact, WindowsOfLayer, LoadWindows, WayHolds

LEMMA ReadIInv ==
  ASSUME IInv, UNCHANGED <<storeVars, bound, dirty, phase>>,
         NEW s \in Slots, NEW w \in Ways, active' = [active EXCEPT ![s] = w],
         org' \in [Slots -> [Ways -> Cells \cup {NoOrg}]],
         win' \in [Slots -> [Ways -> [WinCells -> Tiles]]],
         torn' \in [Slots -> [Ways -> BOOLEAN]],
         \A t \in Slots, v \in Ways : <<t, v>> # <<s, w>> =>
           /\ org'[t][v] = org[t][v] /\ win'[t][v] = win[t][v]
           /\ torn'[t][v] = torn[t][v],
         WayHolds(s, w)'
  PROVE  IInv'
<1> USE DEF storeVars
<1>1. TypeOK'  BY DEF IInv, TypeOK
<1>2. SlotsBound' /\ StoreIsZones' /\ Loading'
  BY DEF IInv, SlotsBound, StoreIsZones, Loading, Bound
<1>3. ASSUME NEW t \in Slots, NEW v \in Ways PROVE WayHolds(t, v)'
  <2>1. CASE <<t, v>> = <<s, w>>  BY <2>1
  <2>2. CASE <<t, v>> # <<s, w>>
    <3>1. WayHolds(t, v)  BY WaysHold DEF IInv
    <3> QED  BY <2>2, <3>1 DEF WayHolds, Bound, InLayer
  <2> QED  BY <2>1, <2>2
<1>4. (WindowsExact /\ WindowsOfLayer /\ LoadWindows)'
  BY <1>3 DEF WindowsExact, WindowsOfLayer, LoadWindows, WayHolds
<1> QED  BY <1>1, <1>2, <1>4 DEF IInv

LEMMA GetHitIInv ==
  ASSUME IInv, NEW s \in Slots, NEW w \in Ways, NEW c \in Cells, GetHit(s, w, c)
  PROVE  IInv'
<1> USE DEF GetHit
<1>1. WayHolds(s, w)  BY WaysHold DEF IInv
<1>2. WayHolds(s, w)'  BY <1>1 DEF WayHolds, Bound, InLayer, storeVars
<1> QED  BY <1>2, ReadIInv DEF IInv, TypeOK

LEMMA GetRefillIInv ==
  ASSUME IInv, NEW s \in Slots, NEW c \in Cells, GetRefill(s, c)
  PROVE  IInv'
<1>1. PICK w \in Ways : w = VictimWay(s)
  BY DEF IInv, TypeOK, VictimWay
<1> DEFINE o == OriginFor(c)
           new == Copied(s, w, o, 0..(YSize - 1))
<1>2. o \in Cells /\ Bound(s) /\ bound[s] \in Layers
  BY OriginInLayer DEF IInv, TypeOK, GetRefill, Misses, Bound
<1>3. new \in [WinCells -> Tiles]  BY <1>2, CopiedType
<1>4. \A d \in WinCells :
        LET e == <<o[1] + d[1], o[2] + d[2]>> IN
        e \in Cells => new[d] = Source(bound[s], e)
  <2> HIDE DEF o
  <2> SUFFICES ASSUME NEW d \in WinCells,
                      <<o[1] + d[1], o[2] + d[2]>> \in Cells
               PROVE  new[d] = Source(bound[s], <<o[1] + d[1], o[2] + d[2]>>)
    OBVIOUS
  <2>1. o[2] + d[2] \in 0..(YSize - 1)  BY DEF Cells
  <2> QED  BY <1>2, <2>1 DEF Copied
<1>5. /\ win' = [win EXCEPT ![s][w] = new] /\ org' = [org EXCEPT ![s][w] = o]
      /\ torn' = [torn EXCEPT ![s][w] = FALSE]
      /\ active' = [active EXCEPT ![s] = w]
      /\ UNCHANGED <<storeVars, bound, dirty, phase>>
  BY <1>1 DEF GetRefill
<1> HIDE DEF o, new
<1>6. org'[s][w] = o /\ win'[s][w] = new
  BY <1>1, <1>5 DEF IInv, TypeOK
<1>7. WayHolds(s, w)'
  <2> SUFFICES ASSUME NEW d \in WinCells, InLayer(s, w, d)' \in Cells
               PROVE  LET e == InLayer(s, w, d)' IN
                 /\ resident[bound[s]] => new[d] = store[bound[s]][e]
                 /\ blobOk => new[d] \in {Stored(zone, bound[s], e), NoTile}
                 /\ phase = "load" /\ ~resident[0]
                      => new[d] = Stored(zone, bound[s], e)
    BY <1>5, <1>6 DEF WayHolds, Stored, storeVars
  <2>1. InLayer(s, w, d)' = <<o[1] + d[1], o[2] + d[2]>>  BY <1>6 DEF InLayer
  <2>2. new[d] = Source(bound[s], InLayer(s, w, d)')  BY <2>1, <1>4
  <2>3. phase = "load" /\ ~resident[0] => blobOk /\ ~resident[bound[s]]
    BY <1>2 DEF IInv, Loading
  <2> QED  BY <1>2, <2>2, <2>3, SourceFacts
<1> QED
  <2>1. /\ org' \in [Slots -> [Ways -> Cells \cup {NoOrg}]]
        /\ win' \in [Slots -> [Ways -> [WinCells -> Tiles]]]
        /\ torn' \in [Slots -> [Ways -> BOOLEAN]]
    BY <1>1, <1>2, <1>3, <1>5 DEF IInv, TypeOK
  <2>2. \A t \in Slots, v \in Ways : <<t, v>> # <<s, w>> =>
          /\ org'[t][v] = org[t][v] /\ win'[t][v] = win[t][v]
          /\ torn'[t][v] = torn[t][v]
    BY <1>1, <1>5 DEF IInv, TypeOK
  <2> QED  BY <1>1, <1>5, <1>7, <2>1, <2>2, ReadIInv

\* the way written into is torn: it claims nothing
LEMMA GetAbortedIInv ==
  ASSUME IInv, NEW s \in Slots, NEW c \in Cells, GetAborted(s, c)
  PROVE  IInv'
<1> DEFINE o == OriginFor(c)
<1>1. PICK w \in Ways : w = VictimWay(s)
  BY DEF IInv, TypeOK, VictimWay
<1>2. PICK rows :
        /\ win' = IF org[s][w] = NoOrg THEN win
                  ELSE [win EXCEPT ![s][w] = Copied(s, w, o, rows)]
        /\ torn' = [torn EXCEPT ![s][w] = org[s][w] # NoOrg]
        /\ active' = [active EXCEPT ![s] = w]
        /\ UNCHANGED <<storeVars, bound, org, dirty, phase>>
  BY <1>1 DEF GetAborted
<1>3. Copied(s, w, o, rows) \in [WinCells -> Tiles]
  BY OriginInLayer, CopiedType DEF GetAborted, Misses
<1> HIDE DEF o
<1>4. /\ win' \in [Slots -> [Ways -> [WinCells -> Tiles]]]
      /\ torn' \in [Slots -> [Ways -> BOOLEAN]]
      /\ org' \in [Slots -> [Ways -> Cells \cup {NoOrg}]]
  BY <1>1, <1>2, <1>3 DEF IInv, TypeOK
<1>5. \A t \in Slots, v \in Ways : <<t, v>> # <<s, w>> =>
        /\ org'[t][v] = org[t][v] /\ win'[t][v] = win[t][v]
        /\ torn'[t][v] = torn[t][v]
  BY <1>1, <1>2 DEF IInv, TypeOK
<1>6. WayHolds(s, w)'
  <2>1. org'[s][w] = org[s][w] /\ (org[s][w] # NoOrg => torn'[s][w])
    BY <1>1, <1>2 DEF IInv, TypeOK
  <2> QED  BY <2>1 DEF WayHolds
<1>7. UNCHANGED <<storeVars, bound, dirty, phase>>  BY <1>2 DEF storeVars
<1> QED  BY <1>1, <1>2, <1>4, <1>5, <1>6, <1>7, ReadIInv

----------------------------------------------------------------------------
(* A removal writes the store and every window over the cell; the other slot *)
(* is bound to another layer.                                              *)

LEMMA SetTileIInv ==
  ASSUME IInv, NEW s \in Slots, NEW c \in Cells, SetTile(s, c)
  PROVE  IInv'
<1> USE DEF SetTile
<1>1. Bound(s) /\ bound[s] \in Layers  BY DEF Bound, IInv, TypeOK
<1>2. store' \in [Layers -> [Cells -> Tiles]]
  BY <1>1, StoredTile DEF IInv, TypeOK
<1>3. \A w \in Ways : WritesWay(s, w, c)
        => Offset(org[s][w], c) \in WinCells /\ org[s][w] \in Cells
  BY CellsOfLayer, SizeAssumption
     DEF WritesWay, WindowHas, WithinCol, Offset, WinCells, IInv, TypeOK, NoOrg
<1>4. \A t \in Slots \ {s} : win'[t] = win[t]
  BY DEF IInv, TypeOK
<1>5. \A w \in Ways : win'[s][w] =
        IF WritesWay(s, w, c)
          THEN [win[s][w] EXCEPT ![Offset(org[s][w], c)] = NoTile]
          ELSE win[s][w]
  BY DEF IInv, TypeOK
<1>6. win' \in [Slots -> [Ways -> [WinCells -> Tiles]]]
  BY StoredTile DEF IInv, TypeOK
<1>7. TypeOK'  BY <1>2, <1>6 DEF IInv, TypeOK
<1>8. SlotsBound' /\ Loading'
  BY DEF IInv, SlotsBound, Loading, Bound
<1>9. StoreIsZones'
  BY <1>1 DEF IInv, TypeOK, StoreIsZones, Stored
<1>10. ASSUME NEW t \in Slots, NEW w \in Ways PROVE WayHolds(t, w)'
  <2>1. WayHolds(t, w)  BY WaysHold DEF IInv
  <2>2. CASE t = s
    <3> SUFFICES ASSUME org[s][w] # NoOrg, ~torn[s][w],
                        NEW d \in WinCells, InLayer(s, w, d) \in Cells
                 PROVE  LET e == InLayer(s, w, d) IN
                   /\ resident[bound[s]] => win'[s][w][d] = store'[bound[s]][e]
                   /\ blobOk => win'[s][w][d] \in {Stored(zone, bound[s], e), NoTile}
      BY <2>2 DEF WayHolds, Stored, InLayer
    <3> DEFINE e == InLayer(s, w, d)
    <3>1. org[s][w] \in Cells  BY DEF IInv, TypeOK
    <3>2. WritesWay(s, w, c) => (d = Offset(org[s][w], c) <=> e = c)
      BY <3>1, CellsOfLayer DEF InLayer, Offset, WinCells
    <3>3. ~WritesWay(s, w, c) => e # c
      BY <3>1, CellsOfLayer, SizeAssumption
         DEF WritesWay, WindowHas, WithinCol, InLayer, WinCells
    <3>4. win'[s][w][d] = IF e = c THEN NoTile ELSE win[s][w][d]
      BY <1>3, <1>5, <3>2, <3>3 DEF IInv, TypeOK
    <3>5. resident[bound[s]] =>
            store'[bound[s]][e] = IF e = c THEN NoTile ELSE store[bound[s]][e]
      BY <1>1 DEF IInv, TypeOK
    <3> QED  BY <1>1, <2>1, <2>2, <3>4, <3>5 DEF WayHolds
  <2>3. CASE t # s
    <3>1. Bound(t) => bound[t] # bound[s]
      BY <2>3, LayersAssumption, <1>1 DEF IInv, SlotsBound, Bound, Layers
    <3>2. Bound(t) => bound[t] \in Layers /\ store'[bound[t]] = store[bound[t]]
      BY <1>1, <3>1 DEF IInv, TypeOK, Bound
    <3> QED  BY <1>4, <2>1, <2>3, <3>2 DEF WayHolds, InLayer, Bound, Stored
  <2> QED  BY <2>2, <2>3
<1>11. (WindowsExact /\ WindowsOfLayer /\ LoadWindows)'
  BY <1>10 DEF WindowsExact, WindowsOfLayer, LoadWindows, WayHolds
<1> QED  BY <1>7, <1>8, <1>9, <1>11 DEF IInv

LEMMA PresentIInv ==
  ASSUME IInv, Present
  PROVE  IInv'
<1>1. BindSlots(FGLow, FGHigh)
  BY LayersAssumption DEF Present, PresentHigh
<1>2. \A s \in Slots, w \in Ways : org'[s][w] = NoOrg  BY <1>1, BindFacts
<1>3. TypeOK' /\ Loading' /\ StoreIsZones'
  BY <1>1, BindFacts DEF Present, IInv, TypeOK, Loading, StoreIsZones, storeVars
<1> QED  BY <1>1, <1>2, <1>3, BindFacts
         DEF IInv, WindowsExact, WindowsOfLayer, LoadWindows

LEMMA NextIInv == IInv /\ [Next]_vars => IInv'
<1> SUFFICES ASSUME IInv, [Next]_vars PROVE IInv'  OBVIOUS
<1>1. CASE \E z \in Zones : LoadScene(z)  BY <1>1, LoadSceneIInv
<1>2. CASE PreInflate  BY <1>2, PreInflateIInv
<1>3. CASE Present  BY <1>3, PresentIInv
<1>4. ASSUME NEW s \in Slots, NEW c \in Probes,
             \/ GetRefill(s, c) \/ GetAborted(s, c)
             \/ \E w \in Ways : GetHit(s, w, c)
      PROVE  IInv'
  BY <1>4, CellsAssumption, GetRefillIInv, GetAbortedIInv, GetHitIInv
<1>5. ASSUME NEW s \in Slots, NEW c \in Breakable, SetTile(s, c)
      PROVE  IInv'
  BY <1>5, CellsAssumption, SetTileIInv
<1>6. CASE UNCHANGED vars
  BY <1>6 DEF vars, IInv, TypeOK, SlotsBound, StoreIsZones, WindowsExact,
              WindowsOfLayer, Loading, LoadWindows, Bound, InLayer
<1> QED  BY <1>1, <1>2, <1>3, <1>4, <1>5, <1>6 DEF Next

LEMMA Invariance == Spec => []IInv
  BY InitIInv, NextIInv, PTL DEF Spec

----------------------------------------------------------------------------
\* The state stays within its types: an origin is in the layer, a slot is on
\* a layer of the scene or on none.
THEOREM TypeCorrect == Spec => []TypeOK
  BY Invariance, PTL DEF IInv

\* FG Low and FG High are never bound to one layer, through every load,
\* self-check and present, because the present's layer order is the loader's.
THEOREM SlotsOnTheirLayers == Spec => []SlotsBound
  BY Invariance, PTL DEF IInv

\* What is resident is always the mounted zone's: a mount drops it, a failed
\* mount keeps both.
THEOREM ResidentIsMounted == Spec => []StoreIsZones
  BY Invariance, PTL DEF IInv

\* A removal is seen by every window of a resident layer, and by the store.
THEOREM WindowsMatchStore == Spec => []WindowsExact
  BY Invariance, PTL DEF IInv

\* With a whole band store, no window shows a tile of another zone, layer or
\* place.
THEOREM WindowsOnTheirLayer == Spec => []WindowsOfLayer
  BY Invariance, PTL DEF IInv

\* The window of the last read survives the next one, for any two places.
THEOREM LastReadStays == Spec => KeepsJustRead
<1> DEFINE Keeps == \A s \in Slots :
      org'[s] # org[s] /\ org'[s] # EmptyWays
      => org'[s][active[s]] = org[s][active[s]]
<1>1. TypeOK /\ [Next]_vars => [Keeps]_vars
  <2> SUFFICES ASSUME TypeOK, Next, NEW s \in Slots,
                      org'[s] # org[s], org'[s] # EmptyWays
               PROVE  org'[s][active[s]] = org[s][active[s]]
    BY DEF vars
  <2>1. ASSUME NEW t \in Slots, NEW c \in Probes, GetRefill(t, c)
        PROVE  org'[s][active[s]] = org[s][active[s]]
    <3>1. s = t  BY <2>1 DEF GetRefill, TypeOK
    <3>2. active[s] \in Ways /\ 1 - active[s] # active[s]  BY DEF TypeOK
    <3> QED  BY <2>1, <3>1, <3>2 DEF GetRefill, VictimWay, TypeOK
  <2>2. ASSUME \/ \E z \in Zones : LoadScene(z)
               \/ Present
        PROVE  org'[s] = EmptyWays
    BY <2>2 DEF LoadScene, Present, BindSlots, WaysAfterBind
  <2>3. ASSUME PreInflate PROVE org'[s] = org[s] \/ org'[s] = EmptyWays
    BY <2>3 DEF PreInflate, TypeOK
  <2>4. ASSUME NEW t \in Slots, NEW c,
               \/ GetAborted(t, c) \/ SetTile(t, c)
               \/ \E w \in Ways : GetHit(t, w, c)
        PROVE  org' = org
    BY <2>4 DEF GetAborted, SetTile, GetHit
  <2> QED  BY <2>1, <2>2, <2>3, <2>4 DEF Next
<1>2. Spec => []TypeOK /\ [][Next]_vars  BY TypeCorrect DEF Spec
<1> QED  BY <1>1, <1>2, PTL DEF KeepsJustRead
==============================================================================
