-------------------------- MODULE SpriteSlots_proofs --------------------------
(***************************************************************************)
(* Proofs about SpriteSlots, for every table of slots, rectangles, sheets   *)
(* and buckets.                                                            *)
(***************************************************************************)
EXTENDS SpriteSlots, FiniteSetTheorems, SequenceTheorems, TLAPS

-----------------------------------------------------------------------------
(* Types.                                                                  *)

\* The pending miss exists exactly while it is being staged.
ReqInv == pc \in {"gate", "memo", "write"} => req \in Requests

LEMMA KeyTyped ==
  ASSUME NEW k \in Keys
  PROVE  k[1] \in Handles /\ k[2] \in Rects /\ BucketOf[k[2]] \in Buckets
         /\ k # NoKey
BY RoutingAssumption DEF Keys, NoKey, Handles

LEMMA TexelsTyped ==
  ASSUME NEW k \in Keys, sheetOf \in Seq(Sheets), k[1] <= Len(sheetOf)
  PROVE  TexelsOf(k) \in Texels
<1>1. k[1] \in 1..Len(sheetOf) /\ k[2] \in Rects
  BY KeyTyped DEF Handles
<1> QED BY <1>1 DEF TexelsOf, Texels

LEMMA EmittedTyped ==
  ASSUME TypeOK, NEW s \in Slots, NEW w \in Texels
  PROVE  Emitted(s, w) \in [Halves -> Seq(Commands)]
<1> DEFINE c == [slot |-> s, want |-> w]
<1>1. c \in Commands
  BY DEF Commands
<1>2. lists[half] \in Seq(Commands) /\ half \in Halves
  BY DEF TypeOK
<1>3. Append(lists[half], c) \in Seq(Commands)
  BY <1>1, <1>2, AppendProperties
<1> HIDE DEF c
<1>4. [lists EXCEPT ![half] = Append(@, c)] \in [Halves -> Seq(Commands)]
  BY <1>2, <1>3 DEF TypeOK
<1> QED BY <1>4 DEF TypeOK, Emitted, c

\* the bound on a pending request's handle that keeps its texels defined
ReqBound == pc \in {"gate", "memo", "write"} => req.key[1] <= Len(sheetOf)

TInv == TypeOK /\ ReqInv /\ ReqBound

LEMMA TInvInit == Init => TInv
<1> SUFFICES ASSUME Init PROVE TInv
  OBVIOUS
<1> USE SizesAssumption DEF Init
<1>1. sheetOf \in Seq(Sheets) /\ Len(sheetOf) <= NSheets
  BY EmptySeq
<1>2. lists \in [Halves -> Seq(Commands)]
  BY EmptySeq
<1>3. asked \in [Halves -> SUBSET Keys]
  OBVIOUS
<1>4. key \in [Slots -> Keys \cup {NoKey}] /\ stamp \in [Slots -> Nat]
  OBVIOUS
<1>5. vram \in [Slots -> Texels \cup {Garbage}]
  OBVIOUS
<1>6. vdp1 \in [busy : BOOLEAN, half : Halves, pos : Nat \ {0}]
  BY DEF Halves
<1> QED
  BY <1>1, <1>2, <1>3, <1>4, <1>5, <1>6
     DEF TInv, TypeOK, ReqInv, ReqBound, Phases, Building, Halves

LEMMA TInvNext == TInv /\ [Next]_vars => TInv'
<1> SUFFICES ASSUME TInv, [Next]_vars PROVE TInv'
  OBVIOUS
<1> USE SizesAssumption, FlagsAssumption DEF TInv, TypeOK, ReqInv, ReqBound
<1>1. CASE UNCHANGED vars
  BY <1>1 DEF vars
<1>2. ASSUME NEW sh \in Sheets, SheetBind(sh) PROVE TInv'
  BY <1>2 DEF SheetBind
<1>3. CASE PalReset
  BY <1>3 DEF PalReset, KeysAfterReset
<1>4. CASE LoadFrame
  BY <1>4 DEF LoadFrame, cpuVars, Phases, Building
<1>5. CASE ListBegin
  BY <1>5 DEF ListBegin, Phases, Building
<1>6. ASSUME NEW k \in Keys, NEW s \in Slots, BlitHit(k, s) PROVE TInv'
  <2>1. TexelsOf(k) \in Texels
    BY <1>6, TexelsTyped DEF BlitHit, CanDraw
  <2>2. lists' \in [Halves -> Seq(Commands)]
    BY <1>6, <2>1, EmittedTyped DEF BlitHit
  <2>3. asked' \in [Halves -> SUBSET Keys]
    BY <1>6 DEF BlitHit, AskFor
  <2>4. useclock' \in Nat /\ stamp' \in [Slots -> Nat]
    BY <1>6 DEF BlitHit
  <2> QED BY <1>6, <2>2, <2>3, <2>4 DEF BlitHit, CanDraw
<1>7. ASSUME NEW k \in Keys, NEW s \in Slots, BlitMiss(k, s) PROVE TInv'
  BY <1>7 DEF BlitMiss, AskFor, CanDraw, Requests, Phases, Building
<1>8. CASE GateMemoised
  BY <1>8 DEF GateMemoised, StartWrite, cpuVars, Phases, Building, Requests
<1>9. CASE GateReadIdle
  BY <1>9 DEF GateReadIdle, cpuVars, Phases, Building
<1>10. CASE GateMemoise
  BY <1>10 DEF GateMemoise, StartWrite, cpuVars, Phases, Building, Requests
<1>11. CASE GateTimeout
  BY <1>11 DEF GateTimeout, StartWrite, cpuVars, Phases, Building, Requests
<1>12. CASE RestageDone
  <2>1. req.key \in Keys /\ req.slot \in Slots
    BY <1>12 DEF RestageDone, Requests
  <2>2. TexelsOf(req.key) \in Texels
    BY <1>12, <2>1, TexelsTyped DEF RestageDone
  <2>3. lists' \in [Halves -> Seq(Commands)]
    BY <1>12, <2>1, <2>2, EmittedTyped DEF RestageDone
  <2> QED BY <1>12, <2>1, <2>2, <2>3 DEF RestageDone, Phases, Building
<1>13. CASE ListEnd
  BY <1>13 DEF ListEnd, Published, NextHalf, Halves, Phases, Building
<1>14. CASE SwapWaitDone
  BY <1>14 DEF SwapWaitDone, cpuVars, Phases, Building
<1>15. CASE SwapWaitSkipped
  BY <1>15 DEF SwapWaitSkipped, cpuVars, Phases, Building
<1>16. CASE VBlank
  <2>1. vdp1' \in [busy : BOOLEAN, half : Halves, pos : Nat \ {0}]
        /\ forced' \in SUBSET Slots
    <3>1. CASE RestartVdp1 /\ link = NoHalf
      BY <3>1 DEF RestartVdp1
    <3>2. CASE RestartVdp1 /\ link # NoHalf
      BY <3>2 DEF RestartVdp1
    <3>3. CASE UNCHANGED <<vdp1, forced>>
      BY <3>3
    <3> QED BY <1>16, <3>1, <3>2, <3>3 DEF VBlank
  <2> QED
    BY <1>16, <2>1 DEF VBlank, MemoAfterVBlank, cpuVars, Phases, Building
<1>17. CASE Rasterise
  <2>1. vdp1.pos + 1 \in Nat \ {0}
    OBVIOUS
  <2>2. vdp1' = [vdp1 EXCEPT !.pos = vdp1.pos + 1]
    BY <1>17 DEF Rasterise
  <2>3. vdp1' \in [busy : BOOLEAN, half : Halves, pos : Nat \ {0}]
    BY <2>1, <2>2
  <2> QED BY <1>17, <2>3 DEF Rasterise, cpuVars
<1>18. CASE DrawEnd
  BY <1>18 DEF DrawEnd, cpuVars
<1> QED
  BY <1>1, <1>2, <1>3, <1>4, <1>5, <1>6, <1>7, <1>8, <1>9, <1>10, <1>11,
     <1>12, <1>13, <1>14, <1>15, <1>16, <1>17, <1>18
     DEF Next, Seam, Draw, Gate, FrameEnd

\* Type correctness of every reachable state.
THEOREM TypeCorrect == Spec => []TypeOK
<1>1. TInv => TypeOK BY DEF TInv
<1> QED BY <1>1, TInvInit, TInvNext, PTL DEF Spec

-----------------------------------------------------------------------------
(* The cache: keys and texels agree.                                       *)

\* a pending miss really is one, and its victim is of the right bucket
MissInv ==
  pc \in {"gate", "memo", "write"} =>
    /\ SlotBucket[req.slot] = BucketOf[req.key[2]]
    /\ \A s \in Slots : ~Holds(s, req.key)

CInv == TInv /\ SlotCoherent /\ KeysUnique /\ MissInv

\* steps that touch neither the bindings nor the slots nor the request
LEMMA CacheFrame ==
  ASSUME CInv, UNCHANGED <<sheetOf, key, vram, req>>,
         pc' = pc \/ (pc \in {"gate"} /\ pc' \in {"memo"})
                  \/ (pc \notin {"gate", "memo", "write"}
                      /\ pc' \notin {"gate", "memo", "write"})
  PROVE  SlotCoherent' /\ KeysUnique' /\ MissInv'
BY DEF CInv, SlotCoherent, KeysUnique, MissInv, Holds, TexelsOf

\* the first longword of a restage spoils the victim's texels only
LEMMA CacheStartWrite ==
  ASSUME CInv, UNCHANGED cpuVars, StartWrite, pc \in {"gate", "memo"}
  PROVE  SlotCoherent' /\ KeysUnique' /\ MissInv'
<1> USE DEF CInv, cpuVars, StartWrite
<1>1. KeysUnique' /\ MissInv'
  BY DEF KeysUnique, MissInv, Holds
<1>2. \A s \in Slots : s # req.slot => vram'[s] = vram[s]
  BY DEF TInv, TypeOK
<1>3. SlotCoherent'
  BY <1>2 DEF SlotCoherent, TexelsOf
<1> QED BY <1>1, <1>3

LEMMA CInvInit == Init => CInv
<1> SUFFICES ASSUME Init PROVE CInv
  OBVIOUS
<1>1. TInv
  BY TInvInit
<1> QED
  BY <1>1 DEF CInv, Init, SlotCoherent, KeysUnique, MissInv

LEMMA CInvNext == CInv /\ [Next]_vars => CInv'
<1> SUFFICES ASSUME CInv, [Next]_vars PROVE CInv'
  OBVIOUS
<1>0. TInv'
  BY TInvNext DEF CInv
<1>a. SlotCoherent' /\ KeysUnique' /\ MissInv'
  <2>1. CASE UNCHANGED vars
    BY <2>1, CacheFrame DEF vars
  <2>2. ASSUME NEW sh \in Sheets, SheetBind(sh)
        PROVE SlotCoherent' /\ KeysUnique' /\ MissInv'
    <3>1. sheetOf \in Seq(Sheets) /\ Len(sheetOf) \in Nat
      BY LenProperties DEF CInv, TInv, TypeOK
    <3>2. /\ Len(sheetOf') = Len(sheetOf) + 1
          /\ \A i \in 1..Len(sheetOf) : sheetOf'[i] = sheetOf[i]
      BY <2>2, <3>1, AppendProperties DEF SheetBind
    <3>3. pc = "idle" /\ UNCHANGED <<key, vram, pc, req>>
      BY <2>2 DEF SheetBind
    <3>4. ASSUME NEW s \in Slots, key[s] # NoKey
          PROVE  key[s][1] <= Len(sheetOf') /\ TexelsOf(key[s])' = TexelsOf(key[s])
      <4>1. key[s] \in Keys
        BY <3>4 DEF CInv, TInv, TypeOK
      <4>2. key[s][1] \in 1..Len(sheetOf)
        BY <3>1, <3>3, <3>4, <4>1, KeyTyped DEF CInv, SlotCoherent, Handles
      <4> QED BY <3>1, <3>2, <3>3, <4>2 DEF TexelsOf
    <3>5. SlotCoherent'
      BY <3>3, <3>4 DEF CInv, SlotCoherent
    <3> QED BY <3>3, <3>5 DEF CInv, KeysUnique, MissInv
  <2>3. CASE PalReset
    BY <2>3 DEF PalReset, KeysAfterReset, SlotCoherent, KeysUnique, MissInv
  <2>4. CASE LoadFrame
    BY <2>4, CacheFrame DEF LoadFrame, cpuVars
  <2>5. CASE ListBegin
    BY <2>5, CacheFrame DEF ListBegin
  <2>6. ASSUME NEW k \in Keys, NEW s \in Slots, BlitHit(k, s)
        PROVE SlotCoherent' /\ KeysUnique' /\ MissInv'
    BY <2>6, CacheFrame DEF BlitHit
  <2>7. ASSUME NEW k \in Keys, NEW s \in Slots, BlitMiss(k, s)
        PROVE SlotCoherent' /\ KeysUnique' /\ MissInv'
    BY <2>7 DEF BlitMiss, CanDraw, Victim, CInv, SlotCoherent, KeysUnique,
                MissInv, Holds, TexelsOf
  <2>8. CASE GateMemoised
    BY <2>8, CacheStartWrite DEF GateMemoised
  <2>9. CASE GateReadIdle
    BY <2>9, CacheFrame DEF GateReadIdle, cpuVars
  <2>10. CASE GateMemoise
    BY <2>10, CacheStartWrite DEF GateMemoise
  <2>11. CASE GateTimeout
    BY <2>11, CacheStartWrite DEF GateTimeout
  <2>12. CASE RestageDone
    <3>1. req.key \in Keys /\ req.slot \in Slots /\ req.key[1] <= Len(sheetOf)
      BY <2>12 DEF RestageDone, CInv, TInv, ReqInv, ReqBound, Requests
    <3>2. /\ key' = [key EXCEPT ![req.slot] = req.key]
          /\ vram' = [vram EXCEPT ![req.slot] = TexelsOf(req.key)]
          /\ pc = "write" /\ pc' = "draw" /\ sheetOf' = sheetOf
      BY <2>12 DEF RestageDone
    <3>3. key'[req.slot] = req.key /\ vram'[req.slot] = TexelsOf(req.key)
      BY <3>1, <3>2 DEF CInv, TInv, TypeOK
    <3>4. \A s \in Slots : s # req.slot => key'[s] = key[s] /\ vram'[s] = vram[s]
      BY <3>1, <3>2 DEF CInv, TInv, TypeOK
    <3>5. SlotBucket[req.slot] = BucketOf[req.key[2]]
          /\ \A s \in Slots : ~Holds(s, req.key)
      BY <3>2 DEF CInv, MissInv
    <3>6. SlotCoherent'
      BY <3>1, <3>2, <3>3, <3>4, <3>5 DEF CInv, SlotCoherent, TexelsOf
    <3>7. \A s \in Slots : s # req.slot => key[s] # req.key
      BY <3>1, <3>2, <3>5, KeyTyped DEF CInv, SlotCoherent, Holds
    <3>8. KeysUnique'
      BY <3>3, <3>4, <3>7 DEF CInv, KeysUnique
    <3> QED BY <3>2, <3>6, <3>8 DEF MissInv
  <2>13. CASE ListEnd
    BY <2>13, CacheFrame DEF ListEnd
  <2>14. CASE SwapWaitDone
    BY <2>14, CacheFrame DEF SwapWaitDone, cpuVars
  <2>15. CASE SwapWaitSkipped
    BY <2>15, CacheFrame DEF SwapWaitSkipped, cpuVars
  <2>16. CASE VBlank
    BY <2>16, CacheFrame DEF VBlank, cpuVars
  <2>17. CASE Rasterise
    BY <2>17, CacheFrame DEF Rasterise, cpuVars
  <2>18. CASE DrawEnd
    BY <2>18, CacheFrame DEF DrawEnd, cpuVars
  <2> QED
    BY <2>1, <2>2, <2>3, <2>4, <2>5, <2>6, <2>7, <2>8, <2>9, <2>10, <2>11,
       <2>12, <2>13, <2>14, <2>15, <2>16, <2>17, <2>18
       DEF Next, Seam, Draw, Gate, FrameEnd
<1> QED BY <1>0, <1>a DEF CInv

\* Every slot filed under a key holds that key's texels, whatever seams,
\* evictions and vblanks happened before.
THEOREM CacheCoherent == Spec => []SlotCoherent
<1>1. CInv => SlotCoherent BY DEF CInv
<1> QED BY <1>1, CInvInit, CInvNext, PTL DEF Spec

\* No rectangle of a handle is staged twice.
THEOREM CacheUnique == Spec => []KeysUnique
<1>1. CInv => KeysUnique BY DEF CInv
<1> QED BY <1>1, CInvInit, CInvNext, PTL DEF Spec

-----------------------------------------------------------------------------
(* The capacity theorem: a frame whose demand fits its buckets never        *)
(* restages a slot that it already drew from.  LRU is what makes it true:   *)
(* the slots drawn from in this frame carry the stamps above frameStart.    *)

StampInv ==
  /\ \A s \in Slots : stamp[s] <= useclock
  /\ pc \in Building =>
       /\ frameStart <= useclock
       /\ \A s \in Slots : stamp[s] > frameStart => key[s] \in asked[half]

VictimInv ==
  pc \in {"gate", "memo", "write"} =>
    /\ req.key \in asked[half]
    /\ Fits(half) => stamp[req.slot] <= frameStart

FreshInv ==
  pc \in Building /\ Fits(half) =>
    \A i \in DOMAIN lists[half] :
      stamp[lists[half][i].slot] > frameStart /\ Intact(half, i)

LInv == CInv /\ StampInv /\ VictimInv /\ FreshInv

LEMMA KeysFinite ==
  /\ IsFiniteSet(Keys)
  /\ \A A \in SUBSET Keys : IsFiniteSet(A)
  /\ \A b : IsFiniteSet(SlotsOf(b))
<1>1. IsFiniteSet(Keys)
  <2>1. NSheets \in Int /\ 1 \in Int
    BY SizesAssumption
  <2>2. IsFiniteSet(Handles)
    BY <2>1, FS_Interval DEF Handles
  <2>3. IsFiniteSet(Handles \X Rects)
    BY <2>2, RoutingAssumption, FS_Product
  <2> QED BY <2>3 DEF Keys
<1>2. \A A \in SUBSET Keys : IsFiniteSet(A)
  BY <1>1, FS_Subset
<1>3. \A b : IsFiniteSet(SlotsOf(b))
  BY RoutingAssumption, FS_Subset DEF SlotsOf
<1> QED BY <1>1, <1>2, <1>3

\* a list that fits after more keys were asked for fitted before
LEMMA FitsBefore ==
  ASSUME TypeOK, TypeOK', half' = half, asked[half] \subseteq asked'[half],
         Fits(half)'
  PROVE  Fits(half)
<1> SUFFICES ASSUME NEW b \in Buckets
             PROVE  Cardinality(Demand(half, b)) <= Cardinality(SlotsOf(b))
  BY DEF Fits
<1>1. Demand(half, b)' \in SUBSET Keys /\ Demand(half, b) \subseteq Demand(half, b)'
  BY DEF Demand, TypeOK
<1>2. IsFiniteSet(Demand(half, b)') /\ IsFiniteSet(Demand(half, b))
      /\ IsFiniteSet(SlotsOf(b))
  BY <1>1, KeysFinite, FS_Subset
<1>3. Cardinality(Demand(half, b)) <= Cardinality(Demand(half, b)')
  BY <1>1, <1>2, FS_Subset
<1>4. Cardinality(Demand(half, b)') <= Cardinality(SlotsOf(b))
  BY DEF Fits
<1> QED BY <1>2, <1>3, <1>4, FS_CardinalityType

\* pigeonhole: if the victim was used in this frame, every slot of its bucket
\* was, by a different key, and the missing key is one too many
LEMMA VictimIsOld ==
  ASSUME CInv, StampInv, NEW k \in Keys, NEW v \in Slots, BlitMiss(k, v),
         TypeOK', Fits(half)'
  PROVE  stamp[v] <= frameStart
<1> DEFINE b == BucketOf[k[2]]
           D == {q \in asked[half] \cup {k} : BucketOf[q[2]] = b}
           f == [s \in SlotsOf(b) |-> key[s]]
<1> SUFFICES ASSUME stamp[v] > frameStart PROVE FALSE
  BY DEF CInv, TInv, TypeOK
<1>1. pc = "draw" /\ half' = half /\ asked' = [asked EXCEPT ![half] = @ \cup {k}]
      /\ Victim(v, b) /\ \A s \in Slots : ~Holds(s, k)
  BY DEF BlitMiss, CanDraw, AskFor
<1>2. b \in Buckets
  BY KeyTyped
<1>3. ASSUME NEW s \in SlotsOf(b) PROVE key[s] \in D \ {k}
  <2>1. s \in Slots /\ SlotBucket[s] = b
    BY DEF SlotsOf
  <2>2. stamp[s] > frameStart
    <3>1. stamp[v] < stamp[s] \/ stamp[v] = stamp[s]
      BY <1>1 DEF Victim
    <3>2. stamp[v] \in Nat /\ stamp[s] \in Nat /\ frameStart \in Nat
      BY <2>1 DEF CInv, TInv, TypeOK
    <3> QED BY <3>1, <3>2
  <2>3. key[s] \in asked[half]
    BY <1>1, <2>1, <2>2 DEF StampInv, Building
  <2>4. key[s] \in Keys
    BY <2>3 DEF CInv, TInv, TypeOK
  <2>5. BucketOf[key[s][2]] = b
    BY <1>1, <2>1, <2>4, KeyTyped DEF CInv, SlotCoherent
  <2>6. key[s] # k
    BY <1>1, <2>1 DEF Holds
  <2> QED BY <2>3, <2>5, <2>6
<1>4. asked[half] \in SUBSET Keys /\ half \in Halves
  BY DEF CInv, TInv, TypeOK
<1>5. IsFiniteSet(D) /\ IsFiniteSet(D \ {k}) /\ IsFiniteSet(SlotsOf(b))
  BY <1>4, KeysFinite, FS_RemoveElement
<1>6. Demand(half, b)' = D
  BY <1>1, <1>4 DEF Demand, CInv, TInv, TypeOK
<1>7. Cardinality(D) <= Cardinality(SlotsOf(b))
  BY <1>2, <1>6 DEF Fits
<1>8. k \in D
  OBVIOUS
<1> HIDE DEF D, b
<1>9. Cardinality(D \ {k}) < Cardinality(SlotsOf(b))
  BY <1>5, <1>7, <1>8, FS_RemoveElement, FS_CardinalityType
<1>10. f \in [SlotsOf(b) -> D \ {k}]
  BY <1>3
<1>11. PICK x, y \in SlotsOf(b) : x # y /\ f[x] = f[y]
  <2> HIDE DEF f
  <2> QED BY <1>5, <1>9, <1>10, FS_PigeonHole
<1>12. key[x] = key[y] /\ key[x] \in Keys /\ x \in Slots /\ y \in Slots
  BY <1>3, <1>4, <1>11 DEF D, SlotsOf
<1> QED BY <1>11, <1>12, KeyTyped DEF CInv, KeysUnique

\* a command appended to the half being built
LEMMA EmittedRead ==
  ASSUME TypeOK, NEW s \in Slots, NEW w \in Texels, NEW i \in DOMAIN Emitted(s, w)[half]
  PROVE  \/ i \in DOMAIN lists[half] /\ Emitted(s, w)[half][i] = lists[half][i]
         \/ Emitted(s, w)[half][i] = [slot |-> s, want |-> w]
<1> DEFINE c == [slot |-> s, want |-> w]
           L == lists[half]
<1>1. L \in Seq(Commands) /\ c \in Commands /\ half \in Halves
  BY DEF TypeOK, Commands
<1>2. CASE Len(L) < DLMax
  <2>1. Emitted(s, w)[half] = Append(L, c)
    BY <1>1, <1>2 DEF Emitted, TypeOK
  <2>2. i \in 1..(Len(L) + 1) /\ DOMAIN L = 1..Len(L) /\ Len(L) \in Nat
    BY <1>1, <2>1, AppendProperties, LenProperties
  <2>3. CASE i \in 1..Len(L)
    BY <1>1, <2>1, <2>2, <2>3, AppendProperties
  <2>4. CASE i = Len(L) + 1
    BY <1>1, <2>1, <2>4, AppendProperties
  <2> QED BY <2>2, <2>3, <2>4
<1>3. CASE ~(Len(L) < DLMax)
  BY <1>3 DEF Emitted
<1> QED BY <1>2, <1>3

\* a command of a list, typed
LEMMA CommandTyped ==
  ASSUME TypeOK, NEW h \in Halves, NEW i \in DOMAIN lists[h]
  PROVE  lists[h][i].slot \in Slots /\ lists[h][i].want \in Texels
<1>1. lists[h] \in Seq(Commands)
  BY DEF TypeOK
<1>2. lists[h][i] \in Commands
  BY <1>1, LenProperties, ElementOfSeq
<1> QED BY <1>2 DEF Commands

\* steps that leave the cache and the lists alone
LEMMA ListFrame ==
  ASSUME LInv, UNCHANGED <<key, stamp, useclock, vram, lists, half, req, asked,
                           frameStart>>,
         pc' = pc \/ (pc = "gate" /\ pc' = "memo")
                  \/ (pc \notin Building /\ pc' \notin Building)
  PROVE  StampInv' /\ VictimInv' /\ FreshInv'
BY DEF LInv, StampInv, VictimInv, FreshInv, Fits, Demand, Intact, Building

\* a restage spoils no slot that the list under construction refers to
LEMMA ListStartWrite ==
  ASSUME LInv, UNCHANGED <<cpuVars, lists>>, StartWrite, pc \in {"gate", "memo"}
  PROVE  StampInv' /\ VictimInv' /\ FreshInv'
<1> USE DEF cpuVars, StartWrite, Building
<1>1. StampInv' /\ VictimInv'
  BY DEF LInv, StampInv, VictimInv, Fits, Demand
<1>2. FreshInv'
  <2> SUFFICES ASSUME Fits(half), NEW i \in DOMAIN lists[half]
               PROVE  stamp[lists[half][i].slot] > frameStart
                      /\ vram'[lists[half][i].slot] = lists[half][i].want
    BY DEF FreshInv, Fits, Demand, Intact
  <2>1. stamp[lists[half][i].slot] > frameStart /\ Intact(half, i)
    BY DEF LInv, FreshInv
  <2>2. stamp[req.slot] <= frameStart
    BY DEF LInv, VictimInv
  <2>3. lists[half][i].slot \in Slots /\ req.slot \in Slots
    BY CommandTyped DEF LInv, CInv, TInv, TypeOK, ReqInv, Requests
  <2>4. stamp[lists[half][i].slot] \in Nat /\ stamp[req.slot] \in Nat
        /\ frameStart \in Nat
    BY <2>3 DEF LInv, CInv, TInv, TypeOK
  <2>5. lists[half][i].slot # req.slot
    BY <2>1, <2>2, <2>4
  <2> QED BY <2>1, <2>3, <2>5 DEF Intact, LInv, CInv, TInv, TypeOK
<1> QED BY <1>1, <1>2

LEMMA LInvInit == Init => LInv
<1> SUFFICES ASSUME Init PROVE LInv
  OBVIOUS
<1>1. CInv
  BY CInvInit
<1> QED
  BY <1>1 DEF LInv, StampInv, VictimInv, FreshInv, Init, Building

LEMMA LInvNext == LInv /\ [Next]_vars => LInv'
<1> SUFFICES ASSUME LInv, [Next]_vars PROVE LInv'
  OBVIOUS
<1>0. CInv' /\ TypeOK /\ TypeOK'
  BY CInvNext DEF LInv, CInv, TInv
<1>a. StampInv' /\ VictimInv' /\ FreshInv'
  <2>1. CASE UNCHANGED vars
    BY <2>1, ListFrame DEF vars
  <2>2. ASSUME NEW sh \in Sheets, SheetBind(sh)
        PROVE StampInv' /\ VictimInv' /\ FreshInv'
    BY <2>2, ListFrame DEF SheetBind, Building
  <2>3. CASE PalReset
    BY <2>3 DEF PalReset, StampInv, VictimInv, FreshInv, Building
  <2>4. CASE LoadFrame
    BY <2>4, ListFrame DEF LoadFrame, cpuVars, Building
  <2>5. CASE ListBegin
    <3>1. \A s \in Slots : stamp[s] <= useclock /\ stamp[s] \in Nat
      BY <1>0 DEF LInv, StampInv, TypeOK
    <3>2. lists'[half'] = <<>> /\ useclock \in Nat
      BY <1>0, <2>5 DEF ListBegin, TypeOK
    <3> QED
      BY <2>5, <3>1, <3>2 DEF ListBegin, StampInv, VictimInv, FreshInv, Building
  <2>6. ASSUME NEW k \in Keys, NEW s \in Slots, BlitHit(k, s)
        PROVE StampInv' /\ VictimInv' /\ FreshInv'
    <3> DEFINE w == TexelsOf(k)
    <3>1. /\ pc = "draw" /\ pc' = "draw" /\ key[s] = k /\ k # NoKey
          /\ useclock' = useclock + 1
          /\ stamp' = [stamp EXCEPT ![s] = useclock + 1]
          /\ lists' = Emitted(s, w)
          /\ asked' = [asked EXCEPT ![half] = @ \cup {k}]
          /\ UNCHANGED <<key, vram, half, frameStart, sheetOf>>
      BY <2>6, KeyTyped DEF BlitHit, CanDraw, AskFor, Holds
    <3>2. w \in Texels /\ vram[s] = w
      BY <1>0, <2>6, <3>1, TexelsTyped
         DEF BlitHit, CanDraw, LInv, CInv, SlotCoherent, TypeOK
    <3>3. asked'[half] = asked[half] \cup {k}
      BY <1>0, <3>1 DEF TypeOK
    <3>4. /\ frameStart <= useclock /\ frameStart \in Nat /\ useclock \in Nat
          /\ stamp'[s] = useclock + 1
          /\ \A t \in Slots : t # s => stamp'[t] = stamp[t]
          /\ \A t \in Slots : stamp[t] \in Nat /\ stamp[t] <= useclock
          /\ \A t \in Slots : stamp[t] > frameStart => key[t] \in asked[half]
      BY <1>0, <3>1 DEF TypeOK, LInv, StampInv, Building
    <3>5. StampInv'
      BY <3>1, <3>3, <3>4 DEF StampInv
    <3>6. FreshInv'
      <4> SUFFICES ASSUME Fits(half)', NEW i \in DOMAIN lists'[half]
                   PROVE  stamp'[lists'[half][i].slot] > frameStart
                          /\ vram[lists'[half][i].slot] = lists'[half][i].want
        BY <3>1 DEF FreshInv, Intact
      <4>1. Fits(half)
        BY <1>0, <3>1, <3>3, FitsBefore
      <4>2. CASE i \in DOMAIN lists[half] /\ lists'[half][i] = lists[half][i]
        <5>1. stamp[lists[half][i].slot] > frameStart /\ Intact(half, i)
          BY <3>1, <4>1, <4>2 DEF LInv, FreshInv, Building
        <5>2. lists[half][i].slot \in Slots
          BY <1>0, <4>2, CommandTyped DEF TypeOK
        <5> QED BY <3>4, <4>2, <5>1, <5>2 DEF Intact
      <4>3. CASE lists'[half][i] = [slot |-> s, want |-> w]
        BY <3>2, <3>4, <4>3
      <4> HIDE DEF w
      <4> QED BY <1>0, <3>1, <3>2, <4>2, <4>3, EmittedRead
    <3> QED BY <3>1, <3>5, <3>6 DEF VictimInv
  <2>7. ASSUME NEW k \in Keys, NEW v \in Slots, BlitMiss(k, v)
        PROVE StampInv' /\ VictimInv' /\ FreshInv'
    <3>1. /\ pc = "draw" /\ pc' = "gate" /\ req' = [key |-> k, slot |-> v]
          /\ asked' = [asked EXCEPT ![half] = @ \cup {k}]
          /\ UNCHANGED <<key, stamp, useclock, vram, half, frameStart, lists>>
      BY <2>7 DEF BlitMiss, CanDraw, AskFor
    <3>2. asked'[half] = asked[half] \cup {k}
      BY <1>0, <3>1 DEF TypeOK
    <3>3. StampInv'
      BY <3>1, <3>2 DEF LInv, StampInv, Building
    <3>4. Fits(half)' => stamp[v] <= frameStart
      BY <1>0, <2>7, VictimIsOld DEF LInv
    <3>5. VictimInv'
      BY <3>1, <3>2, <3>4 DEF VictimInv
    <3>6. Fits(half)' => Fits(half)
      BY <1>0, <3>1, <3>2, FitsBefore
    <3>7. FreshInv'
      BY <3>1, <3>6 DEF LInv, FreshInv, Intact, Building
    <3> QED BY <3>3, <3>5, <3>7
  <2>8. CASE GateMemoised
    BY <2>8, ListStartWrite DEF GateMemoised
  <2>9. CASE GateReadIdle
    BY <2>9, ListFrame DEF GateReadIdle, cpuVars
  <2>10. CASE GateMemoise
    BY <2>10, ListStartWrite DEF GateMemoise
  <2>11. CASE GateTimeout
    BY <2>11, ListStartWrite DEF GateTimeout
  <2>12. CASE RestageDone
    <3> DEFINE v == req.slot
               k == req.key
               w == TexelsOf(k)
    <3>1. /\ pc = "write" /\ pc' = "draw"
          /\ vram' = [vram EXCEPT ![v] = w] /\ key' = [key EXCEPT ![v] = k]
          /\ useclock' = useclock + 1
          /\ stamp' = [stamp EXCEPT ![v] = useclock + 1]
          /\ lists' = Emitted(v, w)
          /\ UNCHANGED <<half, asked, frameStart>>
      BY <2>12 DEF RestageDone
    <3>2. v \in Slots /\ k \in Keys /\ k \in asked[half] /\ w \in Texels
          /\ (Fits(half) => stamp[v] <= frameStart)
      <4>1. v \in Slots /\ k \in Keys /\ k[1] <= Len(sheetOf)
        BY <3>1 DEF LInv, CInv, TInv, ReqInv, ReqBound, Requests
      <4>2. k \in asked[half] /\ (Fits(half) => stamp[v] <= frameStart)
        BY <3>1 DEF LInv, VictimInv
      <4> QED BY <1>0, <4>1, <4>2, TexelsTyped DEF TypeOK
    <3>3. /\ frameStart <= useclock /\ frameStart \in Nat /\ useclock \in Nat
          /\ stamp'[v] = useclock + 1 /\ key'[v] = k /\ vram'[v] = w
          /\ \A t \in Slots : t # v => stamp'[t] = stamp[t] /\ key'[t] = key[t]
                                       /\ vram'[t] = vram[t]
          /\ \A t \in Slots : stamp[t] \in Nat /\ stamp[t] <= useclock
          /\ \A t \in Slots : stamp[t] > frameStart => key[t] \in asked[half]
      BY <1>0, <3>1, <3>2 DEF TypeOK, LInv, StampInv, Building
    <3> HIDE DEF v, k, w
    <3>4. StampInv'
      BY <3>1, <3>2, <3>3 DEF StampInv
    <3>5. FreshInv'
      <4> SUFFICES ASSUME Fits(half), NEW i \in DOMAIN lists'[half]
                   PROVE  stamp'[lists'[half][i].slot] > frameStart
                          /\ vram'[lists'[half][i].slot] = lists'[half][i].want
        BY <3>1 DEF FreshInv, Intact, Fits, Demand
      <4>2. CASE i \in DOMAIN lists[half] /\ lists'[half][i] = lists[half][i]
        <5>1. stamp[lists[half][i].slot] > frameStart /\ Intact(half, i)
          BY <3>1, <4>2 DEF LInv, FreshInv, Building
        <5>2. lists[half][i].slot \in Slots
          BY <1>0, <4>2, CommandTyped DEF TypeOK
        <5>3. lists[half][i].slot # v
          BY <3>2, <3>3, <5>1, <5>2
        <5> QED BY <3>3, <4>2, <5>1, <5>2, <5>3 DEF Intact
      <4>3. CASE lists'[half][i] = [slot |-> v, want |-> w]
        BY <3>3, <4>3
      <4> QED BY <1>0, <3>1, <3>2, <4>2, <4>3, EmittedRead
    <3> QED BY <3>1, <3>4, <3>5 DEF VictimInv
  <2>13. CASE ListEnd
    BY <1>0, <2>13 DEF ListEnd, LInv, StampInv, VictimInv, FreshInv, Building
  <2>14. CASE SwapWaitDone
    BY <2>14, ListFrame DEF SwapWaitDone, cpuVars, Building
  <2>15. CASE SwapWaitSkipped
    BY <2>15, ListFrame DEF SwapWaitSkipped, cpuVars, Building
  <2>16. CASE VBlank
    BY <2>16, ListFrame DEF VBlank, cpuVars, Building
  <2>17. CASE Rasterise
    BY <2>17, ListFrame DEF Rasterise, cpuVars
  <2>18. CASE DrawEnd
    BY <2>18, ListFrame DEF DrawEnd, cpuVars
  <2> QED
    BY <2>1, <2>2, <2>3, <2>4, <2>5, <2>6, <2>7, <2>8, <2>9, <2>10, <2>11,
       <2>12, <2>13, <2>14, <2>15, <2>16, <2>17, <2>18
       DEF Next, Seam, Draw, Gate, FrameEnd
<1> QED BY <1>0, <1>a DEF LInv

\* While a frame asks each bucket for no more rectangles than it has slots,
\* every command of the list under construction still finds its own texels
\* and no restage touches a slot the list refers to.
THEOREM CapacityTheorem == Spec => []BuiltListIntact
<1>1. LInv => BuiltListIntact
  <2> SUFFICES ASSUME LInv, pc \in Building, Fits(half),
                      NEW i \in DOMAIN lists[half]
               PROVE  /\ Intact(half, i)
                      /\ pc # "draw" => req.slot # lists[half][i].slot
    BY DEF BuiltListIntact
  <2>1. stamp[lists[half][i].slot] > frameStart /\ Intact(half, i)
    BY DEF LInv, FreshInv
  <2>2. lists[half][i].slot \in Slots
    BY CommandTyped DEF LInv, CInv, TInv, TypeOK
  <2>3. stamp[lists[half][i].slot] \in Nat /\ frameStart \in Nat
    BY <2>2 DEF LInv, CInv, TInv, TypeOK
  <2>4. pc # "draw" => stamp[req.slot] <= frameStart
    BY DEF LInv, VictimInv, Building
  <2> QED BY <2>1, <2>3, <2>4
<1> QED BY <1>1, LInvInit, LInvNext, PTL DEF Spec

-----------------------------------------------------------------------------
(* The gate and the display, when the framebuffer changes only at the       *)
(* vblank that ends an slSynch.                                            *)

\* where VDP1 can be busy, and at which half
GateInv ==
  /\ memo => ~vdp1.busy
  /\ pc = "memo" => ~vdp1.busy
  /\ pc = "write" /\ req.slot \notin forced => ~vdp1.busy
  /\ pc = "synch" /\ ~late => ~vdp1.busy
  /\ link # half
  /\ pc \in Building \cup {"idle"} => (vdp1.busy => vdp1.half = link)

\* between frames the published list is intact as a whole
PublishedInv ==
  pc \in {"idle", "wait", "synch"} /\ link # NoHalf /\ Fits(link) =>
    \A i \in DOMAIN lists[link] : Intact(link, i)

DInv == LInv /\ GateInv /\ PublishedInv /\ ShownIntact

LEMMA DInvInit == Init => DInv
<1> SUFFICES ASSUME Init PROVE DInv
  OBVIOUS
<1>1. LInv
  BY LInvInit
<1> QED
  BY <1>1 DEF DInv, GateInv, PublishedInv, ShownIntact, Init, NoHalf, Building

LEMMA GateInvNext ==
  ASSUME ~FreeRunSwap, DInv, [Next]_vars
  PROVE  GateInv'
<1> USE DEF DInv, GateInv
<1>0. TypeOK
  BY DEF LInv, CInv, TInv
<1>1. CASE UNCHANGED vars
  BY <1>1 DEF vars
<1>2. ASSUME NEW sh \in Sheets, SheetBind(sh) PROVE GateInv'
  BY <1>2 DEF SheetBind
<1>3. CASE PalReset
  BY <1>3 DEF PalReset
<1>4. CASE LoadFrame
  BY <1>4 DEF LoadFrame, cpuVars, Building
<1>5. CASE ListBegin
  BY <1>5 DEF ListBegin, Building
<1>6. ASSUME NEW k \in Keys, NEW s \in Slots, BlitHit(k, s) PROVE GateInv'
  BY <1>6 DEF BlitHit, CanDraw
<1>7. ASSUME NEW k \in Keys, NEW s \in Slots, BlitMiss(k, s) PROVE GateInv'
  BY <1>7 DEF BlitMiss, CanDraw, Building
<1>8. CASE GateMemoised
  BY <1>8 DEF GateMemoised, StartWrite, cpuVars, Building
<1>9. CASE GateReadIdle
  BY <1>9 DEF GateReadIdle, cpuVars, Building
<1>10. CASE GateMemoise
  BY <1>10 DEF GateMemoise, StartWrite, cpuVars, Building
<1>11. CASE GateTimeout
  BY <1>11 DEF GateTimeout, StartWrite, cpuVars, Building
<1>12. CASE RestageDone
  BY <1>12 DEF RestageDone, Building
<1>13. CASE ListEnd
  BY <1>0, <1>13 DEF ListEnd, Published, NextHalf, Building, TypeOK, Halves
<1>14. CASE SwapWaitDone
  BY <1>14 DEF SwapWaitDone, cpuVars, Building
<1>15. CASE SwapWaitSkipped
  BY <1>15 DEF SwapWaitSkipped, cpuVars, Building
<1>16. CASE VBlank
  <2>1. UNCHANGED cpuVars /\ memo' = FALSE
    BY <1>16 DEF VBlank, MemoAfterVBlank
  <2>2. CASE pc = "synch"
    <3>1. RestartVdp1 /\ pc' = "idle"
      BY <1>16, <2>2 DEF VBlank, SwapHappens
    <3>2. vdp1'.busy => vdp1'.half = link
      <4>1. CASE link = NoHalf
        BY <1>0, <3>1, <4>1 DEF RestartVdp1, TypeOK
      <4>2. CASE link # NoHalf
        BY <3>1, <4>2 DEF RestartVdp1
      <4> QED BY <4>1, <4>2
    <3> QED BY <2>1, <3>1, <3>2 DEF cpuVars
  <2>3. CASE pc # "synch"
    <3>1. UNCHANGED <<vdp1, forced, pc, late>>
      BY <1>16, <2>3 DEF VBlank, SwapHappens
    <3> QED BY <2>1, <3>1 DEF cpuVars
  <2> QED BY <2>2, <2>3
<1>17. CASE Rasterise
  <2>1. vdp1'.busy = vdp1.busy /\ vdp1'.half = vdp1.half
    BY <1>0, <1>17 DEF Rasterise, TypeOK
  <2> QED BY <1>17, <2>1 DEF Rasterise, cpuVars
<1>18. CASE DrawEnd
  <2>1. ~vdp1'.busy
    BY <1>0, <1>18 DEF DrawEnd, TypeOK
  <2> QED BY <1>18, <2>1 DEF DrawEnd, cpuVars
<1> QED
  BY <1>1, <1>2, <1>3, <1>4, <1>5, <1>6, <1>7, <1>8, <1>9, <1>10, <1>11,
     <1>12, <1>13, <1>14, <1>15, <1>16, <1>17, <1>18
     DEF Next, Seam, Draw, Gate, FrameEnd

LEMMA PublishedNext ==
  ASSUME DInv, [Next]_vars
  PROVE  PublishedInv'
<1> USE DEF PublishedInv, Fits, Demand, Intact
<1>0. TypeOK /\ PublishedInv
  BY DEF DInv, LInv, CInv, TInv
<1>1. CASE UNCHANGED vars
  BY <1>0, <1>1 DEF vars
<1>2. ASSUME NEW sh \in Sheets, SheetBind(sh) PROVE PublishedInv'
  BY <1>0, <1>2 DEF SheetBind
<1>3. CASE PalReset
  BY <1>0, <1>3 DEF PalReset
<1>4. CASE LoadFrame
  BY <1>0, <1>4 DEF LoadFrame, cpuVars
<1>5. CASE Draw \/ Gate \/ RestageDone \/ ListBegin
  <2>1. pc' \in Building
    BY <1>5 DEF Draw, Gate, BlitHit, BlitMiss, CanDraw, GateMemoised,
                GateReadIdle, GateMemoise, GateTimeout, RestageDone, ListBegin,
                StartWrite, Building
  <2> QED BY <2>1 DEF Building
<1>6. CASE ListEnd
  BY <1>6 DEF ListEnd, Published, Building, DInv, LInv, FreshInv
<1>7. CASE SwapWaitDone \/ SwapWaitSkipped
  BY <1>0, <1>7 DEF SwapWaitDone, SwapWaitSkipped, cpuVars
<1>8. CASE VBlank
  BY <1>0, <1>8 DEF VBlank, cpuVars
<1>9. CASE Rasterise \/ DrawEnd
  BY <1>0, <1>9 DEF Rasterise, DrawEnd, cpuVars
<1> QED
  BY <1>1, <1>2, <1>3, <1>4, <1>5, <1>6, <1>7, <1>8, <1>9
     DEF Next, Seam, FrameEnd

\* steps that touch neither VRAM nor the list VDP1 reads
LEMMA ShownFrame ==
  ASSUME ShownIntact, UNCHANGED <<vram, vdp1, forced>>,
         vdp1.busy => /\ lists'[vdp1.half] = lists[vdp1.half]
                      /\ asked'[vdp1.half] = asked[vdp1.half]
  PROVE  ShownIntact'
BY DEF ShownIntact, Fits, Demand, Intact

\* a texel write that VDP1 cannot see, or that is counted as forced
LEMMA ShownWrite ==
  ASSUME DInv, UNCHANGED <<lists, vdp1, asked>>, forced \subseteq forced',
         NEW x, vram' = [vram EXCEPT ![req.slot] = x], req.slot \in Slots,
         vdp1.busy => req.slot \in forced'
  PROVE  ShownIntact'
<1> SUFFICES ASSUME vdp1.busy, Fits(vdp1.half), NEW i \in DOMAIN lists[vdp1.half],
                    i >= vdp1.pos, lists[vdp1.half][i].slot \notin forced'
             PROVE  vram'[lists[vdp1.half][i].slot] = lists[vdp1.half][i].want
  BY DEF ShownIntact, Fits, Demand, Intact
<1>1. TypeOK /\ ShownIntact
  BY DEF DInv, LInv, CInv, TInv
<1>2. Intact(vdp1.half, i)
  BY <1>1 DEF ShownIntact
<1>3. lists[vdp1.half][i].slot \in Slots
  BY <1>1, CommandTyped DEF TypeOK
<1> QED BY <1>1, <1>2, <1>3 DEF Intact, TypeOK

LEMMA ShownNext ==
  ASSUME ~FreeRunSwap, DInv, [Next]_vars
  PROVE  ShownIntact'
<1>0. TypeOK /\ TInv /\ ShownIntact /\ GateInv
  BY DEF DInv, LInv, CInv, TInv
<1>half. pc \in Building \cup {"idle"} => (vdp1.busy => vdp1.half # half)
  BY <1>0 DEF GateInv
<1>1. CASE UNCHANGED vars
  BY <1>0, <1>1, ShownFrame DEF vars
<1>2. ASSUME NEW sh \in Sheets, SheetBind(sh) PROVE ShownIntact'
  BY <1>0, <1>2, ShownFrame DEF SheetBind
<1>3. CASE PalReset
  BY <1>0, <1>3, ShownFrame DEF PalReset
<1>4. CASE LoadFrame
  BY <1>0, <1>4, ShownFrame DEF LoadFrame, cpuVars
<1>5. CASE ListBegin
  <2>1. vdp1.busy => /\ lists'[vdp1.half] = lists[vdp1.half]
                     /\ asked'[vdp1.half] = asked[vdp1.half]
    BY <1>0, <1>half, <1>5 DEF ListBegin, TypeOK
  <2> QED BY <1>0, <1>5, <2>1, ShownFrame DEF ListBegin
<1>6. ASSUME NEW k \in Keys, NEW s \in Slots, BlitHit(k, s) PROVE ShownIntact'
  <2>1. vdp1.busy => /\ lists'[vdp1.half] = lists[vdp1.half]
                     /\ asked'[vdp1.half] = asked[vdp1.half]
    BY <1>0, <1>half, <1>6
       DEF BlitHit, CanDraw, AskFor, Emitted, Building, TypeOK
  <2> QED BY <1>0, <1>6, <2>1, ShownFrame DEF BlitHit
<1>7. ASSUME NEW k \in Keys, NEW s \in Slots, BlitMiss(k, s) PROVE ShownIntact'
  <2>1. vdp1.busy => asked'[vdp1.half] = asked[vdp1.half]
    BY <1>0, <1>half, <1>7 DEF BlitMiss, CanDraw, AskFor, Building, TypeOK
  <2> QED BY <1>0, <1>7, <2>1, ShownFrame DEF BlitMiss
<1>r. pc \in {"gate", "memo", "write"} => req.slot \in Slots
  BY <1>0 DEF TInv, ReqInv, Requests
<1>8. CASE GateMemoised
  BY <1>0, <1>r, <1>8, ShownWrite DEF GateMemoised, StartWrite, GateInv, cpuVars
<1>9. CASE GateReadIdle
  BY <1>0, <1>9, ShownFrame DEF GateReadIdle, cpuVars
<1>10. CASE GateMemoise
  BY <1>0, <1>r, <1>10, ShownWrite DEF GateMemoise, StartWrite, GateInv, cpuVars
<1>11. CASE GateTimeout
  BY <1>0, <1>r, <1>11, ShownWrite DEF GateTimeout, StartWrite, cpuVars
<1>12. CASE RestageDone
  <2>1. pc = "write" /\ req.slot \in Slots /\ UNCHANGED <<vdp1, forced, asked>>
        /\ vram' = [vram EXCEPT ![req.slot] = TexelsOf(req.key)]
        /\ lists' = Emitted(req.slot, TexelsOf(req.key))
    BY <1>r, <1>12 DEF RestageDone
  <2>2. vdp1.busy => req.slot \in forced
    BY <1>0, <2>1 DEF GateInv
  <2>3. vdp1.busy => lists'[vdp1.half] = lists[vdp1.half]
    BY <1>0, <1>half, <2>1 DEF Emitted, Building, TypeOK
  <2> SUFFICES ASSUME vdp1.busy, Fits(vdp1.half),
                      NEW i \in DOMAIN lists[vdp1.half], i >= vdp1.pos,
                      lists[vdp1.half][i].slot \notin forced
               PROVE  vram'[lists[vdp1.half][i].slot] = lists[vdp1.half][i].want
    BY <2>1, <2>3 DEF ShownIntact, Fits, Demand, Intact
  <2>4. Intact(vdp1.half, i)
    BY <1>0 DEF ShownIntact
  <2>5. lists[vdp1.half][i].slot \in Slots
    BY <1>0, CommandTyped DEF TypeOK
  <2> QED BY <1>0, <2>1, <2>2, <2>4, <2>5 DEF Intact, TypeOK
<1>13. CASE ListEnd
  BY <1>0, <1>13, ShownFrame DEF ListEnd
<1>14. CASE SwapWaitDone
  BY <1>0, <1>14, ShownFrame DEF SwapWaitDone, cpuVars
<1>15. CASE SwapWaitSkipped
  BY <1>0, <1>15, ShownFrame DEF SwapWaitSkipped, cpuVars
<1>16. CASE VBlank
  <2>1. UNCHANGED <<cpuVars, vram, lists>>
    BY <1>16 DEF VBlank
  <2>2. CASE pc = "synch" /\ link # NoHalf
    <3>1. vdp1' = [busy |-> TRUE, half |-> link, pos |-> 1]
      BY <1>16, <2>2 DEF VBlank, SwapHappens, RestartVdp1
    <3>2. Fits(link) => \A i \in DOMAIN lists[link] : Intact(link, i)
      BY <2>2 DEF DInv, PublishedInv
    <3> QED
      BY <2>1, <3>1, <3>2 DEF ShownIntact, Fits, Demand, Intact, cpuVars
  <2>3. CASE pc = "synch" /\ link = NoHalf
    <3>1. ~vdp1'.busy
      BY <1>0, <1>16, <2>3 DEF VBlank, SwapHappens, RestartVdp1, TypeOK
    <3> QED BY <3>1 DEF ShownIntact
  <2>4. CASE pc # "synch"
    <3>1. UNCHANGED <<vdp1, forced>>
      BY <1>16, <2>4 DEF VBlank, SwapHappens
    <3> QED BY <1>0, <2>1, <3>1, ShownFrame DEF cpuVars
  <2> QED BY <2>2, <2>3, <2>4
<1>17. CASE Rasterise
  <2>1. /\ vdp1'.busy = vdp1.busy /\ vdp1'.half = vdp1.half
        /\ vdp1'.pos = vdp1.pos + 1 /\ vdp1.pos \in Nat
    BY <1>0, <1>17 DEF Rasterise, TypeOK
  <2>2. UNCHANGED <<vram, lists, asked, forced>>
    BY <1>17 DEF Rasterise, cpuVars
  <2>3. vdp1.busy => lists[vdp1.half] \in Seq(Commands)
    BY <1>0 DEF TypeOK
  <2> SUFFICES ASSUME vdp1.busy, Fits(vdp1.half),
                      NEW i \in DOMAIN lists[vdp1.half], i >= vdp1.pos + 1,
                      lists[vdp1.half][i].slot \notin forced
               PROVE  Intact(vdp1.half, i)
    BY <2>1, <2>2 DEF ShownIntact, Fits, Demand, Intact
  <2>4. i \in Nat
    BY <2>3, LenProperties
  <2>5. i >= vdp1.pos
    BY <2>1, <2>4
  <2> QED BY <1>0, <2>5 DEF ShownIntact
<1>18. CASE DrawEnd
  <2>1. ~vdp1'.busy
    BY <1>0, <1>18 DEF DrawEnd, TypeOK
  <2> QED BY <2>1 DEF ShownIntact
<1> QED
  BY <1>1, <1>2, <1>3, <1>4, <1>5, <1>6, <1>7, <1>8, <1>9, <1>10, <1>11,
     <1>12, <1>13, <1>14, <1>15, <1>16, <1>17, <1>18
     DEF Next, Seam, Draw, Gate, FrameEnd

LEMMA DInvNext == ~FreeRunSwap /\ DInv /\ [Next]_vars => DInv'
BY LInvNext, GateInvNext, PublishedNext, ShownNext DEF DInv

LEMMA DInvAlways == ~FreeRunSwap /\ Spec => []DInv
<1> SUFFICES ASSUME ~FreeRunSwap PROVE Spec => []DInv
  OBVIOUS
<1>1. DInv /\ [Next]_vars => DInv'
  BY DInvNext
<1> QED BY <1>1, DInvInit, PTL DEF Spec

\* Every command VDP1 still has to rasterise finds the texels it was emitted
\* for, if its frame fitted the buckets and no gate timeout hit its slot.
THEOREM DisplayTheorem == ~FreeRunSwap /\ Spec => []ShownIntact
<1>1. DInv => ShownIntact BY DEF DInv
<1> QED BY <1>1, DInvAlways, PTL

\* An unforced texel write never meets a VDP1 that rasterises.
THEOREM GateHoldsTheorem == ~FreeRunSwap /\ Spec => []GateHolds
<1>1. DInv => GateHolds
  BY DEF DInv, GateInv, GateHolds
<1> QED BY <1>1, DInvAlways, PTL

\* The gate's memo that VDP1 is idle is never stale, beside the gate itself.
THEOREM GateTheorem == ~FreeRunSwap /\ Spec => [](GateHolds /\ MemoProvesIdle)
<1>1. DInv => GateHolds /\ MemoProvesIdle
  BY DEF DInv, GateInv, GateHolds, MemoProvesIdle
<1> QED BY <1>1, DInvAlways, PTL

\* The half under construction is never the published one nor VDP1's.
THEOREM PrivateTheorem == ~FreeRunSwap /\ Spec => []BuildIsPrivate
<1>1. DInv => BuildIsPrivate
  BY DEF DInv, GateInv, BuildIsPrivate
<1> QED BY <1>1, DInvAlways, PTL

\* A frame whose wait succeeded is swapped only when VDP1 has finished.
THEOREM WholeFrameTheorem == ~FreeRunSwap /\ Spec => []WholeFrame
<1>1. DInv => WholeFrame
  BY DEF DInv, GateInv, WholeFrame
<1> QED BY <1>1, DInvAlways, PTL
==============================================================================
