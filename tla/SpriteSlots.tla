----------------------------- MODULE SpriteSlots -----------------------------
(***************************************************************************)
(* The front end's sprite path: the bucket caches of VDP1 texture slots,   *)
(* the two halves of the direct VDP1 command list, the gate in front of    *)
(* every texel write, and the three actors that share them:                *)
(*                                                                         *)
(*   the SH-2   runs one game frame after another: opens a list            *)
(*              (p6_dl_begin), draws (p6_vdp1_blit -> p6_title_pool_for ->  *)
(*              p6_title_restage_content -> p6_dl_sprite), publishes it     *)
(*              (p6_dl_end), waits for VDP1 and calls slSynch;             *)
(*   VDP1       rasterises the published list, one command after another,  *)
(*              from VRAM, while the SH-2 is already building the next one; *)
(*   vblank     the interrupt: ticks the vblank count, points VDP1's jump   *)
(*              cell at the published half and, at a framebuffer change,    *)
(*              restarts VDP1 there.                                       *)
(*                                                                         *)
(* A texture is abstracted to the pair of the sheet its pixels come from    *)
(* and the rectangle; a rectangle to a member of Rects with a bucket.       *)
(* A definition marked "faulty" is not part of the specification: it is the *)
(* bug that the definition after it could have, which a property rejects.   *)
(***************************************************************************)
EXTENDS Integers, Sequences, FiniteSets

CONSTANTS
  Sheets,       \* the pixel sources a surface can be bound to
  NSheets,      \* P6_VDP1_NSHEETS: capacity of the handle table
  Rects,        \* sheet rectangles the game draws; each fits some bucket
  Slots,        \* the preallocated VDP1 slots, numbered in scan order
  Buckets,      \* the bucket boxes P6_BUCK
  BucketOf,     \* p6_bucket_for: the bucket a rectangle is routed to
  SlotBucket,   \* the bucket a slot was preallocated in
  DLMax,        \* P6_DL_MAX: commands a list half holds
  MaxClock,     \* bound on s_useclock, an int that the code never wraps
  SwapWait,     \* TRUE: the frame spins on EDSR.CEF before slSynch (GHZ)
  FreeRunSwap   \* TRUE: the framebuffer changes at every vblank;
                \* FALSE: only at the vblank that ends an slSynch

ASSUME SizesAssumption ==
  NSheets \in Nat /\ DLMax \in Nat /\ MaxClock \in Nat
ASSUME FlagsAssumption ==
  SwapWait \in BOOLEAN /\ FreeRunSwap \in BOOLEAN
ASSUME RoutingAssumption ==
  /\ IsFiniteSet(Rects) /\ IsFiniteSet(Slots) /\ Slots \subseteq Nat
  /\ BucketOf \in [Rects -> Buckets]
  /\ SlotBucket \in [Slots -> Buckets]

Handles == 1..NSheets
Keys == Handles \X Rects           \* what a slot is filed under
Texels == Sheets \X Rects          \* what VRAM holds
NoKey == <<>>                      \* sheet = -1 in a P6Vdp1Slot
Garbage == <<"garbage">>           \* never written, or half written
NoHalf == -1                       \* p6_dl_link = 0
Halves == {0, 1}
Commands == [slot : Slots, want : Texels]
SlotsOf(b) == {s \in Slots : SlotBucket[s] = b}

VARIABLES
  sheetOf,     \* s_sheets[0 .. s_sheet_count-1]: the sheet behind each handle
  key,         \* P6Vdp1Slot.{sheet, sx, sy, w, h}
  stamp,       \* P6Vdp1Slot.lastUse
  useclock,    \* s_useclock
  vram,        \* the texels in each slot's reserved VDP1 VRAM
  lists,       \* the command list in each half (P6_DL_A, P6_DL_B)
  half,        \* s_dl_half: the half the SH-2 builds next or is building
  link,        \* p6_dl_link: the last completed half
  vdp1,        \* busy = ~EDSR.CEF, the half it reads, its next command
  memo,        \* s_texw_safe_vbl = p6_perf_vbl_count + 1
  pc,          \* where the SH-2 is in the frame
  req,         \* the miss being staged: its key and its victim slot
  asked,       \* history: the keys resolved by the frame that built a half
  frameStart,  \* history: useclock when the frame began
  forced,      \* history: slots written after a gate timeout since the swap
  late         \* history: slSynch was entered without VDP1 known to be idle

cpuVars == <<sheetOf, key, stamp, useclock, half, link, req, asked, frameStart>>
vars == <<sheetOf, key, stamp, useclock, vram, lists, half, link, vdp1, memo,
          pc, req, asked, frameStart, forced, late>>

NoReq == <<>>
Requests == [key : Keys, slot : Slots]
Building == {"draw", "gate", "memo", "write"}
Phases == Building \cup {"idle", "wait", "synch"}

TypeOK ==
  /\ sheetOf \in Seq(Sheets) /\ Len(sheetOf) <= NSheets
  /\ key \in [Slots -> Keys \cup {NoKey}]
  /\ useclock \in Nat /\ frameStart \in Nat
  /\ stamp \in [Slots -> Nat]
  /\ vram \in [Slots -> Texels \cup {Garbage}]
  /\ lists \in [Halves -> Seq(Commands)]
  /\ half \in Halves /\ link \in Halves \cup {NoHalf}
  /\ vdp1 \in [busy : BOOLEAN, half : Halves, pos : Nat \ {0}]
  /\ memo \in BOOLEAN /\ late \in BOOLEAN
  /\ pc \in Phases
  /\ req \in Requests \cup {NoReq}
  /\ asked \in [Halves -> SUBSET Keys]
  /\ forced \in SUBSET Slots

Init ==
  /\ sheetOf = <<>>
  /\ key = [s \in Slots |-> NoKey]
  /\ stamp = [s \in Slots |-> 0]
  /\ useclock = 0
  /\ vram = [s \in Slots |-> Garbage]
  /\ lists = [h \in Halves |-> <<>>]
  /\ half = 0 /\ link = NoHalf
  /\ vdp1 = [busy |-> FALSE, half |-> 0, pos |-> 1]
  /\ memo = FALSE
  /\ pc = "idle" /\ req = NoReq
  /\ asked = [h \in Halves |-> {}] /\ frameStart = 0
  /\ forced = {} /\ late = FALSE

----------------------------------------------------------------------------
(* The SH-2 between frames: surfaces are bound at a scene load, and a seam  *)
(* of the front-end chain forgets every binding and every slot key.        *)

\* p6_vdp1_sheet_bind and p6_vdp1_sheet_bind_banded
SheetBind(sh) ==
  /\ pc = "idle" /\ Len(sheetOf) < NSheets
  /\ sheetOf' = Append(sheetOf, sh)
  /\ UNCHANGED <<key, stamp, useclock, vram, lists, half, link, vdp1, memo,
                 pc, req, asked, frameStart, forced, late>>

KeysAfterResetKept == key                        \* faulty: keys survive
KeysAfterReset == [s \in Slots |-> NoKey]

\* p6_vdp1_frontend_pal_reset: VRAM and the command lists stay as they are
PalReset ==
  /\ pc = "idle"
  /\ sheetOf' = <<>>
  /\ useclock' = 0
  /\ key' = KeysAfterReset
  /\ stamp' = [s \in Slots |-> 0]
  /\ UNCHANGED <<vram, lists, half, link, vdp1, memo,
                 pc, req, asked, frameStart, forced, late>>

\* a LOAD frame returns before p6_dl_begin: the last list keeps displaying
LoadFrame ==
  /\ pc = "idle" /\ pc' = "synch" /\ late' = TRUE
  /\ UNCHANGED <<cpuVars, vram, lists, vdp1, memo, forced>>

\* p6_dl_begin
ListBegin ==
  /\ pc = "idle" /\ pc' = "draw"
  /\ lists' = [lists EXCEPT ![half] = <<>>]
  /\ asked' = [asked EXCEPT ![half] = {}]
  /\ frameStart' = useclock
  /\ UNCHANGED <<sheetOf, key, stamp, useclock, vram, half, link, vdp1, memo,
                 req, forced, late>>

----------------------------------------------------------------------------
(* Drawing one sprite: p6_vdp1_blit.  A blit with an unbound handle, or     *)
(* whose pixels cannot be fetched, is dropped and changes nothing.         *)

TexelsOf(k) == <<sheetOf[k[1]], k[2]>>

\* p6_dl_sprite: past P6_DL_MAX the command is dropped
Emitted(slot, want) ==
  IF Len(lists[half]) < DLMax
    THEN [lists EXCEPT ![half] = Append(@, [slot |-> slot, want |-> want])]
    ELSE lists

AskFor(k) == asked' = [asked EXCEPT ![half] = @ \cup {k}]

CanDraw(k) == pc = "draw" /\ k[1] <= Len(sheetOf) /\ useclock < MaxClock

\* the scan of the bucket for the rectangle
Holds(s, k) == SlotBucket[s] = BucketOf[k[2]] /\ key[s] = k

\* p6_title_pool_for, HIT: touch the stamp, emit
BlitHit(k, s) ==
  /\ CanDraw(k)
  /\ Holds(s, k)
  /\ useclock' = useclock + 1
  /\ stamp' = [stamp EXCEPT ![s] = useclock + 1]
  /\ lists' = Emitted(s, TexelsOf(k))
  /\ AskFor(k)
  /\ UNCHANGED <<sheetOf, key, vram, half, link, vdp1, memo, pc, req,
                 frameStart, forced, late>>

VictimNewest(v, b) ==                            \* faulty: comparison reversed
  /\ SlotBucket[v] = b
  /\ \A s \in SlotsOf(b) : stamp[v] >= stamp[s]

\* the least recently used slot of a bucket, the lowest of equals
Victim(v, b) ==
  /\ SlotBucket[v] = b
  /\ \A s \in SlotsOf(b) :
       stamp[v] < stamp[s] \/ (stamp[v] = stamp[s] /\ v <= s)

\* p6_title_pool_for, MISS: the victim is chosen, then the gate is entered
BlitMiss(k, v) ==
  /\ CanDraw(k)
  /\ \A s \in Slots : ~Holds(s, k)
  /\ Victim(v, BucketOf[k[2]])
  /\ req' = [key |-> k, slot |-> v]
  /\ pc' = "gate"
  /\ AskFor(k)
  /\ UNCHANGED <<sheetOf, key, stamp, useclock, vram, lists, half, link, vdp1,
                 memo, frameStart, forced, late>>

\* the first longword of the pack in p6_title_restage_content
StartWrite ==
  /\ pc' = "write"
  /\ vram' = [vram EXCEPT ![req.slot] = Garbage]

\* p6_vdp1_texwrite_gate: this vblank period was proved idle already
GateMemoised ==
  /\ pc = "gate" /\ memo
  /\ StartWrite
  /\ UNCHANGED <<cpuVars, lists, vdp1, memo, forced, late>>

GateReadWrongBit ==                              \* faulty: not the CEF bit
  /\ pc = "gate" /\ ~memo
  /\ pc' = "memo"
  /\ UNCHANGED <<cpuVars, vram, lists, vdp1, memo, forced, late>>

\* ... EDSR.CEF is read as 1, at once or in the spin
GateReadIdle ==
  /\ pc = "gate" /\ ~memo /\ ~vdp1.busy
  /\ pc' = "memo"
  /\ UNCHANGED <<cpuVars, vram, lists, vdp1, memo, forced, late>>

\* ... then the vblank count is read again and memoised
GateMemoise ==
  /\ pc = "memo"
  /\ memo' = TRUE
  /\ StartWrite
  /\ UNCHANGED <<cpuVars, lists, vdp1, forced, late>>

GateTimeoutMemoised ==                           \* faulty: falls into the memo
  /\ pc = "gate" /\ ~memo /\ vdp1.busy
  /\ StartWrite
  /\ memo' = TRUE
  /\ forced' = forced \cup {req.slot}
  /\ UNCHANGED <<cpuVars, lists, vdp1, late>>
GateNoTimeout == FALSE                           \* faulty: an unbounded spin

\* ... or EDSR.CEF stayed 0 for the whole bound: write anyway, no memo
GateTimeout ==
  /\ pc = "gate" /\ ~memo /\ vdp1.busy
  /\ StartWrite
  /\ forced' = forced \cup {req.slot}
  /\ UNCHANGED <<cpuVars, lists, vdp1, memo, late>>

\* the pack ends; the slot takes its key and stamp and the command is emitted
RestageDone ==
  /\ pc = "write" /\ pc' = "draw"
  /\ vram' = [vram EXCEPT ![req.slot] = TexelsOf(req.key)]
  /\ key' = [key EXCEPT ![req.slot] = req.key]
  /\ useclock' = useclock + 1
  /\ stamp' = [stamp EXCEPT ![req.slot] = useclock + 1]
  /\ lists' = Emitted(req.slot, TexelsOf(req.key))
  /\ req' = NoReq
  /\ UNCHANGED <<sheetOf, half, link, vdp1, memo, asked, frameStart, forced,
                 late>>

----------------------------------------------------------------------------
(* The end of the frame.                                                   *)

PublishedAfterFlip == 1 - half                   \* faulty: flip, then publish
Published == half
NextHalfSame == half                             \* faulty: no flip
NextHalfGrows == half + 1                        \* faulty: increment, no wrap
NextHalf == 1 - half

\* p6_dl_end: END is in place, the half is published, the other is next
ListEnd ==
  /\ pc = "draw" /\ pc' = "wait"
  /\ link' = Published
  /\ half' = NextHalf
  /\ UNCHANGED <<sheetOf, key, stamp, useclock, vram, lists, vdp1, memo, req,
                 asked, frameStart, forced, late>>

SwapWaitIgnored ==                               \* faulty: CEF is not looked at
  /\ pc = "wait" /\ SwapWait
  /\ pc' = "synch" /\ late' = FALSE
  /\ UNCHANGED <<cpuVars, vram, lists, vdp1, memo, forced>>

\* the CEF test before slSynch reads 1
SwapWaitDone ==
  /\ pc = "wait" /\ SwapWait /\ ~vdp1.busy
  /\ pc' = "synch" /\ late' = FALSE
  /\ UNCHANGED <<cpuVars, vram, lists, vdp1, memo, forced>>

\* the scene does not wait, or its bounded spin ran out with CEF still 0
SwapWaitSkipped ==
  /\ pc = "wait" /\ (SwapWait => vdp1.busy)
  /\ pc' = "synch" /\ late' = TRUE
  /\ UNCHANGED <<cpuVars, vram, lists, vdp1, memo, forced>>

----------------------------------------------------------------------------
(* The vblank interrupt and VDP1.                                          *)

\* a framebuffer change restarts VDP1 at the published half
SwapHappens == FreeRunSwap \/ pc = "synch"
RestartVdp1 ==
  /\ vdp1' = IF link = NoHalf THEN [vdp1 EXCEPT !.busy = FALSE]
                              ELSE [busy |-> TRUE, half |-> link, pos |-> 1]
  /\ forced' = {}

MemoOutlivesVBlank == memo                       \* faulty: a flag, not a count
MemoAfterVBlank == FALSE

\* p6_perf_vblank ticks the count, so the memo is of a past period;
\* p6_fg_vblank points the jump cell at p6_dl_link; slSynch returns
VBlank ==
  /\ memo' = MemoAfterVBlank
  /\ IF SwapHappens THEN RestartVdp1 ELSE UNCHANGED <<vdp1, forced>>
  /\ pc' = IF pc = "synch" THEN "idle" ELSE pc
  /\ late' = IF pc = "synch" THEN FALSE ELSE late
  /\ UNCHANGED <<cpuVars, vram, lists>>

\* VDP1 finishes the command it is at
Rasterise ==
  /\ vdp1.busy /\ vdp1.pos <= Len(lists[vdp1.half])
  /\ vdp1' = [vdp1 EXCEPT !.pos = @ + 1]
  /\ UNCHANGED <<cpuVars, vram, lists, memo, pc, forced, late>>

\* VDP1 meets the END command: EDSR.CEF becomes 1
DrawEnd ==
  /\ vdp1.busy /\ vdp1.pos > Len(lists[vdp1.half])
  /\ vdp1' = [vdp1 EXCEPT !.busy = FALSE]
  /\ UNCHANGED <<cpuVars, vram, lists, memo, pc, forced, late>>

----------------------------------------------------------------------------
Gate == GateMemoised \/ GateReadIdle \/ GateMemoise \/ GateTimeout
FrameEnd == ListEnd \/ SwapWaitDone \/ SwapWaitSkipped
Draw ==
  \E k \in Keys, s \in Slots : BlitHit(k, s) \/ BlitMiss(k, s)
Seam == PalReset \/ \E sh \in Sheets : SheetBind(sh)

Next ==
  \/ Seam \/ LoadFrame \/ ListBegin
  \/ Draw \/ Gate \/ RestageDone \/ FrameEnd
  \/ VBlank \/ Rasterise \/ DrawEnd

Spec == Init /\ [][Next]_vars

\* The SH-2 runs its frame to the end and vblank keeps coming; VDP1 may hang.
CpuFairness ==
  /\ WF_vars(Gate) /\ WF_vars(RestageDone) /\ WF_vars(FrameEnd)
  /\ WF_vars(VBlank)
FairSpec == Spec /\ CpuFairness

----------------------------------------------------------------------------
(* Properties.                                                             *)

Demand(h, b) == {k \in asked[h] : BucketOf[k[2]] = b}

\* the frame that built half h asked each bucket for no more than it holds
Fits(h) ==
  \A b \in Buckets : Cardinality(Demand(h, b)) <= Cardinality(SlotsOf(b))

Intact(h, i) == vram[lists[h][i].slot] = lists[h][i].want

\* Every slot filed under a key holds that key's texels, of the sheet the
\* handle is bound to now: a seam that rebinds a handle to another sheet
\* must not leave a slot that still hits (the stale-binding class).
SlotCoherent ==
  \A s \in Slots :
    /\ key[s] # NoKey
    /\ ~(pc = "write" /\ req.slot = s)
    => /\ key[s][1] <= Len(sheetOf)
       /\ BucketOf[key[s][2]] = SlotBucket[s]
       /\ vram[s] = TexelsOf(key[s])

\* One rectangle is never staged in two slots of its bucket.
KeysUnique ==
  \A s, t \in Slots :
    key[s] # NoKey /\ key[s] = key[t] => s = t

\* The half being built is never the half VDP1 reads, and the published one
\* is always complete.
BuildIsPrivate ==
  pc \in Building => (vdp1.busy => vdp1.half # half) /\ link # half

\* Unless it gave up on its bound, the gate lets a texel write start only
\* when VDP1 rasterises nothing, and VDP1 stays so until the write ends.
GateHolds ==
  pc = "write" /\ req.slot \notin forced => ~vdp1.busy

\* What the gate memoises: in a vblank period marked safe VDP1 is not drawing.
MemoProvesIdle == memo => ~vdp1.busy

\* The menu-garble class: while a frame asks each bucket for no more
\* rectangles than it has slots, no later draw of the frame restages a slot
\* that an earlier command of the same list refers to.
BuiltListIntact ==
  pc \in Building /\ Fits(half) =>
    \A i \in DOMAIN lists[half] :
       /\ Intact(half, i)
       /\ pc # "draw" => req.slot # lists[half][i].slot

\* VDP1 shows what was drawn: every command it still has to rasterise finds
\* the texels it was emitted for, if the frame fitted its buckets and no
\* gate timeout wrote into that slot.
ShownIntact ==
  vdp1.busy /\ Fits(vdp1.half) =>
    \A i \in DOMAIN lists[vdp1.half] :
      i >= vdp1.pos /\ lists[vdp1.half][i].slot \notin forced
        => Intact(vdp1.half, i)

\* The tear fix: a frame whose wait before slSynch succeeded is swapped only
\* when VDP1 has finished the list it was drawing.
WholeFrame == pc = "synch" /\ ~late => ~vdp1.busy

\* The frame loop cannot be locked by a VDP1 that hangs: every miss is staged.
MissIsStaged == pc = "gate" ~> pc = "draw"

\* A completed list is displayed: VDP1 is sent to it at a framebuffer change.
ListIsShown ==
  \A h \in Halves : (pc = "wait" /\ half # h) ~> (vdp1.busy /\ vdp1.half = h)
==============================================================================
