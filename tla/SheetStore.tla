------------------------------ MODULE SheetStore ------------------------------
(***************************************************************************)
(* The resident store of the cartridge on the way from the logos to the      *)
(* playable Green Hill Zone (SaturnSheet.cpp, SaturnFrameDir.cpp, the seams  *)
(* in p6_io_main.cpp, the bindings in p6_vdp1.c).  A sheet is staged in       *)
(* compressed bands once and for all.  To spare the inflate of every draw, a  *)
(* seam puts whole sheets (residents) or pre-cut frames (.FRD blobs) into the *)
(* store, a bump allocator that a later seam rewinds.  The same memory takes  *)
(* fixed windows nobody allocates: the scanlines the engine writes each       *)
(* frame, and the files of a backdrop on their way into the VDP2.             *)
(*                                                                         *)
(* Places are cells of 4 KB from 0x22400000.  A read of a file from the CD    *)
(* may fail, MaxFaults times in all.                                         *)
(***************************************************************************)
EXTENDS Integers, Sequences

CONSTANTS Raw, Frd,      \* cells of a sheet's pixels and of its blob
          End,           \* SATURNSHEET_RES_END
          FrdSlots,      \* SATURNFRD_SLOTS
          MaxFaults

Sheets == {"LOGOS", "TLOGO", "TSONIC", "AIZOBJ", "HBH", "PLR", "SONIC", "SONIC23",
           "TAILS", "RUBY", "GHC", "ITEMS", "DISPLAY", "ZONE", "EXPLOS"}

Legs == {"Logos", "Title", "AIZ", "Cutscene", "GHZ"}
Following(l) == CASE l = "Logos" -> "Title" [] l = "Title" -> "AIZ"
                  [] l = "AIZ" -> "Cutscene" [] OTHER -> "GHZ"
Drawn == [Logos |-> {"LOGOS"}, Title |-> {"TLOGO", "TSONIC"},
          AIZ |-> {"AIZOBJ", "SONIC", "SONIC23", "TAILS", "RUBY"},
          Cutscene |-> {"GHC", "RUBY", "ITEMS", "DISPLAY", "HBH", "PLR"},
          GHZ |-> {"SONIC", "SONIC23", "ITEMS", "DISPLAY", "TAILS", "ZONE", "EXPLOS"}]

VARIABLES
  leg, pc,    \* the scene, and how far its seam is; past the seam it plays
  staged,     \* sheets in the band store, with their path's hash
  resident,   \* SaturnSheetSlot.resident
  frds,       \* s_frd: <<sheet, place>> of every blob
  route,      \* s_frdByStore: blob number by sheet, 0 = none
  bound,      \* the handle drawn with: unbound, or its frdSlot (0 = none)
  cursor,     \* s_resCursor
  cart,       \* the extents <<kind, sheet, place>> nothing has written over
  fg,         \* p6_ghz_fg_4bpp
  sky,        \* s_ghcbg_loaded
  faults, missed   \* failed reads, and of what in this leg

storeVars == <<resident, frds, route, bound, cursor>>
skyVars == <<fg, sky>>
faultVars == <<faults, missed>>
vars == <<leg, pc, staged, storeVars, cart, skyVars, faultVars>>

None == -1
Unbound == -1
Rewound == 0

\* Where nobody allocates: place and size.
Scanlines == <<0, 1>>            \* 0x22400000, 3,840 B
AizWindows == <<128, 35>>        \* AIZBG.*, 0x22480000 .. 0x224A3000
ShtBounce == <<128, 16>>         \* sbuf of the cutscene's seam
CutsceneSky == <<128, 21>>       \* AGHCBG.*
GhzFg == <<376, 34>>             \* AGHFG.*, 0x22578000
GhzSky == <<376, 21>>            \* AGHFS.*
FrdFloor == 1                    \* SaturnSheet_ResFloor(0x1000)
AizFloor == 164                  \* SaturnSheet_ResFloor(0xA4000)

ASSUME SizesAssumption ==
  /\ Raw \in [Sheets -> Nat \ {0}] /\ Frd \in [Sheets -> Nat \ {0}]
  /\ End \in Nat /\ AizFloor <= End
  /\ FrdSlots \in Nat /\ MaxFaults \in Nat

Extents == {"res", "frd"} \X Sheets \X Nat
SizeOf(e) == IF e[1] = "res" THEN Raw[e[2]] ELSE Frd[e[2]]
Over(c, w) == {e \in c : e[3] + SizeOf(e) <= w[1] \/ w[1] + w[2] <= e[3]}
Placed(c, e) == Over(c, <<e[3], SizeOf(e)>>) \cup {e}

TypeOK ==
  /\ leg \in Legs /\ pc \in Nat
  /\ staged \subseteq Sheets
  /\ resident \in [Sheets -> Nat \cup {None}]
  /\ frds \in Seq(Sheets \X Nat) /\ Len(frds) <= FrdSlots
  /\ route \in [Sheets -> Nat] /\ bound \in [Sheets -> Nat \cup {Unbound}]
  /\ cursor \in 0 .. End /\ cart \subseteq Extents
  /\ fg \in BOOLEAN /\ sky \in BOOLEAN
  /\ faults \in 0 .. MaxFaults /\ missed \subseteq {"sheet", "scratch"}

-------------------------------------------------------------------------------
(* The seams.                                                                *)

Each(op, sheets) == [i \in DOMAIN sheets |-> <<op, sheets[i]>>]
Do(op) == <<<<op, "all">>>>

Landing == <<"SONIC", "SONIC23", "ITEMS", "DISPLAY", "TAILS", "ZONE", "EXPLOS">>
AizPlayers == <<"SONIC", "SONIC23", "TAILS">>
CutsceneFrds == <<"GHC", "RUBY", "ITEMS", "DISPLAY">>
Boot == Do("reclaim")
        \o <<<<"stage", "LOGOS">>, <<"promote", "LOGOS">>, <<"stage", "TLOGO">>,
             <<"promote", "TLOGO">>, <<"stage", "TSONIC">>, <<"promote", "TSONIC">>>>
        \o Each("stage", <<"AIZOBJ", "HBH", "PLR">>) \o Do("arm")
AizSeam == Each("stage", AizPlayers \o <<"RUBY">>) \o Do("floor")
           \o Each("frd", <<"AIZOBJ", "SONIC", "TAILS">>)
           \o Each("fallback", <<"AIZOBJ", "SONIC", "TAILS">>)
           \o Each("promote", <<"SONIC23">>) \o Do("arm") \o Do("attach") \o Do("windows")
CutsceneSeam == Each("stage", CutsceneFrds) \o Do("arm") \o Do("reclaim")
                \o Each("promote", <<"PLR", "HBH">>) \o Each("frd", CutsceneFrds)
                \o Each("fallback", CutsceneFrds) \o Do("attach")

GhzStaging == Each("stage", Landing)
GhzRebuild == Do("reclaim") \o Each("frd", Landing)
              \o Each("fallback", <<"SONIC", "SONIC23", "TAILS", "DISPLAY", "ZONE",
                                    "ITEMS", "EXPLOS">>)
              \o Each("promote", <<"DISPLAY">>) \o Do("attach")
GhzArmed == Do("arm") \o Do("attach") \o Do("fg")
\* faulty: the backdrop files come through the window after the rebuild
GhzSeamLate == GhzStaging \o GhzRebuild \o Do("fg") \o Do("sky") \o GhzArmed
GhzSeam == GhzStaging \o Do("fg") \o Do("sky") \o GhzRebuild \o GhzArmed

Seam == [Logos |-> Boot, Title |-> Do("arm"), AIZ |-> AizSeam,
         Cutscene |-> CutsceneSeam, GHZ |-> GhzSeam]

Plays == pc > Len(Seam[leg])
At(op, s) == pc <= Len(Seam[leg]) /\ Seam[leg][pc] = <<op, s>> /\ pc' = pc + 1

Init ==
  /\ leg = "Logos" /\ pc = 1 /\ staged = {}
  /\ resident = [s \in Sheets |-> None] /\ frds = <<>>
  /\ route = [s \in Sheets |-> 0] /\ bound = [s \in Sheets |-> Unbound]
  /\ cursor = 0 /\ cart = {} /\ fg = FALSE /\ sky = FALSE
  /\ faults = 0 /\ missed = {}

Miss(what, n) ==
  /\ faults + n <= MaxFaults /\ faults' = faults + n
  /\ missed' = IF n = 0 THEN missed ELSE missed \cup {what}
Read(what, ok) == Miss(what, IF ok THEN 0 ELSE 1)

-------------------------------------------------------------------------------
(* Their steps.                                                              *)

\* FindSlot, load, SaturnSheet_Stage, SetHash
Stage(s) ==
  /\ At("stage", s)
  /\ \E ok \in BOOLEAN :
       /\ s \in staged => ok
       /\ Read("sheet", ok) /\ staged' = IF ok THEN staged \cup {s} ELSE staged
  /\ cart' = IF s \notin staged /\ leg = "Cutscene" THEN Over(cart, ShtBounce) ELSE cart
  /\ UNCHANGED <<leg, storeVars, skyVars>>

RouteKept == route                        \* faulty: clear_store forgotten
RouteAfterReset == [s \in Sheets |-> 0]
CursorKept == cursor                      \* faulty: not rewound
CursorAfterReset == Rewound

\* SaturnSheet_ResReset, SaturnFrameDir_Reset, detach_all, clear_store
Reclaim ==
  /\ At("reclaim", "all")
  /\ resident' = [s \in Sheets |-> None]
  /\ cursor' = CursorAfterReset
  /\ frds' = <<>> /\ route' = RouteAfterReset
  /\ bound' = [s \in Sheets |-> IF bound[s] = Unbound THEN Unbound ELSE 0]
  /\ UNCHANGED <<leg, staged, cart, skyVars, faultVars>>

FitsUnchecked(at, size) == at \in Nat     \* faulty: no bounds check
Fits(at, size) == at + size <= End

\* faulty: the claim forgets the bytes before the floor
ClaimedFromCursor(at, size) == cursor + size
Claimed(at, size) == at + size

MakeResident(s) ==
  IF s \in staged /\ Fits(cursor, Raw[s])
  THEN /\ resident' = [resident EXCEPT ![s] = cursor]
       /\ cart' = Placed(cart, <<"res", s, cursor>>)
       /\ cursor' = Claimed(cursor, Raw[s])
  ELSE UNCHANGED <<resident, cart, cursor>>

Promote(s) ==
  /\ At("promote", s) /\ MakeResident(s)
  /\ UNCHANGED <<leg, staged, frds, route, bound, skyVars, faultVars>>

\* SaturnFrameDir_FindSlot, counted from 1
Blob(s) ==
  LET slots == {i \in DOMAIN frds : frds[i][1] = s}
  IN IF slots = {} THEN 0 ELSE CHOOSE i \in slots : \A j \in slots : i <= j

Fallback(s) ==
  /\ At("fallback", s)
  /\ IF Blob(s) = 0 THEN MakeResident(s) ELSE UNCHANGED <<resident, cart, cursor>>
  /\ UNCHANGED <<leg, staged, frds, route, bound, skyVars, faultVars>>

AtLeast(floor) == IF cursor < floor THEN floor ELSE cursor

\* p6_vdp1_frd_set_store, in the seams that call it
Routed(s, n) == IF leg # "AIZ" /\ s \in staged THEN [route EXCEPT ![s] = n] ELSE route

\* p6_frd_stage_file: the blob is there, is loaded, or is left out
FrdFound(s) ==
  /\ route' = Routed(s, Blob(s))
  /\ UNCHANGED <<frds, cursor, cart, faultVars>>

FrdLoaded(s) ==
  LET at == AtLeast(FrdFloor) IN
  /\ Fits(at, Frd[s]) /\ Len(frds) < FrdSlots
  /\ frds' = Append(frds, <<s, at>>)
  /\ route' = Routed(s, Len(frds) + 1)
  /\ cursor' = Claimed(at, Frd[s])
  /\ cart' = Placed(cart, <<"frd", s, at>>)
  /\ UNCHANGED faultVars

FrdLeftOut(s) ==
  LET at == AtLeast(FrdFloor) IN
  /\ Read("sheet", ~Fits(at, Frd[s]) \/ Len(frds) >= FrdSlots)
  /\ cursor' = at
  /\ UNCHANGED <<frds, route, cart>>

FrdStage(s) ==
  /\ At("frd", s)
  /\ IF Blob(s) # 0 THEN FrdFound(s) ELSE FrdLoaded(s) \/ FrdLeftOut(s)
  /\ UNCHANGED <<leg, staged, resident, bound, skyVars>>

Floor ==
  /\ At("floor", "all") /\ cursor' = AtLeast(AizFloor)
  /\ UNCHANGED <<leg, staged, resident, frds, route, bound, cart, skyVars, faultVars>>

\* the bind loop of p6_ghz_arm_env: what is bound stays as it is
Arm ==
  /\ At("arm", "all")
  /\ bound' = [s \in Sheets |-> IF s \in Drawn[leg] \cap staged /\ bound[s] = Unbound
                                THEN Blob(s) ELSE bound[s]]
  /\ UNCHANGED <<leg, staged, resident, frds, route, cursor, cart, skyVars, faultVars>>

\* p6_frd_attach_bound
Attach ==
  /\ At("attach", "all")
  /\ bound' = [s \in Sheets |-> IF bound[s] # Unbound /\ Blob(s) # 0
                                THEN Blob(s) ELSE bound[s]]
  /\ UNCHANGED <<leg, staged, resident, frds, route, cursor, cart, skyVars, faultVars>>

\* AIZBG.*
Windows ==
  /\ At("windows", "all")
  /\ \E ok \in BOOLEAN : Read("scratch", ok)
  /\ cart' = Over(cart, AizWindows)
  /\ UNCHANGED <<leg, staged, storeVars, skyVars>>

\* AGHFG.* at the seam, and again after the scene is armed
Fg ==
  /\ At("fg", "all")
  /\ \E ok \in BOOLEAN :
       /\ fg => ok
       /\ Read("scratch", ok) /\ fg' = ok
  /\ cart' = IF fg THEN cart ELSE Over(cart, GhzFg)
  /\ UNCHANGED <<leg, staged, storeVars, sky>>

\* AGHFS.* at the seam
Sky ==
  /\ At("sky", "all")
  /\ IF fg /\ ~sky
     THEN /\ sky' \in BOOLEAN /\ Read("scratch", sky') /\ cart' = Over(cart, GhzSky)
     ELSE UNCHANGED <<sky, cart, faultVars>>
  /\ UNCHANGED <<leg, staged, storeVars, fg>>

-------------------------------------------------------------------------------
(* A frame of the scene: the routes are refreshed, the deformation written,   *)
(* and what backdrop is missing is tried again.                             *)
Frame ==
  LET lacksFg == leg = "GHZ" /\ ~fg
      lacksSky(f) == ~sky /\ (leg = "Cutscene" \/ (leg = "GHZ" /\ f))
      deformed == IF leg = "Logos" THEN cart ELSE Over(cart, Scanlines)
      composed == IF lacksFg THEN Over(deformed, GhzFg) ELSE deformed
  IN
  /\ Plays
  /\ fg' \in (IF lacksFg THEN BOOLEAN ELSE {fg})
  /\ sky' \in (IF lacksSky(fg') THEN BOOLEAN ELSE {sky})
  /\ Miss("scratch", (IF lacksFg /\ ~fg' THEN 1 ELSE 0)
                     + (IF lacksSky(fg') /\ ~sky' THEN 1 ELSE 0))
  /\ cart' = IF lacksSky(fg') THEN Over(composed, IF fg' THEN GhzSky ELSE CutsceneSky)
             ELSE composed
  /\ route' = [s \in Sheets |-> IF leg = "GHZ" /\ s \in staged /\ Blob(s) # 0
                                THEN Blob(s) ELSE route[s]]
  /\ UNCHANGED <<leg, pc, staged, resident, frds, bound, cursor>>

NextLeg ==
  /\ Plays /\ leg # "GHZ"
  /\ leg' = Following(leg) /\ pc' = 1
  /\ bound' = [s \in Sheets |-> Unbound] /\ missed' = {}
  /\ UNCHANGED <<staged, resident, frds, route, cursor, cart, skyVars, faults>>

SheetStep(s) == Stage(s) \/ Promote(s) \/ Fallback(s) \/ FrdStage(s)
Next == (\E s \in Sheets : SheetStep(s)) \/ Reclaim \/ Floor \/ Arm \/ Attach
        \/ Windows \/ Fg \/ Sky \/ Frame \/ NextLeg
Spec == Init /\ [][Next]_vars

-------------------------------------------------------------------------------
(* Properties.                                                               *)

(* The extents the slots and the registry still point to.                     *)
Live == {<<"res", s, resident[s]>> : s \in {t \in Sheets : resident[t] # None}}
        \cup {<<"frd", frds[i][1], frds[i][2]>> : i \in DOMAIN frds}

(* The residents and the blobs share one bump allocator, and blobs are loaded  *)
(* to where it stands before they are claimed: no two overlap, and what comes  *)
(* next goes behind them all.                                               *)
StoreDisjoint ==
  /\ \A e \in Live : e[3] + SizeOf(e) <= cursor
  /\ \A e, f \in Live : e # f => e[3] + SizeOf(e) <= f[3] \/ f[3] + SizeOf(f) <= e[3]

(* A sheet is never drawn from another sheet's frames: a route by store slot   *)
(* or by handle leads to a blob in the registry, and to the sheet's own, after *)
(* every rewind, restage and rebinding.                                     *)
RouteOwn ==
  \A s \in Sheets :
    /\ route[s] # 0 => route[s] \in DOMAIN frds /\ frds[route[s]][1] = s
    /\ bound[s] \notin {Unbound, 0} => bound[s] \in DOMAIN frds /\ frds[bound[s]][1] = s

Serving(s) == IF route[s] # 0 THEN route[s] ELSE bound[s]      \* p6_frd_slot_for_sheet
Source(s) ==
  IF Serving(s) # 0 THEN {<<"frd", s, frds[Serving(s)][2]>>}
  ELSE IF resident[s] # None THEN {<<"res", s, resident[s]>>} ELSE {}
DrawnNow == {s \in Sheets : bound[s] # Unbound}

(* While a scene plays, what its sprites are drawn from is as it was put there: *)
(* no backdrop, bounce or scanline has been written over it.  Residents at the *)
(* very start of the store are ResidentsConsistent's; a landing whose backdrop *)
(* could not be read in time accepts the loss, and in the cutscene the sheets *)
(* that stand in for a blob may reach the sky's window.                      *)
PixelsIntact ==
  Plays /\ ~(leg = "GHZ" /\ "scratch" \in missed)
        /\ ~(leg = "Cutscene" /\ "sheet" \in missed) =>
    \A s \in DrawnNow : \A e \in Source(s) :
      (e[1] = "res" /\ e[3] < Scanlines[2]) \/ e \in cart

(* The landing never inflates on a draw: if its own reads succeed, whatever    *)
(* failed in the legs before, each of its sheets is drawn from its blob, and   *)
(* the card's letters, which do not ask the blobs, from the resident copy.    *)
LandingServed ==
  leg = "GHZ" /\ Plays /\ "sheet" \notin missed =>
    /\ \A s \in Drawn["GHZ"] : s \in DrawnNow /\ Serving(s) # 0
    /\ resident["DISPLAY"] # None

(* What the files of the disc satisfy: the blobs of the landing and the card's *)
(* letters fit the store, and what the cutscene places stays below the window *)
(* of its sky.                                                              *)
LandingFits ==
  /\ FrdFloor + Frd["SONIC"] + Frd["SONIC23"] + Frd["ITEMS"] + Frd["DISPLAY"] + Frd["TAILS"]
     + Frd["ZONE"] + Frd["EXPLOS"] + Raw["DISPLAY"] <= End
  /\ Len(Landing) <= FrdSlots
CutsceneFits ==
  /\ FrdFloor + Raw["PLR"] + Raw["HBH"] + Frd["GHC"] + Frd["RUBY"] + Frd["ITEMS"]
     + Frd["DISPLAY"] <= CutsceneSky[1]
  /\ Len(CutsceneFrds) <= FrdSlots

(* p6_io_main.cpp says of the order of the cutscene's seam that it "leaves the *)
(* registry, the blobs and the residents consistent for the whole cutscene".  *)
ResidentsConsistent ==
  leg = "Cutscene" /\ Plays /\ missed = {} =>
    \A s \in DrawnNow : \A e \in Source(s) : e \in cart
===============================================================================
