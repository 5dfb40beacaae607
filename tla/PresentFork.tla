------------------------------ MODULE PresentFork ------------------------------
(***************************************************************************)
(* The two SH-2 of the console and the foreground present (p6_vdp2.c, the    *)
(* frame in p6_io_main.cpp, slave.c).  The master runs the objects, forks    *)
(* the composition of the plane onto the slave, draws, joins and ends the    *)
(* frame in slSynch.  In the scenes that are not forked the master composes  *)
(* the plane itself.  While the first scene loads, with interrupts masked,   *)
(* the slave animates the splash.  Otherwise a vertical blank interrupts the *)
(* master anywhere and copies a plane that is marked pending into the VDP2.  *)
(*                                                                         *)
(* No processor sees the other's cache: a word is read from the own cache if *)
(* the line is there, a store goes to the memory and to the own line if      *)
(* there is one, a line may be evicted at any time.  What both use without    *)
(* the cache (the arguments of the fork, its done flag, the splash flag, the *)
(* plane) has no line.  The slave runs one function at a time.              *)
(***************************************************************************)
EXTENDS Integers

CONSTANTS Cams, View, Plane, Versions, SceneSize

ASSUME PlaneAssumption ==
  /\ Cams \subseteq Nat
  /\ View \in Nat \ {0} /\ Plane \in Nat /\ View + 3 <= Plane
ASSUME VersionsAssumption ==
  Versions \subseteq Nat /\ 0 \in Versions /\ SceneSize \in Nat \ {0}

Cpus == {"master", "slave"}
Words == {"dirty",    \* p6_vdp2_present_dirty
          "layers",   \* the tiles of the layers and their format, by version
          "windows",  \* the layer windows: where they were filled last
          "pending"}  \* p6_fg_dma_pending

VARIABLES
  master,     \* where the master is in the frame
  slave,      \* what the slave runs: idle, splash or present
  stage,      \* where the composition is, on whichever processor
  ctx,        \* its camera
  whole,      \* it composes the plane from nothing
  left,       \* the columns still to be composed
  mirrored,   \* p6_fg_dma_pending as the slave has read it back
  mem, cache, \* words shared through the caches; -1 = no line
  done,       \* __jo_slave_done_flag
  go,         \* s_bsp_go
  splash,     \* p6_bootsplash_active, with frames to animate
  forked,     \* the present of this scene is forked
  args,       \* s_present_args
  cam,        \* screens[0].position
  last,       \* s_last_ctx
  page,       \* the plane in the cartridge
  map,        \* the plane in the VDP2
  pub,        \* p6_fg_scroll_x
  view,       \* the scroll registers
  sky         \* the sky's CRAM banks hold its colours

frameVars == <<cam, forked, splash>>
workVars == <<ctx, whole, left, mirrored>>
screenVars == <<page, map, pub, view, last>>
vars == <<master, slave, stage, ctx, whole, left, mirrored, mem, cache, done,
          go, splash, forked, args, cam, last, page, map, pub, view, sky>>

(* The present both presents implement: the composition has happened when     *)
(* its last step is taken, and until then the page is what the screen shows.  *)
Composing == stage \in {"start", "clear", "fill", "finish"}
PhaseOf ==
  IF master \in {"boot", "objects", "load"} THEN "objects"
  ELSE IF master \in {"unload", "synch"} \/ (master = "sky" /\ ~forked) THEN "synch"
  ELSE IF master = "kick" \/ Composing THEN "compute" ELSE "config"
PageOf == IF Composing THEN map ELSE page
Present == INSTANCE ForegroundPresent WITH
             phase <- PhaseOf, layers <- mem["layers"], dirty <- mem["dirty"],
             page <- PageOf, cam <- cam, last <- last, map <- map, pub <- pub,
             view <- view

Blank == Present!Blank
SceneOf(l) == Present!SceneOf(l)
Col(c) == Present!Col(c)
Rect(x) == Present!Rect(x)

NoLine == -1
By == IF slave = "present" THEN "slave" ELSE "master"

TypeOK ==
  /\ master \in {"boot", "unload", "objects", "load", "kick", "inline", "sky", "join", "synch"}
  /\ slave \in {"idle", "splash", "present"}
  /\ stage \in {"none", "start", "clear", "fill", "finish", "palette", "mirror", "store", "return"}
  /\ ctx \in Cams \cup {Present!NoCam} /\ whole \in BOOLEAN /\ mirrored \in {0, 1}
  /\ left \subseteq Int
  /\ mem \in [Words -> Nat] /\ cache \in [Cpus -> [Words -> Nat \cup {NoLine}]]
  /\ mem["layers"] \in Versions /\ mem["dirty"] \in {0, 1} /\ mem["pending"] \in {0, 1}
  /\ done \in BOOLEAN /\ go \in BOOLEAN /\ splash \in BOOLEAN /\ forked \in BOOLEAN
  /\ sky \in BOOLEAN
  /\ args \in Cams \cup {Present!NoCam} /\ cam \in Cams
  /\ last \in Cams \cup {Present!NoCam}
  /\ page \in [0 .. Plane - 1 -> (Versions \cup {-1}) \X Int]
  /\ map \in [0 .. Plane - 1 -> (Versions \cup {-1}) \X Int]
  /\ pub \in [cam : Nat, scene : Int] /\ view \in [cam : Nat, scene : Int]

Init ==
  /\ splash \in BOOLEAN /\ go = splash
  /\ master = "boot" /\ slave = (IF go THEN "splash" ELSE "idle") /\ stage = "none"
  /\ ctx = Present!NoCam /\ whole = FALSE /\ left = {} /\ mirrored = 0
  /\ mem = [w \in Words |-> IF w = "dirty" THEN 1 ELSE 0]
  /\ cache = [p \in Cpus |-> [w \in Words |-> NoLine]]
  /\ done = FALSE /\ forked \in BOOLEAN
  /\ args = Present!NoCam /\ cam \in Cams /\ last = Present!NoCam
  /\ page = [k \in 0 .. Plane - 1 |-> Blank] /\ map = page
  /\ pub = Present!NoView /\ view = Present!NoView /\ sky = FALSE

-------------------------------------------------------------------------------
(* Words and lines.                                                          *)

Read(p, w) == IF cache[p][w] = NoLine THEN mem[w] ELSE cache[p][w]
Loaded(c, p, W) == [c EXCEPT ![p] = [w \in Words |-> IF w \in W THEN Read(p, w) ELSE @[w]]]
Put(c, p, w, v) == [c EXCEPT ![p][w] = IF @ = NoLine THEN NoLine ELSE v]
NoLines == [w \in Words |-> NoLine]

Evict(p, w) ==
  /\ cache[p][w] # NoLine
  /\ cache' = [cache EXCEPT ![p][w] = NoLine]
  /\ UNCHANGED <<master, slave, stage, workVars, mem, done, go, frameVars, args,
                 screenVars, sky>>

DirtyCounted == mem["dirty"] + 1                 \* faulty: a counter, not a flag
DirtyKept == mem["dirty"]                        \* faulty: not set
DirtySet == 1

-------------------------------------------------------------------------------
(* The master: p6_ghz_frame, p6_frontend_frame.                              *)

(* ProcessObjects: the camera moves, collisions read tiles through the        *)
(* windows, which are filled around it, and may remove one.                  *)
Objects ==
  LET seen == Loaded(cache, "master", {"layers", "windows"}) IN
  /\ master = "objects"
  /\ cam' \in {x \in Cams : Present!Near(cam, x)}
  /\ \/ /\ mem' = [mem EXCEPT !["windows"] = cam']
        /\ cache' = Put(seen, "master", "windows", cam')
     \/ /\ mem["layers"] + 1 \in Versions
        /\ SceneOf(mem["layers"] + 1) = SceneOf(mem["layers"])
        /\ mem' = [mem EXCEPT !["windows"] = cam', !["layers"] = @ + 1, !["dirty"] = DirtySet]
        /\ cache' = Put(Put(Put(seen, "master", "windows", cam'),
                            "master", "layers", mem["layers"] + 1), "master", "dirty", DirtySet)
  /\ master' = IF splash THEN "synch" ELSE "kick"
  /\ UNCHANGED <<slave, stage, workVars, done, go, forked, splash, args, screenVars, sky>>

GoKept == go                                     \* faulty: the splash is not told
GoCleared == FALSE

(* p6_load_phase_exit, the first scene is there: the splash loop has to stop.  *)
Boot ==
  /\ master = "boot" /\ go' = GoCleared
  /\ master' = IF go THEN "unload" ELSE "synch"
  /\ UNCHANGED <<slave, stage, workVars, mem, cache, done, frameVars, args, screenVars, sky>>

(* The engine leaves for another scene; on the way to the title the splash is  *)
(* torn down first.                                                         *)
LoadEnter ==
  /\ master = "objects" /\ master' = "load"
  /\ \E n \in Versions : n > mem["layers"] /\ n % SceneSize = 0
  /\ splash' \in {splash, FALSE}
  /\ UNCHANGED <<slave, stage, workVars, mem, cache, done, go, cam, forked, args,
                 screenVars, sky>>

(* p6_scene_load_and_arm: the scene is loaded and armed.                       *)
LoadScene ==
  /\ master = "load" /\ master' = "synch"
  /\ \E n \in Versions :
       /\ n > mem["layers"] /\ n % SceneSize = 0
       /\ mem' = [mem EXCEPT !["layers"] = n, !["dirty"] = DirtySet, !["windows"] = 0]
       /\ cache' = Put(Put(Put(cache, "master", "layers", n), "master", "dirty", DirtySet),
                       "master", "windows", 0)
  /\ cam' \in Cams /\ forked' \in BOOLEAN /\ sky' = FALSE
  /\ UNCHANGED <<slave, stage, workVars, done, go, splash, args, screenVars>>

DoneKept == done                                 \* faulty: the flag stays set
DoneAfterJoin == FALSE

LinesKept == cache["master"]                     \* faulty: no slCashPurge
LinesAfterJoin == NoLines

(* jo_core_wait_for_slave.                                                   *)
Wait ==
  /\ done /\ done' = DoneAfterJoin
  /\ cache' = [cache EXCEPT !["master"] = LinesAfterJoin]

Unload ==
  /\ master = "unload" /\ Wait /\ master' = "synch"
  /\ UNCHANGED <<slave, stage, workVars, mem, go, frameVars, args, screenVars, sky>>

(* p6_present_kick.  The slave is free: slSlaveFunc would queue it behind.    *)
Kick ==
  /\ master = "kick" /\ forked /\ slave = "idle"
  /\ args' = cam /\ slave' = "present" /\ stage' = "start" /\ master' = "sky"
  /\ UNCHANGED <<workVars, mem, cache, done, go, frameVars, screenVars, sky>>

(* p6_vdp2_present_ghz_camera: the same composition on the master.            *)
Inline ==
  /\ master = "kick" /\ ~forked
  /\ args' = cam /\ stage' = "start" /\ master' = "inline"
  /\ UNCHANGED <<slave, workVars, mem, cache, done, go, frameVars, screenVars, sky>>

(* p6_vdp2_ghzcut_bg_frame writes the sky's banks.  Drawing needs nothing of  *)
(* the foreground.                                                          *)
DrawSky ==
  /\ master = "sky" /\ sky' = TRUE
  /\ master' = IF forked THEN "join" ELSE "synch"
  /\ UNCHANGED <<slave, stage, workVars, mem, cache, done, go, frameVars, args, screenVars>>

(* p6_vdp2_upload_ghzfg_4bpp when the seam could not read its files: a later   *)
(* frame does, and changes the format of the tiles, a version of the layers   *)
(* like a removed tile.  Reading 128 KB from the CD takes many frames, so the *)
(* composition forked before it is over, though the join is still to come.   *)
LateUpload ==
  /\ master = "sky" /\ forked /\ done
  /\ mem["layers"] + 1 \in Versions
  /\ SceneOf(mem["layers"] + 1) = SceneOf(mem["layers"])
  /\ mem' = [mem EXCEPT !["layers"] = @ + 1, !["dirty"] = DirtySet]
  /\ cache' = [cache EXCEPT !["master"] = NoLines]
  /\ UNCHANGED <<master, slave, stage, workVars, done, go, frameVars, args, screenVars, sky>>

Config == pub' = [cam |-> cam, scene |-> SceneOf(mem["layers"])]

(* p6_present_join_config: join, then the part only the master may do; the      *)
(* sky's banks are written again, over what the slave's upload left in them.  *)
Join ==
  /\ master = "join" /\ Wait /\ Config
  /\ sky' = TRUE /\ master' = "synch"
  /\ UNCHANGED <<slave, stage, workVars, mem, go, frameVars, args, page, map, view, last>>

InlineConfig ==
  /\ master = "inline" /\ stage = "return"
  /\ Config /\ stage' = "none" /\ master' = "sky"
  /\ UNCHANGED <<slave, workVars, mem, cache, done, go, frameVars, args, page, map, view,
                 last, sky>>

SlaveLinesKept == cache["slave"]                 \* faulty: not purged
SlaveLinesAfterSynch == NoLines

DmaEachBlank == TRUE                             \* faulty: half a plane goes, too
DmaPending == Read("master", "pending") = 1

(* p6_fg_vblank, in an interrupt of the master, masked during the first load;  *)
(* slSynch ends with one, once the slave takes commands again, the first of   *)
(* which purges its cache.                                                   *)
VBlank ==
  LET dma == DmaPending
      seen == Loaded(cache, "master", {"pending"})
      ends == master = "synch" /\ slave = "idle"
      kept == IF dma THEN Put(seen, "master", "pending", 0) ELSE seen
  IN
  /\ master \notin {"boot", "unload"}
  /\ map' = IF dma THEN page ELSE map
  /\ mem' = IF dma THEN [mem EXCEPT !["pending"] = 0] ELSE mem
  /\ view' = pub
  /\ cache' = IF ends THEN [kept EXCEPT !["slave"] = SlaveLinesAfterSynch] ELSE kept
  /\ master' = IF ends THEN "objects" ELSE master
  /\ UNCHANGED <<slave, stage, workVars, done, go, frameVars, args, page, pub, last, sky>>

-------------------------------------------------------------------------------
(* p6_present_compute, on the slave or on the master, and what runs around it *)
(* on the slave.                                                            *)

Start ==
  LET d == Read(By, "dirty") IN
  /\ stage = "start"
  /\ cache' = Loaded(cache, By, {"dirty"})
  /\ ctx' = args /\ whole' = (d = 1)
  /\ IF d = 1 \/ args # last
     THEN left' = Rect(args) /\ stage' = IF d = 1 THEN "clear" ELSE "fill"
     ELSE stage' = "palette" /\ UNCHANGED left
  /\ UNCHANGED <<master, slave, mirrored, mem, done, go, frameVars, args, screenVars, sky>>

Clear ==
  /\ stage = "clear" /\ stage' = "fill"
  /\ page' = [k \in 0 .. Plane - 1 |-> Blank]
  /\ UNCHANGED <<master, slave, workVars, mem, cache, done, go, frameVars, args,
                 last, map, pub, view, sky>>

(* A column after the other: its tiles are read through the windows, which    *)
(* are filled around it.                                                    *)
FillColumn ==
  LET seen == Loaded(cache, By, {"layers", "windows"}) IN
  /\ stage = "fill"
  /\ \E k \in left :
       /\ \A j \in left : k <= j
       /\ page' = [page EXCEPT ![Col(k)] = <<Read(By, "layers"), k>>]
       /\ left' = left \ {k}
       /\ stage' = IF left = {k} THEN "finish" ELSE "fill"
  /\ mem' = [mem EXCEPT !["windows"] = ctx]
  /\ cache' = Put(seen, By, "windows", ctx)
  /\ UNCHANGED <<master, slave, ctx, whole, mirrored, done, go, frameVars, args,
                 last, map, pub, view, sky>>

Finish ==
  /\ stage = "finish" /\ stage' = "palette"
  /\ last' = ctx
  /\ mem' = [mem EXCEPT !["dirty"] = 0, !["pending"] = 1]
  /\ cache' = Put(Put(cache, By, "dirty", 0), By, "pending", 1)
  /\ UNCHANGED <<master, slave, workVars, done, go, frameVars, args, page, map, pub, view, sky>>

(* The foreground's colours; those of the 8bpp scenes include the sky's banks. *)
Palette ==
  /\ stage = "palette"
  /\ stage' = IF By = "slave" THEN "mirror" ELSE "return"
  /\ sky' \in {sky, FALSE}
  /\ UNCHANGED <<master, slave, workVars, mem, cache, done, go, frameVars, args, screenVars>>

(* p6_present_slave_entry stores what it reads back past the cache.           *)
Mirror ==
  /\ stage = "mirror" /\ stage' = "store"
  /\ mirrored' = Read("slave", "pending")
  /\ cache' = Loaded(cache, "slave", {"pending"})
  /\ UNCHANGED <<master, slave, ctx, whole, left, mem, done, go, frameVars, args,
                 screenVars, sky>>
Store ==
  /\ stage = "store" /\ stage' = "return"
  /\ mem' = [mem EXCEPT !["pending"] = mirrored]
  /\ UNCHANGED <<master, slave, workVars, cache, done, go, frameVars, args, screenVars, sky>>

(* jo_core_slave_bootstrap, after the function has returned.                  *)
Return ==
  /\ slave = "present" /\ stage = "return"
  /\ done' = TRUE /\ slave' = "idle" /\ stage' = "none"
  /\ ctx' = Present!NoCam /\ whole' = FALSE /\ left' = {} /\ mirrored' = 0
  /\ UNCHANGED <<master, mem, cache, go, frameVars, args, screenVars, sky>>

(* p6_bsp_slave_entry, once it reads that the load is over.                    *)
SplashEnds ==
  /\ slave = "splash" /\ ~go
  /\ done' = TRUE /\ slave' = "idle"
  /\ UNCHANGED <<master, stage, workVars, mem, cache, go, frameVars, args, screenVars, sky>>

Master == Boot \/ Objects \/ LoadEnter \/ LoadScene \/ Unload \/ Kick \/ Inline \/ DrawSky
          \/ Join \/ InlineConfig
Compute == Start \/ Clear \/ FillColumn \/ Finish \/ Palette \/ Mirror \/ Store \/ Return
Next == Master \/ LateUpload \/ Compute \/ SplashEnds \/ VBlank
        \/ \E p \in Cpus, w \in Words : Evict(p, w)

(* Neither processor stops, and the blanks keep coming.                       *)
Fairness == WF_vars(Master) /\ WF_vars(Compute) /\ WF_vars(SplashEnds) /\ WF_vars(VBlank)
Spec == Init /\ [][Next]_vars /\ Fairness

-------------------------------------------------------------------------------
(* Properties.                                                               *)

(* The layer windows, the inflate scratch and the layers have one user at a    *)
(* time: when the master runs the objects or loads a scene, no composition is  *)
(* under way.  And whoever reads them, or the flag that asks for a new plane,  *)
(* holds no line from before the other processor's last store.               *)
Fresh(p, W) == \A w \in W : cache[p][w] \in {NoLine, mem[w]}
OneUserAndFresh ==
  /\ master \in {"boot", "objects", "load", "kick"} =>
       stage = "none" /\ Fresh("master", {"dirty", "layers", "windows"})
  /\ Composing => Fresh(By, {"dirty", "layers", "windows"})

(* The plane on the screen is never a half composed one: if a column of the    *)
(* view is of the scene the view was published for, every column of it is the *)
(* layers' own at that place, all of one version.                            *)
NothingTorn ==
  \A c \in Present!Visible(view) :
    map[Col(c)] # Blank /\ SceneOf(map[Col(c)][1]) = view.scene =>
      \A k \in Present!Visible(view) : map[Col(k)] = <<map[Col(c)][1], k>>

(* The fork is a present like the one on the master: see ForegroundPresent.    *)
PresentSpec == Present!Spec

(* From the end of a scene's first present on, the sky's banks hold its colours *)
(* whenever no present is under way: in slSynch, through the blank that shows   *)
(* the frame and while the objects run.  The palette upload, which puts the    *)
(* foreground's colours there, is over before the master writes the sky again, *)
(* on the slave, too, and none of it comes after the join.                   *)
Presenting == master \in {"inline", "sky", "join"}
SkyKept == ~Presenting /\ pub.scene = SceneOf(mem["layers"]) => sky

(* Whatever changes in the layers comes on the screen, whichever processor      *)
(* composes and whatever its cache held.                                     *)
ShowsFrom(n) == \A c \in Present!Visible(view) : map[Col(c)][1] >= n
ChangeShown == \A n \in Versions : mem["layers"] >= n /\ ~splash ~> ShowsFrom(n)

(* No join and no slSynch waits for ever.                                      *)
FrameComesRound == []<>(master = "objects")
===============================================================================
