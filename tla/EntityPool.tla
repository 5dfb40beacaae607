----------------------------- MODULE EntityPool -----------------------------
(***************************************************************************)
(* The scene entities of Green Hill Zone.  The engine names an entity by   *)
(* its scene slot; after a load the pool is shrunk, and a remap table says *)
(* which of the few physical slots a scene slot lives in.  Every tick the  *)
(* stream frees the slots of what the camera left behind and brings back   *)
(* what it comes near from a store of records, written at build time.      *)
(* The Visit loop of ProcessObjects then runs over the near slots.         *)
(*                                                                         *)
(* This is the build that reaches the zone through the front end           *)
(* (P6_FRONTEND_MENU): its loop runs over scene slots, not physical ones.  *)
(* Scene slots are counted without the reserve before them.                *)
(***************************************************************************)
EXTENDS Integers, FiniteSets

CONSTANTS
    SCN,        \* scene slots (SCENEENTITY_COUNT)
    SP,         \* physical slots after the shrink (P6_POOL_SCENE_PHYS)
    Acts,       \* scenes of the folder
    StoreAct,   \* the scene whose records were loaded at boot
    Items,      \* what a scene places
    None,       \* no entity
    Scene,      \* Scene[a][L]: the item act a places in slot L, or None
    SpawnX,     \* where an item is placed
    Reach,      \* the x half-extent of its update range, updateRange.x
    Managers,   \* items whose Create leaves them active everywhere
    Cams,       \* camera positions
    Spawns,     \* camera positions of a load
    Window,     \* P6_SCAN_WINDOW
    Margin,     \* the 512 of the index build
    Offset,     \* half the screen, cameras[].offset.x
    Drift       \* how far an item that is not active everywhere strays

Slots == 0 .. SCN - 1
Dummy == SP - 1          \* what scene slots without a physical slot resolve to
Pool  == 0 .. SP - 2

Near(x, c) == x >= c - Window /\ x <= c + Window

\* An item the x window may hide: neither active everywhere nor too wide.
Pinned(i) == i \in Managers \/ Reach[i] + Margin > Window

Placed(a) == {L \in Slots : Scene[a][L] # None}

\* What is resident after a load with the camera at c, if the slots born
\* survive their Create.
SpawnNear(a, born, c) ==
    {L \in born : Pinned(Scene[a][L]) \/ Near(SpawnX[Scene[a][L]], c)}

ASSUME SizesAssumption ==
    SCN \in Nat /\ SP \in Nat /\ 0 < SP /\ SP <= SCN

ASSUME SceneAssumption ==
    /\ Scene \in [Acts -> [Slots -> Items \cup {None}]]
    /\ None \notin Items
    /\ StoreAct \in Acts
    /\ SpawnX \in [Items -> Int] /\ Reach \in [Items -> Nat]
    /\ Cams \subseteq Int /\ Spawns \subseteq Cams

\* The margin pays for the screen and for what a mover strays from its spawn.
ASSUME DriftAssumption ==
    /\ Window \in Nat /\ Margin \in Nat /\ Offset \in Nat /\ Drift \in Nat
    /\ Offset + Drift <= Margin

\* The compaction does not count: what is near at a spawn must fit the pool.
ASSUME SpawnFits ==
    \A a \in Acts, c \in Spawns : \A born \in SUBSET Placed(a) :
        Cardinality(SpawnNear(a, born, c)) < SP

VARIABLES
    act,     \* the scene loaded
    remap,   \* scene slot -> physical slot
    mem,     \* the physical slots
    free,    \* the free list, as a set: which slot is popped does not matter
    resid,   \* the resident list, as a set
    life,    \* scene slots whose entity was seen dead
    index,   \* the sorted index: scene slot -> x when it was built
    always,  \* p6_scan_always
    near,    \* p6_scan_near
    cam,
    phase,   \* load, idle, drop, fill or run: where the tick is
    todo,    \* slots the fill or the loop has still to come to
    fresh,   \* a load has built the index since the last frame
    built,   \* s_ghz_idx_built
    killed,  \* history: slots whose entity is gone for this life
    late     \* history: slots let loose by another after their own turn

pool == <<remap, mem, free, resid, life>>
scan == <<index, always, near, cam>>
vars == <<act, pool, scan, phase, todo, fresh, built, killed, late>>

Blank   == [of |-> None, x |-> 0, loose |-> FALSE]
Live    == [of : Items, x : Int, loose : BOOLEAN]
Born(i) == [of |-> i, x |-> SpawnX[i], loose |-> i \in Managers]

At(L)    == mem[remap[L]]
Alive(L) == At(L).of # None

Abs(n)      == IF n < 0 THEN -n ELSE n
InRange(e)  == e.loose \/ Abs(e.x - cam) <= Reach[e.of] + Offset
Least(L, S) == L \in S /\ \A M \in S : L <= M

Init ==
    /\ act = StoreAct
    /\ remap = [L \in Slots |-> L]
    /\ mem = [p \in Slots |-> Blank]
    /\ free = {} /\ resid = {} /\ life = {}
    /\ index = [L \in {} |-> 0] /\ always = {} /\ near = {}
    /\ cam \in Cams
    /\ phase = "load" /\ todo = {} /\ fresh = FALSE /\ built = 0
    /\ killed = {} /\ late = {}

-----------------------------------------------------------------------------
(* A load: the first one, the reload after a death, the advance to act 2.  *)
(* The pool is whole and the table the identity while the objects are      *)
(* created; then the index is built and what is near is moved down.  The   *)
(* chain lands in the act whose records were loaded at boot.               *)

\* The place of L among the residents R: they are packed in order.
Rank(L, R) == Cardinality({M \in R : M < L})

Compacted(a, R) ==
    [p \in Slots |-> IF \E L \in R : Rank(L, R) = p
                     THEN Born(Scene[a][CHOOSE L \in R : Rank(L, R) = p])
                     ELSE Blank]

IndexAtLoad(a, born)  == [L \in born |-> SpawnX[Scene[a][L]]]
AlwaysAtLoad(a, born) == {L \in born : Pinned(Scene[a][L])}
NearSet(idx, alw, c)  == alw \cup {L \in DOMAIN idx : Near(idx[L], c)}
LifeAfterLoad         == {}

LoadScene(a, born, c) ==
    LET idx == IndexAtLoad(a, born)
        alw == AlwaysAtLoad(a, born)
        R   == NearSet(idx, alw, c)
    IN  /\ phase = "idle" \/ (phase = "load" /\ a = StoreAct)
        /\ act' = a
        /\ index' = idx /\ always' = alw /\ near' = R
        /\ cam' = c
        /\ remap' = [L \in Slots |-> IF L \in R THEN Rank(L, R) ELSE Dummy]
        /\ mem' = Compacted(a, R)
        /\ free' = Pool \ {Rank(L, R) : L \in R}
        /\ resid' = R
        /\ life' = LifeAfterLoad
        /\ phase' = "idle" /\ todo' = {}
        /\ fresh' = TRUE
        /\ killed' = Slots \ born /\ late' = {}
        /\ UNCHANGED built

-----------------------------------------------------------------------------
(* A frame looks at the index before its ticks.  It builds one itself only *)
(* when no load has: its census sees the shrunk pool.  (The two frames it  *)
(* waits between its two builds are left out.)                             *)

RebuildUnlessDone == built < 2            \* faulty: whether or not a load built it
RebuildAtFrame == ~fresh /\ built < 2
Census         == {L \in Slots : Alive(L)}

FrameIndex ==
    /\ phase = "idle" /\ (fresh \/ built < 2)
    /\ IF RebuildAtFrame
       THEN /\ index' = [L \in Census |-> At(L).x]
            /\ always' = {L \in Census : At(L).loose \/ Pinned(At(L).of)}
       ELSE UNCHANGED <<index, always>>
    /\ built' = IF fresh THEN 2 ELSE built + 1
    /\ fresh' = FALSE
    /\ UNCHANGED <<act, pool, near, cam, phase, todo, killed, late>>

\* The camera has followed the player; the near set is made anew.
Camera(c) ==
    /\ phase = "idle" /\ ~fresh /\ built > 0
    /\ cam' = c
    /\ near' = NearSet(index, always, c)
    /\ phase' = "drop"
    /\ UNCHANGED <<act, pool, index, always, todo, fresh, built, killed, late>>

-----------------------------------------------------------------------------
(* The stream: first out, then in.                                         *)

Dead == {L \in resid : ~Alive(L)}
Far  == {L \in resid : Alive(L) /\ L \notin near}

FreedScene(gone) == gone                  \* faulty: scene slots on the list
FreedDead(gone) == {remap[L] : L \in gone \cap Dead} \* faulty: the far kept
FreedBy(gone) == {remap[L] : L \in gone}

\* What the fill has to bring in, once the residents are R.
WantedAll(R, lf) == near \ R              \* faulty: the dead too
Wanted(R, lf) == {L \in near : L \notin R /\ L \notin lf}

StreamOut ==
    /\ phase = "drop"
    /\ life' = life \cup Dead
    /\ mem' = [p \in Slots |-> IF p \in FreedBy(Far) THEN Blank ELSE mem[p]]
    /\ free' = free \cup FreedBy(Dead \cup Far)
    /\ remap' = [L \in Slots |-> IF L \in Dead \cup Far THEN Dummy ELSE remap[L]]
    /\ resid' = resid \ (Dead \cup Far)
    /\ todo' = Wanted(resid', life')
    /\ phase' = "fill"
    /\ late' = late \ (Dead \cup Far)
    /\ UNCHANGED <<act, scan, fresh, built, killed>>

\* The record of a slot is created anew; lives is false when its Create ends
\* it at once.  A slot without a record keeps what is there: nothing.
Materialise(L, p, lives) ==
    LET i == Scene[StoreAct][L]
    IN  /\ phase = "fill" /\ Least(L, todo) /\ p \in free
        /\ free' = free \ {p}
        /\ remap' = [remap EXCEPT ![L] = p]
        /\ resid' = resid \cup {L}
        /\ todo' = todo \ {L}
        /\ IF i # None /\ lives
           THEN mem' = [mem EXCEPT ![p] = Born(i)] /\ UNCHANGED killed
           ELSE /\ killed' = IF i # None THEN killed \cup {L} ELSE killed
                /\ UNCHANGED mem
        /\ UNCHANGED <<act, life, scan, phase, fresh, built, late>>

\* Without a free slot the rest of the near slots stay out for this tick.
StreamDone ==
    /\ phase = "fill" /\ (todo = {} \/ free = {})
    /\ todo' = {L \in IF built = 2 /\ DOMAIN index # {} THEN near ELSE Slots :
                    Alive(L)}
    /\ phase' = "run"
    /\ UNCHANGED <<act, pool, scan, fresh, built, killed, late>>

-----------------------------------------------------------------------------
(* The loop over the near slots.  Only what is in range is updated, but    *)
(* every live entity that is found active everywhere is pinned.            *)

\* What an update can leave behind.
Updated(e) ==
    {Blank} \cup [of : {e.of},
                  x : {SpawnX[e.of] + d : d \in -Drift .. Drift},
                  loose : BOOLEAN]

\* A dead entity is all zero, and zero is not one of the hidden modes.  The
\* test compares the scene slot with the number of physical slots.
PinnedNever(L, e) == FALSE                \* faulty
PinnedByVisit(L, e) == (e.of = None \/ e.loose) /\ L < SP

Visit(L) ==
    /\ phase = "run" /\ Least(L, todo)
    /\ \E e \in IF InRange(At(L)) THEN Updated(At(L)) ELSE {At(L)} :
        /\ mem' = [mem EXCEPT ![remap[L]] = e]
        /\ always' = IF PinnedByVisit(L, e) THEN always \cup {L} ELSE always
        /\ killed' = IF e.of = None THEN killed \cup {L} ELSE killed
    /\ late' = late \ {L}
    /\ todo' = todo \ {L}
    /\ UNCHANGED <<act, remap, free, resid, life, index, near, cam, phase, fresh, built>>

\* The player, or any other object, destroys an entity.
Kill(L) ==
    /\ phase = "run" /\ L \in resid /\ Alive(L)
    /\ mem' = [mem EXCEPT ![remap[L]] = Blank]
    /\ killed' = killed \cup {L}
    /\ late' = late \ {L}
    /\ todo' = todo \ {L}
    /\ UNCHANGED <<act, remap, free, resid, life, scan, phase, fresh, built>>

\* Another object makes an entity active everywhere.
Loosen(L) ==
    /\ phase = "run" /\ L \in resid /\ Alive(L) /\ ~At(L).loose
    /\ mem' = [mem EXCEPT ![remap[L]].loose = TRUE]
    /\ late' = IF L \in todo THEN late ELSE late \cup {L}
    /\ UNCHANGED <<act, remap, free, resid, life, scan, phase, todo, fresh, built, killed>>

TickEnd ==
    /\ phase = "run" /\ todo = {}
    /\ phase' = "idle"
    /\ UNCHANGED <<act, pool, scan, todo, fresh, built, killed, late>>

-----------------------------------------------------------------------------

Next ==
    \/ \E a \in Acts, c \in Spawns : \E born \in SUBSET Placed(a) : LoadScene(a, born, c)
    \/ FrameIndex
    \/ \E c \in Cams : Camera(c)
    \/ StreamOut
    \/ \E L \in todo, p \in free, lives \in BOOLEAN : Materialise(L, p, lives)
    \/ StreamDone
    \/ \E L \in todo : Visit(L)
    \/ \E L \in resid : Kill(L) \/ Loosen(L)
    \/ TickEnd

Spec == Init /\ [][Next]_vars

-----------------------------------------------------------------------------
(* Properties                                                              *)

TypeOK ==
    /\ act \in Acts
    /\ remap \in [Slots -> Slots]
    /\ mem \in [Slots -> Live \cup {Blank}]
    /\ free \subseteq Pool
    /\ resid \subseteq Slots /\ life \subseteq Slots
    /\ DOMAIN index \subseteq Slots /\ index \in [DOMAIN index -> Int]
    /\ always \subseteq Slots /\ near \subseteq Slots /\ todo \subseteq Slots
    /\ cam \in Int
    /\ phase \in {"load", "idle", "drop", "fill", "run"}
    /\ fresh \in BOOLEAN /\ built \in 0 .. 2
    /\ killed \subseteq Slots /\ late \subseteq Slots

\* Every physical slot is a resident's, free, or the dummy, and no two of
\* these: a slot not given back is lost for the rest of the level, one given
\* back twice serves two entities (the guard at the end of p6_ovl_stream).
\* Free slots and the dummy hold nothing a loop could take for an entity.
PoolPartition ==
    phase # "load" =>
        /\ \A L \in resid : remap[L] \in Pool
        /\ \A L \in Slots \ resid : remap[L] = Dummy
        /\ \A L, M \in resid : remap[L] = remap[M] => L = M
        /\ free = Pool \ {remap[L] : L \in resid}
        /\ \A p \in free \cup {Dummy} : mem[p] = Blank

\* What was destroyed stays destroyed for this life: no stream brings a
\* collected ring or a broken badnik back, however often the camera returns.
DeadStayDead == phase # "load" => \A L \in killed : ~Alive(L)

\* A resident is what the scene that is loaded placed in its slot.
HoldsPlaced ==
    phase # "load" => \A L \in resid : Alive(L) => At(L).of = Scene[act][L]

\* When the loop runs, whatever the scene placed within the window of the
\* camera, and whatever is active everywhere, is in the pool, unless it was
\* destroyed or every slot of the pool is taken.
MustLive(i) == Pinned(i) \/ Near(SpawnX[i], cam)
NearLive ==
    phase = "run" =>
        \A L \in Placed(act) \ killed :
            MustLive(Scene[act][L]) =>
                (Alive(L) /\ At(L).of = Scene[act][L]) \/ free = {}

\* The stream takes a live entity away only when it is out of range of the
\* camera and not active everywhere.  Two exceptions the code has: an entity
\* let loose by another after its own turn, and one that let itself loose in a
\* scene slot beyond the physical ones.
Lost(L) ==
    /\ L \in resid /\ L \notin resid' /\ Alive(L) /\ ~fresh'
    /\ InRange(At(L))
NoneVanishes ==
    [][\A L \in Slots : Lost(L) =>
          /\ At(L).loose /\ ~Pinned(At(L).of)
          /\ L \in late \/ L >= SP]_vars

\* What the stream is about to take away is never active everywhere, unless
\* another entity made it so after its own turn: the pin at the end of a visit
\* keeps it near wherever the camera goes.
PinnedNotDropped ==
    phase = "drop" => \A L \in Far : At(L).loose => L \in late

=============================================================================
