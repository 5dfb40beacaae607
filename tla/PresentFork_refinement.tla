------------------------- MODULE PresentFork_refinement -------------------------
(***************************************************************************)
(* PresentFork implements ForegroundPresent, and what the present promises    *)
(* follows: no half composed plane on the screen.  In three parts: where the  *)
(* composed plane and the mark that it is pending are (Planes), the steps of  *)
(* the two processors as steps of one present, and the planes of one present *)
(* against the views they are shown for (Shown).                             *)
(***************************************************************************)
EXTENDS PresentFork_proofs

(* The plane is marked pending, or in the VDP2 already; while it is composed   *)
(* it is not marked, and the half that is there is of this camera and version. *)
Column(k) == <<mem["layers"], CHOOSE c \in Rect(ctx) : Col(c) = k>>
ComposedBut(rest, k) ==
  IF \E c \in Rect(ctx) \ rest : Col(c) = k THEN Column(k)
  ELSE IF whole THEN Blank ELSE map[k]

Marked ==
  /\ mem["pending"] = 0 /\ ~Composing => map = page
  /\ Composing => mem["pending"] = 0
  /\ stage = "start" => map = page
  /\ stage = "store" /\ mirrored = 0 => map = page
  /\ master \in {"boot", "unload", "objects", "load", "kick"} => mem["pending"] = 0
  /\ cache["master"]["pending"] \in {NoLine, IF OnFork THEN 0 ELSE mem["pending"]}
  /\ slave = "present" /\ stage \notin {"store", "return"} => cache["slave"]["pending"] = NoLine

InWork ==
  /\ stage # "none" => args = cam
  /\ stage \in {"clear", "fill", "finish"} =>
       ctx = cam /\ (whole <=> mem["dirty"] = 1) /\ (whole \/ cam # last)
  /\ stage = "clear" => whole /\ left = Rect(ctx)
  /\ stage = "fill" => left # {} /\ left \subseteq Rect(ctx)
  /\ stage = "finish" => left = {}
  /\ stage \in {"fill", "finish"} => \A k \in 0 .. Plane - 1 : page[k] = ComposedBut(left, k)

BeforePresents ==
  master = "boot" \/ splash =>
    /\ last = Present!NoCam /\ stage = "none"
    /\ master \in {"boot", "unload", "objects", "load", "synch"}

Planes == Marked /\ InWork /\ BeforePresents

--------------------------------------------------------------------------------
USE DEF Words, Cpus, NoLine

LEMMA PutFacts ==
  ASSUME NEW c \in Caches, NEW p \in Cpus, NEW w \in Words, NEW v \in Nat
  PROVE  /\ Put(c, p, w, v) \in Caches
         /\ \A q \in Cpus, x \in Words :
              Put(c, p, w, v)[q][x] = IF q = p /\ x = w /\ c[q][x] # NoLine THEN v ELSE c[q][x]
<1>1. CASE p = "master"  BY <1>1 DEF Put, Caches
<1>2. CASE p = "slave"  BY <1>2 DEF Put, Caches
<1> QED  BY <1>1, <1>2

LEMMA InitPlanes == Init => Planes
<1> SUFFICES ASSUME Init PROVE Planes  OBVIOUS
<1> USE DEF Init
<1>1. Marked  BY DEF Marked, Composing, OnFork
<1>2. InWork  BY DEF InWork
<1>3. BeforePresents  BY DEF BeforePresents
<1> QED  BY <1>1, <1>2, <1>3 DEF Planes

LEMMA EvictPlanes ==
  ASSUME IInv, Planes, NEW p \in Cpus, NEW w \in Words, Evict(p, w)
  PROVE  Planes'
<1> USE DEF Evict, workVars, frameVars, screenVars
<1>1. \A q \in Cpus, x \in Words : cache'[q][x] \in {NoLine, cache[q][x]}
  BY DEF IInv, TypeOK
<1>2. Marked'  BY <1>1 DEF Planes, Marked, Composing, OnFork
<1>3. InWork'  BY DEF Planes, InWork, ComposedBut, Column
<1>4. BeforePresents'  BY DEF Planes, BeforePresents
<1> QED  BY <1>2, <1>3, <1>4 DEF Planes

\* the frame between two composed planes
LEMMA ObjectsPlanes == ASSUME IInv, Planes, Objects PROVE Planes'
<1> USE DEF Objects, screenVars, workVars
<1> DEFINE seen == Loaded(cache, "master", {"layers", "windows"})
<1>0. /\ stage = "none" /\ slave = "idle" /\ ~OnFork /\ ~OnFork' /\ stage' = "none"
      /\ slave' = "idle" /\ master' \in {"synch", "kick"} /\ (splash => master' = "synch")
  BY DEF OnFork, IInv, Places, TypeOK
<1>1. cam' \in Nat  BY PlaneAssumption
<1>2. /\ seen \in Caches
      /\ seen["master"]["pending"] = cache["master"]["pending"]
  BY LoadedFacts DEF IInv
<1>3. mem'["pending"] = mem["pending"] /\ cache'["master"]["pending"] = cache["master"]["pending"]
  <2> HIDE DEF seen
  <2>1. CASE /\ mem' = [mem EXCEPT !["windows"] = cam']
             /\ cache' = Put(seen, "master", "windows", cam')
    BY <1>1, <1>2, <2>1, PutFacts DEF IInv, TypeOK
  <2>2. CASE /\ mem["layers"] + 1 \in Versions
             /\ mem' = [mem EXCEPT !["windows"] = cam', !["layers"] = @ + 1, !["dirty"] = DirtySet]
             /\ cache' = Put(Put(Put(seen, "master", "windows", cam'),
                                 "master", "layers", mem["layers"] + 1),
                             "master", "dirty", DirtySet)
    <3>1. PICK c1 : c1 = Put(seen, "master", "windows", cam')  OBVIOUS
    <3>2. PICK c2 : c2 = Put(c1, "master", "layers", mem["layers"] + 1)  OBVIOUS
    <3>3. cache' = Put(c2, "master", "dirty", 1)  BY <2>2, <3>1, <3>2 DEF DirtySet
    <3>4. mem["layers"] + 1 \in Nat  BY DEF IInv, TypeOK
    <3>5. c1 \in Caches /\ c1["master"]["pending"] = cache["master"]["pending"]
      BY <1>1, <1>2, <3>1, PutFacts
    <3>6. c2 \in Caches /\ c2["master"]["pending"] = cache["master"]["pending"]
      BY <3>2, <3>4, <3>5, PutFacts
    <3>7. cache'["master"]["pending"] = cache["master"]["pending"]
      BY <3>3, <3>6, PutFacts
    <3> QED  BY <2>2, <3>7 DEF IInv, TypeOK
  <2> QED  BY <2>1, <2>2 DEF seen
<1>4. Marked'  BY <1>0, <1>3 DEF Planes, Marked, Composing
<1>5. InWork'  BY <1>0 DEF InWork
<1>6. BeforePresents'  BY <1>0 DEF Planes, BeforePresents
<1> QED  BY <1>4, <1>5, <1>6 DEF Planes

LEMMA LoadPlanes == ASSUME IInv, Planes, Boot \/ LoadEnter PROVE Planes'
<1> USE DEF Boot, LoadEnter, workVars, screenVars, frameVars
<1>0. /\ stage = "none" /\ stage' = "none" /\ ~OnFork /\ ~OnFork' /\ mem' = mem /\ cache' = cache
      /\ slave # "present" /\ slave' = slave
      /\ master' \in {"unload", "synch", "load"} /\ master \in {"boot", "objects"}
  BY DEF IInv, Places, OnFork
<1>1. Marked'  BY <1>0 DEF Planes, Marked, Composing
<1>2. InWork'  BY <1>0 DEF InWork
<1>3. BeforePresents'
  <2>1. splash' => splash  BY DEF IInv, TypeOK
  <2>2. CASE Boot  BY <1>0, <2>2 DEF Planes, BeforePresents
  <2>3. CASE LoadEnter  BY <1>0, <2>1, <2>3 DEF Planes, BeforePresents
  <2> QED  BY <2>2, <2>3
<1> QED  BY <1>1, <1>2, <1>3 DEF Planes

LEMMA LoadScenePlanes == ASSUME IInv, Planes, LoadScene PROVE Planes'
<1> USE DEF LoadScene, screenVars, workVars
<1>0. /\ stage = "none" /\ stage' = "none" /\ ~OnFork /\ ~OnFork' /\ slave # "present"
      /\ slave' = slave
  BY DEF IInv, Places, OnFork
<1>1. PICK n \in Versions :
        /\ mem' = [mem EXCEPT !["layers"] = n, !["dirty"] = DirtySet, !["windows"] = 0]
        /\ cache' = Put(Put(Put(cache, "master", "layers", n), "master", "dirty", DirtySet),
                        "master", "windows", 0)
  OBVIOUS
<1>2. n \in Nat  BY VersionsAssumption
<1>3. PICK c1 : c1 = Put(cache, "master", "layers", n)  OBVIOUS
<1>4. PICK c2 : c2 = Put(c1, "master", "dirty", 1)  OBVIOUS
<1>5. cache' = Put(c2, "master", "windows", 0)  BY <1>1, <1>3, <1>4 DEF DirtySet
<1>6. c1 \in Caches /\ c1["master"]["pending"] = cache["master"]["pending"]
  <2>1. cache \in Caches  BY DEF IInv, TypeOK, Caches
  <2> QED  BY <1>2, <1>3, <2>1, PutFacts
<1>7. c2 \in Caches /\ c2["master"]["pending"] = cache["master"]["pending"]
  BY <1>4, <1>6, PutFacts
<1>8. cache'["master"]["pending"] = cache["master"]["pending"]  BY <1>5, <1>7, PutFacts
<1>9. mem'["pending"] = mem["pending"]  BY <1>1 DEF IInv, TypeOK
<1>10. Marked'  BY <1>0, <1>8, <1>9 DEF Planes, Marked, Composing
<1>11. InWork'  BY <1>0 DEF InWork
<1>12. BeforePresents'  BY <1>0 DEF Planes, BeforePresents
<1> QED  BY <1>10, <1>11, <1>12 DEF Planes

LEMMA JoinPlanes == ASSUME IInv, Planes, Unload \/ Join PROVE Planes'
<1> USE DEF Unload, Join, Wait, workVars, screenVars, frameVars
<1>0. /\ stage = "none" /\ stage' = "none" /\ slave = "idle" /\ slave' = "idle" /\ mem' = mem
      /\ ~OnFork' /\ master' = "synch" /\ splash' = splash
  BY DEF IInv, Places, OnFork
<1>1. cache'["master"]["pending"] = NoLine
  <2>1. cache' = [cache EXCEPT !["master"] = NoLines]  BY DEF LinesAfterJoin
  <2> QED  BY <2>1 DEF IInv, TypeOK, NoLines
<1>2. Marked'  BY <1>0, <1>1 DEF Planes, Marked, Composing
<1>3. InWork'  BY <1>0 DEF InWork
<1>4. BeforePresents'  BY <1>0 DEF Planes, BeforePresents
<1> QED  BY <1>2, <1>3, <1>4 DEF Planes

LEMMA KickPlanes == ASSUME IInv, Planes, Kick \/ Inline PROVE Planes'
<1> USE DEF Kick, Inline, workVars, frameVars, screenVars
<1>0. /\ stage = "none" /\ stage' = "start" /\ master = "kick" /\ mem' = mem /\ cache' = cache
      /\ args' = cam /\ cam' = cam /\ ~OnFork /\ map = page /\ mem["pending"] = 0
      /\ splash' = splash /\ master' \in {"sky", "inline"}
  BY DEF IInv, Places, OnFork, Planes, Marked, Composing
<1>1. slave' = "present" => cache["slave"]["pending"] = NoLine
  BY <1>0 DEF IInv, Lines, Places
<1>2. Marked'  BY <1>0, <1>1 DEF Planes, Marked
<1>3. InWork'  BY <1>0 DEF InWork
<1>4. BeforePresents'  BY <1>0 DEF Planes, BeforePresents
<1> QED  BY <1>2, <1>3, <1>4 DEF Planes

LEMMA DrawSkyPlanes == ASSUME IInv, Planes, DrawSky \/ InlineConfig PROVE Planes'
<1> USE DEF DrawSky, InlineConfig, workVars, frameVars, screenVars
<1>0. /\ OnFork' <=> OnFork
      /\ mem' = mem /\ cache' = cache /\ splash' = splash /\ slave' = slave
      /\ stage' = stage \/ (stage = "return" /\ stage' = "none")
      /\ master' \in {"join", "synch", "sky"} /\ master \in {"sky", "inline"}
  BY DEF IInv, Places, OnFork
<1>1. Marked'  BY <1>0 DEF Planes, Marked, Composing, IInv, Places
<1>2. InWork'
  <2>1. CASE stage' = "none"  BY <2>1 DEF InWork
  <2>2. CASE stage' = stage  BY <1>0, <2>2 DEF Planes, InWork, ComposedBut, Column
  <2> QED  BY <1>0, <2>1, <2>2
<1>3. BeforePresents'  BY <1>0 DEF Planes, BeforePresents
<1> QED  BY <1>1, <1>2, <1>3 DEF Planes

LEMMA LateUploadPlanes == ASSUME IInv, Planes, LateUpload PROVE Planes'
<1> USE DEF LateUpload, workVars, frameVars, screenVars
<1>0. stage = "none" /\ stage' = "none" /\ slave = "idle" /\ master' = "sky" /\ OnFork /\ OnFork'
  BY DEF IInv, Places, OnFork
<1>1. cache'["master"]["pending"] = NoLine  BY DEF IInv, TypeOK, NoLines
<1>2. mem'["pending"] = mem["pending"]  BY DEF IInv, TypeOK
<1>3. Marked'  BY <1>0, <1>1, <1>2 DEF Planes, Marked, Composing
<1>4. InWork'  BY <1>0 DEF InWork
<1>5. BeforePresents'  BY <1>0 DEF Planes, BeforePresents
<1> QED  BY <1>3, <1>4, <1>5 DEF Planes

LEMMA SplashEndsPlanes == ASSUME IInv, Planes, SplashEnds PROVE Planes'
<1> USE DEF SplashEnds, workVars, frameVars, screenVars
<1>0. stage = "none" /\ stage' = "none" /\ slave' = "idle"  BY DEF IInv, Places
<1>1. Marked'  BY <1>0 DEF Planes, Marked, Composing, OnFork
<1>2. InWork'  BY <1>0 DEF InWork
<1>3. BeforePresents'  BY <1>0 DEF Planes, BeforePresents
<1> QED  BY <1>1, <1>2, <1>3 DEF Planes

\* the blank copies a marked plane, which is never one that is being composed
LEMMA VBlankPlanes ==
  ASSUME IInv, Planes, VBlank
  PROVE  /\ Planes'
         /\ map' = map \/ (map' = page /\ ~Composing)
         /\ master = "synch" => map' = page /\ master' = "objects"
         /\ \A w \in Shared : mem'[w] = mem[w]
<1> USE DEF VBlank, workVars, frameVars
<1> DEFINE dma == DmaPending
           seen == Loaded(cache, "master", {"pending"})
           ends == master = "synch" /\ slave = "idle"
           kept == IF dma THEN Put(seen, "master", "pending", 0) ELSE seen
           r == Read("master", "pending")
<1>1. /\ seen \in Caches
      /\ seen["master"]["pending"] = r /\ seen["slave"]["pending"] = cache["slave"]["pending"]
  BY LoadedFacts DEF IInv
<1>2. r \in {0, 1} /\ mem["pending"] \in {0, 1}  BY DEF IInv, TypeOK, Flags, Read
<1>3. dma <=> r = 1  BY DEF DmaPending
<1>4. (~OnFork => r = mem["pending"]) /\ (Composing => r = 0)
  BY DEF Planes, Marked, Read
<1>5. ends <=> master = "synch"  BY DEF IInv, Places, TypeOK
<1>6. /\ kept \in Caches /\ kept["slave"]["pending"] = cache["slave"]["pending"]
      /\ kept["master"]["pending"] = 0
  <2> HIDE DEF seen, r, dma, VBlank
  <2>1. CASE dma
    <3>1. seen \in Caches /\ "master" \in Cpus /\ "slave" \in Cpus /\ "pending" \in Words
      BY <1>1
    <3>2. PICK c : c = Put(seen, "master", "pending", 0)  OBVIOUS
    <3>3. c \in Caches /\ \A q \in Cpus, x \in Words : c[q][x] =
            IF q = "master" /\ x = "pending" /\ seen[q][x] # NoLine THEN 0 ELSE seen[q][x]
      <4> HIDE DEF Cpus, Words
      <4> QED  BY <3>1, <3>2, PutFacts
    <3> QED  BY <1>1, <1>2, <1>3, <2>1, <3>2, <3>3
  <2>2. CASE ~dma  BY <1>1, <1>2, <1>3, <2>2
  <2> QED  BY <2>1, <2>2
<1>7. /\ cache'["master"]["pending"] = 0
      /\ cache'["slave"]["pending"] \in {NoLine, cache["slave"]["pending"]}
  <2>1. cache' = IF ends THEN [kept EXCEPT !["slave"] = NoLines] ELSE kept
    BY DEF SlaveLinesAfterSynch
  <2> HIDE DEF ends, kept
  <2> QED  BY <1>6, <2>1 DEF NoLines, Caches
<1>8. /\ map' = (IF dma THEN page ELSE map) /\ page' = page
      /\ mem' = IF dma THEN [mem EXCEPT !["pending"] = 0] ELSE mem
      /\ master' = IF ends THEN "objects" ELSE master
  OBVIOUS
<1>9. /\ mem'["pending"] = IF dma THEN 0 ELSE mem["pending"]
      /\ \A w \in Shared : mem'[w] = mem[w]
  <2> HIDE DEF dma
  <2>1. mem \in [Words -> Nat]  BY DEF IInv, TypeOK
  <2> QED  BY <1>8, <2>1 DEF Shared
<1>10. UNCHANGED <<slave, stage, ctx, whole, left, mirrored, cam, forked, splash, args, last>>
  BY DEF screenVars
<1> HIDE DEF dma, ends, kept, seen, r, VBlank
<1>11. Marked'
  <2>1. (OnFork <=> OnFork') /\ (Composing <=> Composing')
    BY <1>5, <1>8, <1>10 DEF OnFork, Composing
  <2>2. mem'["pending"] = 0 /\ ~Composing => map' = page'
    BY <1>8, <1>9 DEF Planes, Marked
  <2>3. Composing => mem'["pending"] = 0  BY <1>9 DEF Planes, Marked
  <2>4. map = page => map' = page'  BY <1>8
  <2>5. master' \in {"boot", "unload", "objects", "load", "kick"} => mem'["pending"] = 0
    BY <1>2, <1>3, <1>4, <1>5, <1>8, <1>9 DEF Planes, Marked, OnFork
  <2>6. ~OnFork => mem'["pending"] = 0
    BY <1>2, <1>3, <1>4, <1>9
  <2> QED  BY <2>1, <2>2, <2>3, <2>4, <2>5, <2>6, <1>7, <1>10 DEF Planes, Marked
<1>12. map' = map \/ (map' = page /\ ~Composing)  BY <1>3, <1>4, <1>8
<1>13. InWork'
  <2>1. Composing => map' = map  BY <1>3, <1>4, <1>8
  <2>2. mem'["dirty"] = mem["dirty"] /\ mem'["layers"] = mem["layers"]  BY <1>9 DEF Shared
  <2> QED  BY <2>1, <2>2, <1>8, <1>10 DEF Planes, InWork, ComposedBut, Column, Composing
<1>14. BeforePresents'  BY <1>5, <1>8, <1>10 DEF Planes, BeforePresents
<1>15. master = "synch" => map' = page /\ master' = "objects"
  BY <1>2, <1>3, <1>4, <1>5, <1>8, <1>9 DEF Planes, Marked, OnFork, Composing, IInv, Places
<1> QED  BY <1>9, <1>11, <1>12, <1>13, <1>14, <1>15 DEF Planes

\* two columns less than a plane apart are not the same column of the plane
LEMMA Apart ==
  ASSUME NEW P \in Nat, P > 0, NEW c \in Int, NEW d \in Int, c - d < P, d - c < P, c % P = d % P
  PROVE  c = d
<1>1. PICK q \in Int : q = c \div P  OBVIOUS
<1>2. PICK r \in Int : r = d \div P  OBVIOUS
<1>3. c = P * q + (c % P) /\ d = P * r + (d % P)  BY <1>1, <1>2
<1>4. c - d = P * (q - r)  BY <1>3
<1>5. CASE q > r
  <2>1. P * (q - r) >= P  BY <1>5
  <2> QED  BY <2>1, <1>4
<1>6. CASE q < r
  <2>1. P * (r - q) >= P /\ P * (r - q) = d - c  BY <1>6, <1>4
  <2> QED  BY <2>1
<1>7. CASE q = r  BY <1>7, <1>4
<1> QED  BY <1>5, <1>6, <1>7

\* the rectangle of a camera, margins and all, fits the plane
LEMMA RectFits ==
  ASSUME NEW x \in Cams
  PROVE  /\ Rect(x) \subseteq Int /\ Rect(x) # {}
         /\ \A c \in Rect(x) : Col(c) \in 0 .. Plane - 1
         /\ \A c, d \in Rect(x) : Col(c) = Col(d) => c = d
<1>1. x \in Int /\ View \in Nat /\ Plane \in Nat /\ Plane > 0 /\ View + 3 <= Plane
  BY PlaneAssumption
<1>2. Rect(x) = x - 1 .. x + View + 1  BY DEF Rect, Present!Rect
<1>3. Rect(x) \subseteq Int /\ x \in Rect(x)  BY <1>1, <1>2
<1>4. \A c \in Rect(x) : Col(c) = c % Plane  BY DEF Col, Present!Col
<1>5. ASSUME NEW c \in Rect(x), NEW d \in Rect(x), Col(c) = Col(d) PROVE c = d
  <2>1. c - d < Plane /\ d - c < Plane /\ c \in Int /\ d \in Int  BY <1>1, <1>2
  <2>2. c % Plane = d % Plane  BY <1>4, <1>5
  <2> QED  BY <2>1, <2>2, <1>1, Apart
<1>6. \A c \in Rect(x) : Col(c) \in 0 .. Plane - 1  BY <1>1, <1>3, <1>4
<1> QED  BY <1>3, <1>5, <1>6

LEMMA StartPlanes == ASSUME IInv, Planes, Start PROVE Planes'
<1> USE DEF Start, screenVars, frameVars
<1>0. /\ stage = "start" /\ stage' \in {"clear", "fill", "palette"} /\ args = cam /\ cam \in Cams
      /\ map = page /\ UNCHANGED <<map, page, mem, master, slave, cam, args, last, splash, forked>>
      /\ ctx' = args
  BY DEF Planes, Marked, InWork, IInv, TypeOK
<1>1. By \in Cpus /\ Fresh(By, Shared)  BY <1>0, Composer
<1>2. \A q \in Cpus : cache'[q]["pending"] = cache[q]["pending"]
  BY <1>1, LoadedFacts DEF IInv
<1>3. Read(By, "dirty") = mem["dirty"]  BY <1>1, ReadType DEF IInv, Shared, Fresh
<1>4. /\ whole' <=> mem["dirty"] = 1
      /\ stage' \in {"clear", "fill"} => left' = Rect(cam) /\ (whole' \/ cam # last)
      /\ stage' = "clear" <=> whole'
  BY <1>0, <1>3
<1> HIDE DEF Start
<1>5. Marked'  BY <1>0, <1>2 DEF Planes, Marked, Composing, OnFork
<1>6. Rect(cam) # {}  BY <1>0, RectFits
<1>7. InWork'
  <2>1. stage' = "fill" => \A k \in 0 .. Plane - 1 : page'[k] = (ComposedBut(left, k))'
    <3>1. stage' = "fill" => \A k \in 0 .. Plane - 1 : (ComposedBut(left, k))' = map'[k]
      BY <1>0, <1>4 DEF ComposedBut
    <3> QED  BY <3>1, <1>0
  <2> QED  BY <2>1, <1>0, <1>4, <1>6 DEF InWork
<1>8. BeforePresents'  BY <1>0 DEF Planes, BeforePresents
<1> QED  BY <1>5, <1>7, <1>8 DEF Planes

LEMMA ClearPlanes == ASSUME IInv, Planes, Clear PROVE Planes'
<1> USE DEF Clear, workVars, frameVars
<1>1. Marked'  BY DEF Planes, Marked, Composing, OnFork
<1>2. ctx \in Cams  BY DEF IInv, Places
<1>3. InWork'
  <2>1. left' = Rect(ctx') /\ left' # {} /\ whole'  BY <1>2, RectFits DEF Planes, InWork
  <2>2. \A k \in 0 .. Plane - 1 : page'[k] = (ComposedBut(left, k))'
    BY <2>1 DEF ComposedBut
  <2> QED  BY <2>1, <2>2 DEF Planes, InWork
<1>4. BeforePresents'  BY DEF Planes, BeforePresents
<1> QED  BY <1>1, <1>3, <1>4 DEF Planes

LEMMA FillColumnPlanes == ASSUME IInv, Planes, FillColumn PROVE Planes'
<1> USE DEF FillColumn, frameVars
<1> DEFINE seen == Loaded(cache, By, {"layers", "windows"})
<1>0. /\ stage = "fill" /\ ctx \in Cams /\ ctx \in Nat /\ stage' \in {"fill", "finish"}
      /\ UNCHANGED <<ctx, whole, map, master, slave, cam, args, last, splash, forked, mirrored>>
  BY PlaneAssumption DEF IInv, Places
<1>1. By \in Cpus /\ \A w \in Shared : cache[By][w] \in {NoLine, mem[w]}
  BY <1>0, Composer DEF Fresh
<1>2. /\ seen \in Caches
      /\ \A q \in Cpus : seen[q]["pending"] = cache[q]["pending"]
  BY <1>1, LoadedFacts DEF IInv
<1>3. Read(By, "layers") = mem["layers"]
  BY <1>1, ReadType DEF IInv, Shared
<1>4. \A q \in Cpus : cache'[q]["pending"] = cache[q]["pending"]
  <2>1. cache' = Put(seen, By, "windows", ctx)  OBVIOUS
  <2> HIDE DEF seen, FillColumn
  <2>2. \A q \in Cpus, x \in Words : cache'[q][x] =
          IF q = By /\ x = "windows" /\ seen[q][x] # NoLine THEN ctx ELSE seen[q][x]
    <3>1. "windows" \in Words  OBVIOUS
    <3> HIDE DEF Cpus, Words
    <3> QED  BY <1>0, <1>1, <1>2, <2>1, <3>1, PutFacts
  <2> QED  BY <1>2, <2>2
<1>5. \A w \in {"dirty", "layers", "pending"} : mem'[w] = mem[w]
  BY <1>0 DEF IInv, TypeOK
<1>6. PICK k \in left : /\ page' = [page EXCEPT ![Col(k)] = <<mem["layers"], k>>]
                        /\ left' = left \ {k}
                        /\ stage' = IF left = {k} THEN "finish" ELSE "fill"
  BY <1>3
<1> HIDE DEF FillColumn
<1>7. Marked'  BY <1>0, <1>4, <1>5 DEF Planes, Marked, Composing, OnFork
<1>8. k \in Rect(ctx) /\ left \subseteq Rect(ctx)  BY <1>0 DEF Planes, InWork
<1>9. InWork'
  <2>1. ASSUME NEW j \in 0 .. Plane - 1 PROVE page'[j] = (ComposedBut(left, j))'
    <3>1. (ComposedBut(left, j))' =
            IF \E c \in Rect(ctx) \ left' : Col(c) = j THEN Column(j)
            ELSE IF whole THEN Blank ELSE map[j]
      <4>1. ctx' = ctx /\ whole' = whole /\ map' = map /\ mem'["layers"] = mem["layers"]
        BY <1>0, <1>5
      <4> QED  BY <4>1 DEF ComposedBut, Column
    <3>2. page \in [0 .. Plane - 1 -> (Versions \cup {-1}) \X Int]  BY DEF IInv, TypeOK
    <3>3. CASE j = Col(k)
      <4>1. page'[j] = <<mem["layers"], k>>  BY <1>6, <3>2, <3>3
      <4>2. (CHOOSE c \in Rect(ctx) : Col(c) = j) = k
        BY <1>0, <1>8, <3>3, RectFits
      <4>3. k \in Rect(ctx) \ left'  BY <1>6, <1>8
      <4> QED  BY <3>1, <3>3, <4>1, <4>2, <4>3 DEF Column
    <3>4. CASE j # Col(k)
      <4>1. page'[j] = page[j]  BY <1>6, <3>2, <3>4
      <4>2. (\E c \in Rect(ctx) \ left' : Col(c) = j) <=> \E c \in Rect(ctx) \ left : Col(c) = j
        BY <1>6, <3>4
      <4>3. page[j] = ComposedBut(left, j)  BY <1>0 DEF Planes, InWork
      <4> QED  BY <3>1, <4>1, <4>2, <4>3 DEF ComposedBut
    <3> QED  BY <3>3, <3>4
  <2>2. left' \subseteq Rect(ctx) /\ (stage' = "fill" => left' # {}) /\ (stage' = "finish" => left' = {})
    BY <1>6, <1>8
  <2> QED  BY <2>1, <2>2, <1>0, <1>5 DEF Planes, InWork
<1>10. BeforePresents'  BY <1>0 DEF Planes, BeforePresents
<1> QED  BY <1>7, <1>9, <1>10 DEF Planes

LEMMA FinishPlanes == ASSUME IInv, Planes, Finish PROVE Planes'
<1> USE DEF Finish, frameVars, workVars
<1>0. /\ stage = "finish" /\ stage' = "palette"
      /\ UNCHANGED <<master, slave, args, cam, splash, forked>>
  OBVIOUS
<1>1. /\ By \in Cpus
      /\ By = "master" => ~OnFork /\ slave # "present"
      /\ By = "slave" => OnFork /\ slave = "present"
  BY <1>0, Composer
<1>2. PICK c1 : c1 = Put(cache, By, "dirty", 0)  OBVIOUS
<1>3. cache' = Put(c1, By, "pending", 1)  BY <1>2
<1>4. mem'["pending"] = 1  BY DEF IInv, TypeOK
<1> HIDE DEF Finish
<1>5. \A q \in Cpus : cache'[q]["pending"] =
        IF q = By /\ cache[q]["pending"] # NoLine THEN 1 ELSE cache[q]["pending"]
  <2>1. cache \in Caches /\ "dirty" \in Words /\ "pending" \in Words
    BY DEF IInv, TypeOK, Caches
  <2>2. c1 \in Caches /\ \A q \in Cpus, x \in Words : c1[q][x] =
          IF q = By /\ x = "dirty" /\ cache[q][x] # NoLine THEN 0 ELSE cache[q][x]
    <3> HIDE DEF Cpus, Words
    <3> QED  BY <1>1, <1>2, <2>1, PutFacts
  <2>3. \A q \in Cpus, x \in Words : cache'[q][x] =
          IF q = By /\ x = "pending" /\ c1[q][x] # NoLine THEN 1 ELSE c1[q][x]
    <3> HIDE DEF Cpus, Words
    <3> QED  BY <1>1, <1>3, <2>1, <2>2, PutFacts
  <2> QED  BY <2>2, <2>3
<1>7. Marked'
  <2>1. CASE By = "master"  BY <1>0, <1>1, <1>4, <1>5, <2>1 DEF Planes, Marked, Composing, OnFork, IInv, Places
  <2>2. CASE By = "slave"  BY <1>0, <1>1, <1>4, <1>5, <2>2 DEF Planes, Marked, Composing, OnFork, IInv, Places
  <2> QED  BY <2>1, <2>2, <1>1
<1>8. InWork'  BY <1>0 DEF Planes, InWork
<1>9. BeforePresents'  BY <1>0 DEF Planes, BeforePresents
<1> QED  BY <1>7, <1>8, <1>9 DEF Planes

\* the slave stores what it reads back: old only when the plane is there already
LEMMA QuietPlanes ==
  ASSUME IInv, Planes, Palette \/ Mirror \/ Store \/ Return
  PROVE  Planes'
<1> USE DEF Palette, Mirror, Store, Return, workVars, frameVars, screenVars
<1>0. /\ stage \in {"palette", "mirror", "store", "return"}
      /\ stage' \in {"mirror", "store", "return", "none"}
      /\ UNCHANGED <<master, args, cam, splash, forked, map, page>>
  OBVIOUS
<1>1. Marked'
  <2>1. CASE Palette \/ Return
    BY <2>1 DEF Planes, Marked, Composing, OnFork, IInv, Places, By
  <2>2. CASE Mirror
    <3>1. slave = "present" /\ OnFork  BY <2>2 DEF IInv, Places, OnFork
    <3>2. mirrored' = mem["pending"]  BY <2>2, <3>1 DEF Planes, Marked, Read
    <3>3. cache'["master"]["pending"] = cache["master"]["pending"]
      BY <2>2, LoadedFacts DEF IInv
    <3> QED  BY <2>2, <3>1, <3>2, <3>3 DEF Planes, Marked, Composing, OnFork
  <2>3. CASE Store
    <3>1. slave = "present" /\ OnFork  BY <2>3 DEF IInv, Places, OnFork
    <3>2. mem'["pending"] = mirrored  BY <2>3 DEF IInv, TypeOK
    <3> QED  BY <2>3, <3>1, <3>2 DEF Planes, Marked, Composing, OnFork
  <2> QED  BY <2>1, <2>2, <2>3
<1>2. InWork'  BY <1>0 DEF Planes, InWork
<1>3. BeforePresents'  BY <1>0 DEF Planes, BeforePresents
<1> QED  BY <1>1, <1>2, <1>3 DEF Planes

LEMMA StepPlanes == IInv /\ Planes /\ [Next]_vars => Planes'
<1> SUFFICES ASSUME IInv, Planes, [Next]_vars PROVE Planes'  OBVIOUS
<1>1. CASE Master
  BY <1>1, ObjectsPlanes, LoadPlanes, LoadScenePlanes, JoinPlanes, KickPlanes, DrawSkyPlanes
     DEF Master
<1>2. CASE LateUpload  BY <1>2, LateUploadPlanes
<1>3. CASE Compute
  BY <1>3, StartPlanes, ClearPlanes, FillColumnPlanes, FinishPlanes, QuietPlanes DEF Compute
<1>4. CASE SplashEnds  BY <1>4, SplashEndsPlanes
<1>5. CASE VBlank  BY <1>5, VBlankPlanes
<1>6. CASE \E p \in Cpus, w \in Words : Evict(p, w)  BY <1>6, EvictPlanes
<1>7. CASE UNCHANGED vars
  <2> USE <1>7 DEF vars, workVars, frameVars, screenVars
  <2>1. Marked'  BY DEF Planes, Marked, Composing, OnFork
  <2>2. InWork'  BY DEF Planes, InWork, ComposedBut, Column
  <2>3. BeforePresents'  BY DEF Planes, BeforePresents
  <2> QED  BY <2>1, <2>2, <2>3 DEF Planes
<1> QED  BY <1>1, <1>2, <1>3, <1>4, <1>5, <1>6, <1>7 DEF Next

(* Between the fork and the screen: a plane is either marked as pending or in  *)
(* the VDP2, and the half composed one is unmarked, though the flag goes       *)
(* through two caches and p6_present_slave_entry stores what it read back.    *)
THEOREM PlanesHold == Spec => []Planes
<1>1. Spec => Init /\ [][Next]_vars  BY DEF Spec
<1> QED  BY <1>1, InitPlanes, StepPlanes, Inductive, PTL

--------------------------------------------------------------------------------
(* Every step of the two processors is a step of the present, or none.         *)

LEMMA InitPresent == Init => Present!Init
<1> SUFFICES ASSUME Init PROVE Present!Init  OBVIOUS
<1> USE DEF Init
<1>1. PhaseOf = "objects" /\ PageOf = page  BY DEF PhaseOf, PageOf, Composing
<1>2. mem["layers"] = 0 /\ mem["dirty"] = 1  OBVIOUS
<1> QED  BY <1>1, <1>2 DEF Present!Init, Blank

\* the steps of the frame
LEMMA ObjectsPresent == ASSUME IInv, Planes, Objects PROVE Present!Objects
<1> USE DEF Objects, screenVars
<1>1. PhaseOf = "objects" /\ stage = "none" /\ stage' = "none" /\ ~Composing /\ ~Composing'
  BY DEF PhaseOf, Composing, IInv, Places
<1>2. PhaseOf' = "compute" \/ (last = Present!NoCam /\ PhaseOf' = "synch")
  BY <1>1 DEF PhaseOf, Planes, BeforePresents
<1>3. \/ mem'["layers"] = mem["layers"] /\ mem'["dirty"] = mem["dirty"]
      \/ /\ mem'["layers"] = mem["layers"] + 1 /\ mem'["layers"] \in Versions
         /\ mem'["dirty"] = 1 /\ Present!SceneOf(mem'["layers"]) = Present!SceneOf(mem["layers"])
  BY DEF IInv, TypeOK, DirtySet, SceneOf
<1>4. UNCHANGED <<last, PageOf, map, pub, view>>  BY <1>1 DEF PageOf
<1>5. cam' \in {x \in Cams : Present!Near(cam, x)}  OBVIOUS
<1> HIDE DEF Objects
<1> QED  BY <1>1, <1>2, <1>3, <1>4, <1>5 DEF Present!Objects

LEMMA BootPresent == ASSUME IInv, Planes, Boot PROVE Present!Objects
<1> USE DEF Boot, screenVars, frameVars
<1>1. PhaseOf = "objects" /\ PhaseOf' = "synch" /\ ~Composing /\ ~Composing'
      /\ last = Present!NoCam
  BY DEF PhaseOf, Composing, IInv, Places, Planes, BeforePresents
<1>2. cam' = cam /\ cam \in Cams /\ cam \in Int /\ mem' = mem
      /\ UNCHANGED <<last, PageOf, map, pub, view>>
  BY <1>1, PlaneAssumption DEF IInv, TypeOK, PageOf
<1> HIDE DEF Boot
<1> QED  BY <1>1, <1>2 DEF Present!Objects, Present!Near

LEMMA LoadScenePresent == ASSUME IInv, LoadScene PROVE Present!Load
<1> USE DEF LoadScene, screenVars
<1>1. PhaseOf = "objects" /\ PhaseOf' = "synch" /\ ~Composing /\ ~Composing'
  BY DEF PhaseOf, Composing, IInv, Places
<1>2. mem'["layers"] \in Versions /\ mem'["layers"] > mem["layers"]
      /\ mem'["layers"] % SceneSize = 0 /\ mem'["dirty"] = 1
  BY DEF IInv, TypeOK, DirtySet
<1>3. cam' \in Cams /\ UNCHANGED <<last, PageOf, map, pub, view>>  BY <1>1 DEF PageOf
<1> HIDE DEF LoadScene
<1> QED  BY <1>1, <1>2, <1>3 DEF Present!Load

LEMMA LateUploadPresent == ASSUME IInv, LateUpload PROVE Present!Restyle
<1> USE DEF LateUpload, screenVars, frameVars
<1>1. PhaseOf = "config" /\ PhaseOf' = "config" /\ ~Composing /\ ~Composing'
  BY DEF PhaseOf, Composing, IInv, Places
<1>2. mem'["layers"] = mem["layers"] + 1 /\ mem'["layers"] \in Versions /\ mem'["dirty"] = 1
      /\ Present!SceneOf(mem'["layers"]) = Present!SceneOf(mem["layers"])
  BY DEF IInv, TypeOK, DirtySet, SceneOf
<1>3. UNCHANGED <<PhaseOf, cam, last, PageOf, map, pub, view>>  BY <1>1 DEF PageOf
<1> HIDE DEF LateUpload
<1> QED  BY <1>1, <1>2, <1>3 DEF Present!Restyle

LEMMA ConfigPresent == ASSUME IInv, Join \/ InlineConfig PROVE Present!Config
<1> USE DEF Join, InlineConfig, Wait, Config, frameVars
<1>1. PhaseOf = "config" /\ PhaseOf' = "synch" /\ ~Composing /\ ~Composing'
  BY DEF PhaseOf, Composing, IInv, Places
<1>2. /\ UNCHANGED <<cam, last, PageOf, map, view, mem>>
      /\ pub' = [cam |-> cam, scene |-> Present!SceneOf(mem["layers"])]
  BY <1>1 DEF PageOf, SceneOf
<1> HIDE DEF Join, InlineConfig
<1> QED  BY <1>1, <1>2 DEF Present!Config

\* the composition, when its last step is taken
LEMMA FinishPresent == ASSUME IInv, Planes, Finish PROVE Present!Compute
<1> USE DEF Finish, frameVars
<1>1. PhaseOf = "compute" /\ PhaseOf' = "config" /\ Composing /\ ~Composing'
  BY DEF PhaseOf, Composing, IInv, Places
<1>2. /\ ctx = cam /\ left = {} /\ (whole <=> mem["dirty"] = 1) /\ (whole \/ cam # last)
      /\ \A k \in 0 .. Plane - 1 : page[k] = ComposedBut({}, k)
  BY DEF Planes, InWork
<1>3. PageOf = map /\ PageOf' = page  BY <1>1 DEF PageOf
<1>4. page = Present!Composed(map, mem["layers"], cam, mem["dirty"] = 1)
  <2>1. page \in [0 .. Plane - 1 -> (Versions \cup {-1}) \X Int]  BY DEF IInv, TypeOK
  <2>2. \A k \in 0 .. Plane - 1 : page[k] =
          IF \E c \in Present!Rect(cam) : Present!Col(c) = k
          THEN <<mem["layers"], CHOOSE c \in Present!Rect(cam) : Present!Col(c) = k>>
          ELSE IF mem["dirty"] = 1 THEN Present!Blank ELSE map[k]
    BY <1>2 DEF ComposedBut, Column, Rect, Col, Blank
  <2> HIDE DEF Finish
  <2> QED  BY <2>1, <2>2 DEF Present!Composed
<1>5. mem'["layers"] = mem["layers"] /\ mem'["dirty"] = 0  BY DEF IInv, TypeOK
<1>6. last' = cam /\ UNCHANGED <<cam, map, pub, view>>  BY <1>2
<1> HIDE DEF Finish
<1> QED  BY <1>1, <1>2, <1>3, <1>4, <1>5, <1>6 DEF Present!Compute

\* or when there is nothing to compose
LEMMA StartPresent ==
  ASSUME IInv, Planes, Start
  PROVE  Present!Compute \/ UNCHANGED <<PhaseOf, mem, PageOf, cam, last, map, pub, view>>
<1> USE DEF Start, frameVars, screenVars
<1>1. PhaseOf = "compute" /\ Composing /\ map = page /\ args = cam
  BY DEF PhaseOf, Composing, IInv, Places, Planes, Marked, InWork
<1>2. Read(By, "dirty") = mem["dirty"] /\ mem["dirty"] \in {0, 1}
  BY Composer, ReadType DEF IInv, TypeOK, Shared, Fresh
<1>3. UNCHANGED <<mem, cam, last, map, pub, view, page, master, slave, forked>>  OBVIOUS
<1>4. PageOf' = PageOf  BY <1>1, <1>3 DEF PageOf
<1>5. CASE stage' # "palette"
  <2>1. Composing' /\ PhaseOf' = PhaseOf
    BY <1>5 DEF Composing, PhaseOf
  <2> QED  BY <1>3, <1>4, <2>1
<1>6. CASE stage' = "palette"
  <2>1. mem["dirty"] = 0 /\ cam = last  BY <1>1, <1>2, <1>6
  <2>2. PhaseOf' = "config"  BY <1>1, <1>3, <1>6 DEF PhaseOf, Composing, IInv, Places
  <2> HIDE DEF Start
  <2> QED  BY <1>1, <1>3, <1>4, <2>1, <2>2 DEF Present!Compute
<1> QED  BY <1>5, <1>6

LEMMA VBlankPresent == ASSUME IInv, Planes, VBlank PROVE Present!VBlank
<1> USE DEF VBlank, workVars, frameVars
<1>0. /\ map' = map \/ (map' = page /\ ~Composing)
      /\ master = "synch" => map' = page /\ master' = "objects"
      /\ mem'["layers"] = mem["layers"] /\ mem'["dirty"] = mem["dirty"]
  BY VBlankPlanes DEF Shared
<1>1. UNCHANGED <<cam, last, page, pub, stage, forked>> /\ view' = pub
      /\ (master # "synch" => master' = master)
  OBVIOUS
<1> HIDE DEF VBlank
<1>2. UNCHANGED PageOf /\ map' \in {map, PageOf}
  BY <1>0, <1>1 DEF PageOf, Composing
<1>3. CASE master # "synch"
  <2>1. PhaseOf' = PhaseOf  BY <1>1, <1>3 DEF PhaseOf, Composing
  <2> QED  BY <1>0, <1>1, <1>2, <2>1 DEF Present!VBlank
<1>4. CASE master = "synch"
  <2>1. PhaseOf = "synch" /\ PhaseOf' = "objects" /\ ~Composing
    BY <1>0, <1>4 DEF PhaseOf, Composing, IInv, Places
  <2> QED  BY <1>0, <1>1, <1>2, <1>4, <2>1 DEF Present!VBlank, PageOf
<1> QED  BY <1>3, <1>4

\* the steps the present does not see
pvars == <<PhaseOf, mem["layers"], cam, mem["dirty"], last, PageOf, map, pub, view>>

LEMMA QuietPresent ==
  ASSUME IInv, Planes,
         \/ LoadEnter \/ Unload \/ Kick \/ Inline \/ DrawSky
         \/ Clear \/ FillColumn \/ Palette \/ Mirror \/ Store \/ Return \/ SplashEnds
         \/ \E p \in Cpus, w \in Words : Evict(p, w)
         \/ UNCHANGED vars
  PROVE  UNCHANGED pvars
<1> USE DEF workVars, frameVars, screenVars
<1>1. CASE LoadEnter
  BY <1>1 DEF LoadEnter, pvars, PhaseOf, PageOf, Composing
<1>2. CASE Unload
  BY <1>2 DEF Unload, Wait, pvars, PhaseOf, PageOf, Composing
<1>3. CASE Kick \/ Inline
  BY <1>3 DEF Kick, Inline, pvars, PhaseOf, PageOf, Composing, Planes, Marked, IInv, Places
<1>4. CASE DrawSky
  BY <1>4 DEF DrawSky, pvars, PhaseOf, PageOf, Composing, IInv, Places
<1>5. CASE Clear
  BY <1>5 DEF Clear, pvars, PhaseOf, PageOf, Composing
<1>6. CASE FillColumn
  <2>1. mem'["layers"] = mem["layers"] /\ mem'["dirty"] = mem["dirty"]
    BY <1>6 DEF FillColumn, IInv, TypeOK
  <2>2. UNCHANGED <<master, forked, cam, last, map, pub, view>> /\ Composing /\ Composing'
    BY <1>6 DEF FillColumn, Composing
  <2> QED  BY <2>1, <2>2 DEF pvars, PhaseOf, PageOf
<1>7. CASE Palette \/ Mirror \/ Store \/ Return
  <2>1. mem'["layers"] = mem["layers"] /\ mem'["dirty"] = mem["dirty"]
    BY <1>7 DEF Palette, Mirror, Store, Return, IInv, TypeOK
  <2>2. UNCHANGED <<master, forked, cam, last, map, page, pub, view>> /\ ~Composing /\ ~Composing'
    BY <1>7 DEF Palette, Mirror, Store, Return, Composing
  <2> QED  BY <2>1, <2>2 DEF pvars, PhaseOf, PageOf
<1>8. CASE SplashEnds
  BY <1>8 DEF SplashEnds, pvars, PhaseOf, PageOf, Composing
<1>9. CASE \E p \in Cpus, w \in Words : Evict(p, w)
  BY <1>9 DEF Evict, pvars, PhaseOf, PageOf, Composing
<1>10. CASE UNCHANGED vars
  BY <1>10 DEF vars, pvars, PhaseOf, PageOf, Composing
<1> QED  BY <1>1, <1>2, <1>3, <1>4, <1>5, <1>6, <1>7, <1>8, <1>9, <1>10

LEMMA StepPresent == IInv /\ Planes /\ [Next]_vars => [Present!Next]_pvars
<1> SUFFICES ASSUME IInv, Planes, [Next]_vars PROVE Present!Next \/ UNCHANGED pvars
  OBVIOUS
<1>1. CASE Master
  BY <1>1, ObjectsPresent, BootPresent, LoadScenePresent, ConfigPresent, QuietPresent
     DEF Master, Present!Next
<1>2. CASE LateUpload  BY <1>2, LateUploadPresent DEF Present!Next
<1>3. CASE Compute
  BY <1>3, StartPresent, FinishPresent, QuietPresent DEF Compute, Present!Next, pvars
<1>4. CASE VBlank  BY <1>4, VBlankPresent DEF Present!Next
<1>5. CASE SplashEnds \/ (\E p \in Cpus, w \in Words : Evict(p, w)) \/ UNCHANGED vars
  BY <1>5, QuietPresent
<1> QED  BY <1>1, <1>2, <1>3, <1>4, <1>5 DEF Next

(* The fork implements the present: whichever processor composes and wherever  *)
(* the blanks fall, the screen sees p6_present_compute done in one piece after *)
(* the objects of its frame, and the scroll published after it.               *)
THEOREM Implements == Spec => PresentSpec
<1>1. Spec => Init /\ [][Next]_vars  BY DEF Spec
<1>2. IInv /\ Planes /\ [Next]_vars =>
        [Present!Next]_<<PhaseOf, mem["layers"], cam, mem["dirty"], last, PageOf, map, pub, view>>
  BY StepPresent DEF pvars
<1> QED
  BY <1>1, <1>2, InitPresent, Inductive, PlanesHold, PTL DEF PresentSpec, Present!Spec, Present!pvars

--------------------------------------------------------------------------------
(* A plane of one camera and one version, and the views it may be shown for.   *)
Clean(p) == \A k \in 0 .. Plane - 1 : p[k] = Blank
Sheet(p, x, v) ==
  /\ \A c \in Rect(x) : p[Col(c)] = <<v, c>>
  /\ \A k \in 0 .. Plane - 1 : p[k] = Blank \/ p[k][1] = v
Suits(x, v, w) == SceneOf(v) = w.scene => Present!Near(x, w.cam)
Now == [cam |-> cam, scene |-> SceneOf(mem["layers"])]

LastPlane ==
  \/ /\ last = Present!NoCam /\ PhaseOf # "config"
     /\ Clean(PageOf) /\ mem["dirty"] = 1 /\ pub.scene = -1
  \/ /\ last \in Cams
     /\ \E v \in 0 .. mem["layers"] :
          /\ Sheet(PageOf, last, v) /\ Suits(last, v, pub)
          /\ mem["dirty"] = 0 => v = mem["layers"]
          /\ SceneOf(v) = SceneOf(mem["layers"]) =>
               IF PhaseOf = "compute" THEN Present!Near(last, cam) ELSE last = cam
MapPlane ==
  \/ Clean(map)
  \/ \E x \in Cams, v \in 0 .. mem["layers"] :
       Sheet(map, x, v) /\ Suits(x, v, pub) /\ Suits(x, v, view) /\ Suits(x, v, Now)
Published ==
  /\ pub.scene <= SceneOf(mem["layers"])
  /\ pub.scene = SceneOf(mem["layers"]) =>
       IF PhaseOf \in {"compute", "config"} THEN Present!Near(pub.cam, cam) ELSE pub.cam = cam
Shown ==
  LastPlane /\ MapPlane /\ Published /\ (PhaseOf = "objects" => map = PageOf /\ view = pub)

--------------------------------------------------------------------------------
LEMMA ComposedIsSheet ==
  ASSUME NEW p, NEW x \in Cams, NEW l \in Nat, NEW w \in BOOLEAN,
         w \/ \A k \in 0 .. Plane - 1 : p[k] = Blank \/ p[k][1] = l
  PROVE  Sheet(Present!Composed(p, l, x, w), x, l)
<1> DEFINE P == Present!Composed(p, l, x, w)
<1>1. \A k \in 0 .. Plane - 1 : P[k] =
        IF \E c \in Rect(x) : Col(c) = k
        THEN <<l, CHOOSE c \in Rect(x) : Col(c) = k>> ELSE IF w THEN Blank ELSE p[k]
  BY DEF Present!Composed, Rect, Col, Blank
<1> HIDE DEF P
<1>2. ASSUME NEW c \in Rect(x) PROVE P[Col(c)] = <<l, c>>
  <2>1. Col(c) \in 0 .. Plane - 1 /\ \A d \in Rect(x) : Col(d) = Col(c) => d = c  BY RectFits
  <2>2. (CHOOSE d \in Rect(x) : Col(d) = Col(c)) = c  BY <2>1
  <2> QED  BY <1>1, <2>1, <2>2
<1>3. ASSUME NEW k \in 0 .. Plane - 1 PROVE P[k] = Blank \/ P[k][1] = l
  <2>1. CASE \E c \in Rect(x) : Col(c) = k
    <3>1. PICK c \in Rect(x) : Col(c) = k  BY <2>1
    <3>2. P[k] = <<l, c>>  BY <1>2, <3>1
    <3> QED  BY <3>2
  <2>2. CASE ~\E c \in Rect(x) : Col(c) = k  BY <1>1, <2>2
  <2> QED  BY <2>1, <2>2
<1> QED  BY <1>2, <1>3 DEF P, Sheet

LEMMA Typed ==
  ASSUME IInv
  PROVE  /\ mem["layers"] \in Versions /\ mem["layers"] \in Nat /\ mem["dirty"] \in {0, 1}
         /\ cam \in Cams /\ cam \in Nat /\ Present!NoCam \notin Cams
         /\ \A x \in Cams : x \in Nat
         /\ pub.cam \in Nat /\ pub.scene \in Int /\ view.cam \in Nat /\ view.scene \in Int
         /\ SceneOf(mem["layers"]) \in Nat
<1>1. mem["layers"] \in Versions /\ mem["layers"] \in Nat /\ mem["dirty"] \in {0, 1}
  BY VersionsAssumption DEF IInv, TypeOK
<1>2. SceneOf(mem["layers"]) \in Nat  BY <1>1, SceneMonotone
<1>3. cam \in Cams /\ \A x \in Cams : x \in Nat  BY PlaneAssumption DEF IInv, TypeOK
<1>4. Present!NoCam \notin Cams  BY <1>3 DEF Present!NoCam
<1>5. /\ pub.cam \in Nat /\ pub.scene \in Int
      /\ view.cam \in Nat /\ view.scene \in Int
  BY DEF IInv, TypeOK
<1> QED  BY <1>1, <1>2, <1>3, <1>4, <1>5

LEMMA InitShown == Init => Shown
<1> SUFFICES ASSUME Init PROVE Shown  OBVIOUS
<1> USE DEF Init
<1>1. /\ PhaseOf = "objects" /\ PageOf = page /\ map = page /\ Clean(page) /\ view = pub
      /\ pub.scene = -1 /\ mem["dirty"] = 1 /\ last = Present!NoCam /\ mem["layers"] = 0
  BY DEF PhaseOf, PageOf, Composing, Clean, Present!NoView
<1>2. SceneOf(0) \in Nat  BY SceneMonotone
<1> HIDE DEF Init
<1> QED  BY <1>1, <1>2 DEF Shown, LastPlane, MapPlane, Published

\* a new frame starts from the plane on the screen
LEMMA ObjectsShown == ASSUME IInv, IInv', Shown, Present!Objects PROVE Shown'
<1> USE DEF Present!Objects
<1>1. /\ PhaseOf = "objects" /\ map = PageOf /\ view = pub
      /\ UNCHANGED <<last, PageOf, map, pub, view>> /\ Present!Near(cam, cam')
      /\ PhaseOf' = "compute" \/ (last = Present!NoCam /\ PhaseOf' = "synch")
  BY DEF Shown
<1>2. /\ \/ mem'["layers"] = mem["layers"] /\ mem'["dirty"] = mem["dirty"]
         \/ mem'["dirty"] = 1
      /\ mem["layers"] <= mem'["layers"] /\ SceneOf(mem'["layers"]) = SceneOf(mem["layers"])
  BY Typed DEF SceneOf
<1>3. cam' \in Cams /\ cam' \in Nat /\ mem'["layers"] \in Nat /\ mem'["dirty"] \in {0, 1}
  BY PlaneAssumption, VersionsAssumption DEF IInv, TypeOK
<1> HIDE DEF Present!Objects
<1>4. CASE last = Present!NoCam
  <2>1. PhaseOf' # "config" /\ Clean(PageOf) /\ mem["dirty"] = 1 /\ pub.scene = -1
    BY <1>1, <1>4, Typed DEF Shown, LastPlane
  <2>2. LastPlane' /\ MapPlane'
    BY <1>1, <1>2, <1>4, <2>1 DEF LastPlane, MapPlane, Clean
  <2>3. Published'  BY <1>1, <1>2, <2>1, Typed DEF Published
  <2> QED  BY <1>1, <2>2, <2>3 DEF Shown
<1>5. CASE last # Present!NoCam
  <2>1. PICK v \in 0 .. mem["layers"] :
          /\ Sheet(PageOf, last, v) /\ Suits(last, v, pub)
          /\ mem["dirty"] = 0 => v = mem["layers"]
          /\ SceneOf(v) = SceneOf(mem["layers"]) => last = cam
    BY <1>1, <1>5 DEF Shown, LastPlane
  <2>2. last \in Cams  BY <1>5 DEF Shown, LastPlane
  <2>3. PhaseOf' = "compute" /\ v \in 0 .. mem'["layers"]  BY <1>1, <1>2, <1>3, <1>5, Typed
  <2>4. SceneOf(v) = SceneOf(mem'["layers"]) => Present!Near(last, cam')
    BY <1>1, <1>2, <2>1
  <2>5. Sheet(PageOf', last', v) /\ Suits(last', v, pub')
    BY <1>1, <2>1
  <2>6. LastPlane'
    BY <1>1, <1>2, <1>3, <2>1, <2>2, <2>3, <2>4, <2>5, Typed DEF LastPlane
  <2>7. MapPlane'
    <3>1. Sheet(map', last', v) /\ Suits(last', v, view') /\ Suits(last', v, Now')
      BY <1>1, <2>4, <2>5 DEF Suits, Now
    <3> QED  BY <1>1, <2>2, <2>3, <2>5, <3>1 DEF MapPlane
  <2>8. Published'
    BY <1>1, <1>2, <2>3, Typed DEF Published, Shown, Present!Near
  <2> QED  BY <2>3, <2>6, <2>7, <2>8 DEF Shown
<1> QED  BY <1>4, <1>5

\* no plane of an earlier scene is one of the new scene's
LEMMA LoadShown == ASSUME IInv, IInv', Shown, Present!Load PROVE Shown'
<1> USE DEF Present!Load
<1>1. /\ UNCHANGED <<last, PageOf, map, pub, view>> /\ PhaseOf' = "synch"
      /\ mem'["dirty"] = 1 /\ mem'["layers"] \in Nat /\ mem["layers"] <= mem'["layers"]
      /\ mem["layers"] \in Nat
  <2>1. mem["layers"] \in Nat /\ mem'["layers"] \in Versions /\ mem'["layers"] > mem["layers"]
    BY Typed
  <2>2. mem'["layers"] \in Nat  BY <2>1, VersionsAssumption
  <2> QED  BY <2>1, <2>2
<1>2. \A v \in 0 .. mem["layers"] : v \in 0 .. mem'["layers"]
                                    /\ SceneOf(v) < SceneOf(mem'["layers"])
  <2>1. mem'["layers"] > mem["layers"] /\ mem'["layers"] % SceneSize = 0  OBVIOUS
  <2>2. SUFFICES ASSUME NEW v \in 0 .. mem["layers"]
                 PROVE  v \in 0 .. mem'["layers"] /\ SceneOf(v) < SceneOf(mem'["layers"])
    OBVIOUS
  <2>3. v \in Nat /\ v < mem'["layers"]  BY <1>1, <2>1
  <2> QED  BY <1>1, <2>1, <2>3, SceneMonotone
<1> HIDE DEF Present!Load
<1>3. \A v \in 0 .. mem["layers"] : SceneOf(v) # SceneOf(mem'["layers"])
  <2>1. SUFFICES ASSUME NEW v \in 0 .. mem["layers"]
                 PROVE  SceneOf(v) # SceneOf(mem'["layers"])
    OBVIOUS
  <2>2. SceneOf(v) \in Nat /\ SceneOf(mem'["layers"]) \in Nat  BY <1>1, SceneMonotone
  <2> QED  BY <1>2, <2>2
<1>4. LastPlane'
  <2>1. CASE last = Present!NoCam
    BY <1>1, <2>1, Typed DEF Shown, LastPlane, Clean
  <2>2. CASE last # Present!NoCam
    <3>1. PICK v \in 0 .. mem["layers"] : Sheet(PageOf, last, v) /\ Suits(last, v, pub)
      BY <2>2 DEF Shown, LastPlane
    <3>2. last \in Cams  BY <2>2 DEF Shown, LastPlane
    <3>3. Sheet(PageOf', last', v) /\ Suits(last', v, pub')  BY <1>1, <3>1
    <3> QED  BY <1>1, <1>2, <1>3, <3>1, <3>2, <3>3 DEF LastPlane
  <2> QED  BY <2>1, <2>2
<1>5. MapPlane'
  <2>1. CASE Clean(map)  BY <1>1, <2>1 DEF MapPlane, Clean
  <2>2. CASE ~Clean(map)
    <3>1. PICK x \in Cams, v \in 0 .. mem["layers"] :
            Sheet(map, x, v) /\ Suits(x, v, pub) /\ Suits(x, v, view)
      BY <2>2 DEF Shown, MapPlane
    <3>2. Sheet(map', x, v) /\ Suits(x, v, pub') /\ Suits(x, v, view')  BY <1>1, <3>1
    <3>3. Suits(x, v, Now')  BY <1>3 DEF Suits, Now
    <3> QED  BY <1>2, <3>2, <3>3 DEF MapPlane
  <2> QED  BY <2>1, <2>2
<1>6. Published'
  <2>1. SceneOf(mem["layers"]) < SceneOf(mem'["layers"]) /\ SceneOf(mem'["layers"]) \in Nat
    BY <1>1, <1>2, SceneMonotone
  <2>2. pub.scene <= SceneOf(mem["layers"])  BY DEF Shown, Published
  <2> QED  BY <1>1, <2>1, <2>2, Typed DEF Published
<1> QED  BY <1>1, <1>4, <1>5, <1>6 DEF Shown

LEMMA ComputeShown == ASSUME IInv, IInv', Shown, Present!Compute PROVE Shown'
<1> USE DEF Present!Compute
<1>1. /\ PhaseOf = "compute" /\ PhaseOf' = "config"
      /\ UNCHANGED <<cam, map, pub, view>> /\ mem'["layers"] = mem["layers"] /\ mem'["dirty"] = 0
      /\ last' = cam
  BY Typed
<1>2. PageOf' = IF mem["dirty"] = 1 \/ cam # last
                THEN Present!Composed(PageOf, mem["layers"], cam, mem["dirty"] = 1) ELSE PageOf
  OBVIOUS
<1> HIDE DEF Present!Compute
<1>3. mem["dirty"] = 0 => last \in Cams /\ Sheet(PageOf, last, mem["layers"])
  BY Typed DEF Shown, LastPlane
<1>4. Sheet(PageOf', cam, mem["layers"])
  <2>1. CASE mem["dirty"] = 1 \/ cam # last
    <3>1. mem["dirty"] = 1 \/ \A k \in 0 .. Plane - 1 :
            PageOf[k] = Blank \/ PageOf[k][1] = mem["layers"]
      BY <1>3, Typed DEF Sheet
    <3>2. (mem["dirty"] = 1) \in BOOLEAN  OBVIOUS
    <3> QED  BY <1>2, <2>1, <3>1, <3>2, Typed, ComposedIsSheet
  <2>2. CASE mem["dirty"] # 1 /\ cam = last
    BY <1>2, <1>3, <2>2, Typed
  <2> QED  BY <2>1, <2>2
<1>5. Suits(cam, mem["layers"], pub)
  BY <1>1, Typed DEF Shown, Published, Suits, Present!Near
<1>6. LastPlane'
  <2>1. mem["layers"] \in 0 .. mem["layers"]  BY Typed
  <2> QED  BY <1>1, <1>4, <1>5, <2>1, Typed DEF LastPlane
<1>7. MapPlane'
  <2>1. Now' = Now  BY <1>1 DEF Now
  <2> QED  BY <1>1, <2>1 DEF Shown, MapPlane, Clean
<1>8. Published'  BY <1>1 DEF Shown, Published
<1> QED  BY <1>1, <1>6, <1>7, <1>8 DEF Shown

LEMMA RestyleShown == ASSUME IInv, IInv', Shown, Present!Restyle PROVE Shown'
<1> USE DEF Present!Restyle
<1>1. /\ PhaseOf = "config" /\ PhaseOf' = PhaseOf /\ mem'["dirty"] = 1
      /\ UNCHANGED <<cam, last, PageOf, map, pub, view>>
      /\ SceneOf(mem'["layers"]) = SceneOf(mem["layers"])
      /\ \A v \in 0 .. mem["layers"] : v \in 0 .. mem'["layers"]
  BY Typed DEF SceneOf
<1> HIDE DEF Present!Restyle
<1>2. LastPlane'
  <2>1. PICK v \in 0 .. mem["layers"] :
          /\ Sheet(PageOf, last, v) /\ Suits(last, v, pub)
          /\ SceneOf(v) = SceneOf(mem["layers"]) => last = cam
    BY <1>1 DEF Shown, LastPlane
  <2>2. last \in Cams  BY <1>1 DEF Shown, LastPlane
  <2> QED  BY <1>1, <2>1, <2>2 DEF LastPlane
<1>3. MapPlane'
  <2>1. Now' = Now  BY <1>1 DEF Now
  <2> QED  BY <1>1, <2>1 DEF Shown, MapPlane, Clean
<1>4. Published'  BY <1>1 DEF Shown, Published
<1> QED  BY <1>1, <1>2, <1>3, <1>4 DEF Shown

LEMMA ConfigShown == ASSUME IInv, IInv', Shown, Present!Config PROVE Shown'
<1> USE DEF Present!Config
<1>1. /\ PhaseOf = "config" /\ PhaseOf' = "synch" /\ pub' = Now
      /\ UNCHANGED <<cam, last, PageOf, map, view>>
      /\ mem'["layers"] = mem["layers"] /\ mem'["dirty"] = mem["dirty"]
  BY DEF Now, SceneOf
<1> HIDE DEF Present!Config
<1>2. pub'.cam = cam /\ pub'.scene = SceneOf(mem["layers"]) /\ Now' = Now
  BY <1>1 DEF Now
<1>3. LastPlane'
  <2>1. PICK v \in 0 .. mem["layers"] :
          /\ Sheet(PageOf, last, v)
          /\ mem["dirty"] = 0 => v = mem["layers"]
          /\ SceneOf(v) = SceneOf(mem["layers"]) => last = cam
    BY <1>1 DEF Shown, LastPlane
  <2>2. last \in Cams  BY <1>1 DEF Shown, LastPlane
  <2>3. Suits(last, v, pub')  BY <1>2, <2>1 DEF Suits, Present!Near
  <2> QED  BY <1>1, <2>1, <2>2, <2>3 DEF LastPlane
<1>4. MapPlane'  BY <1>1, <1>2 DEF Shown, MapPlane, Clean
<1>5. Published'  BY <1>1, <1>2, Typed DEF Published
<1> QED  BY <1>1, <1>3, <1>4, <1>5 DEF Shown

LEMMA VBlankShown == ASSUME IInv, IInv', Shown, Present!VBlank PROVE Shown'
<1> USE DEF Present!VBlank
<1>1. /\ UNCHANGED <<cam, last, PageOf, pub>> /\ view' = pub
      /\ mem'["layers"] = mem["layers"] /\ mem'["dirty"] = mem["dirty"]
      /\ map' = map \/ map' = PageOf
      /\ PhaseOf' = PhaseOf \/ (PhaseOf = "synch" /\ map' = PageOf /\ PhaseOf' = "objects")
  OBVIOUS
<1> HIDE DEF Present!VBlank
<1>2. Now' = Now  BY <1>1 DEF Now
<1>3. LastPlane'
  <2>1. PhaseOf' = "config" <=> PhaseOf = "config"  BY <1>1
  <2>2. PhaseOf' = "compute" <=> PhaseOf = "compute"  BY <1>1
  <2> QED  BY <1>1, <2>1, <2>2 DEF Shown, LastPlane, Clean
<1>4. MapPlane'
  <2>1. CASE map' = map  BY <1>1, <1>2, <2>1 DEF Shown, MapPlane, Clean
  <2>2. CASE map' = PageOf /\ last = Present!NoCam
    BY <1>1, <2>2, Typed DEF Shown, LastPlane, MapPlane, Clean
  <2>3. CASE map' = PageOf /\ last # Present!NoCam
    <3>1. PICK v \in 0 .. mem["layers"] :
            /\ Sheet(PageOf, last, v) /\ Suits(last, v, pub)
            /\ SceneOf(v) = SceneOf(mem["layers"]) => Present!Near(last, cam) \/ last = cam
      BY <2>3 DEF Shown, LastPlane
    <3>2. last \in Cams  BY <2>3 DEF Shown, LastPlane
    <3>3. Suits(last, v, Now)  BY <3>1 DEF Suits, Now, Present!Near
    <3> QED  BY <1>1, <1>2, <2>3, <3>1, <3>2, <3>3 DEF MapPlane
  <2> QED  BY <1>1, <2>1, <2>2, <2>3
<1>5. Published'  BY <1>1 DEF Shown, Published
<1>6. PhaseOf' = "objects" => map' = PageOf' /\ view' = pub'  BY <1>1 DEF Shown
<1> QED  BY <1>3, <1>4, <1>5, <1>6 DEF Shown

LEMMA StepShown == IInv /\ IInv' /\ Shown /\ [Present!Next]_pvars => Shown'
<1> SUFFICES ASSUME IInv, IInv', Shown, [Present!Next]_pvars PROVE Shown'  OBVIOUS
<1>1. CASE Present!Next
  BY <1>1, ObjectsShown, LoadShown, ComputeShown, RestyleShown, ConfigShown, VBlankShown
     DEF Present!Next
<1>2. CASE UNCHANGED pvars
  <2>1. Now' = Now  BY <1>2 DEF pvars, Now
  <2> QED  BY <1>2, <2>1 DEF pvars, Shown, LastPlane, MapPlane, Published, Clean
<1> QED  BY <1>1, <1>2

LEMMA NoneTorn == IInv /\ Shown => NothingTorn
<1> SUFFICES ASSUME IInv, Shown, NEW c \in Present!Visible(view), map[Col(c)] # Blank,
                    SceneOf(map[Col(c)][1]) = view.scene, NEW k \in Present!Visible(view)
             PROVE  map[Col(k)] = <<map[Col(c)][1], k>>
  BY DEF NothingTorn
<1>1. view.cam \in Nat /\ View \in Nat /\ Plane \in Nat /\ Plane > 0
  BY Typed, PlaneAssumption
<1>2. c \in Int /\ k \in Int /\ Col(c) \in 0 .. Plane - 1
  BY <1>1 DEF Present!Visible, Col, Present!Col
<1>3. PICK x \in Cams, v \in 0 .. mem["layers"] : Sheet(map, x, v) /\ Suits(x, v, view)
  BY <1>2 DEF Shown, MapPlane, Clean
<1>4. map[Col(c)][1] = v  BY <1>2, <1>3 DEF Sheet
<1>5. Present!Near(x, view.cam)  BY <1>3, <1>4 DEF Suits
<1>6. k \in Rect(x)
  BY <1>1, <1>2, <1>5, Typed DEF Present!Near, Present!Visible, Rect, Present!Rect
<1> QED  BY <1>3, <1>4, <1>6 DEF Sheet

(* The plane on the screen is never a half composed one: the scroll the VDP2    *)
(* is given and the columns p6_fg_vblank copied are of one camera or of         *)
(* neighbours, for any View + 3 <= Plane, cameras, versions and scene size.    *)
THEOREM Untorn == Spec => []NothingTorn
<1>1. IInv /\ IInv' /\ Planes /\ Shown /\ [Next]_vars => Shown'  BY StepPresent, StepShown
<1>2. Spec => Init /\ [][Next]_vars  BY DEF Spec
<1>3. Spec => []Shown  BY <1>1, <1>2, InitShown, Inductive, PlanesHold, PTL
<1> QED  BY <1>3, NoneTorn, Inductive, PTL
================================================================================
