--------------------------- MODULE PresentFork_proofs ---------------------------
(***************************************************************************)
(* Theorems about PresentFork for any cameras, plane and versions.  Where the *)
(* two processors are (Places) decides which of them writes the shared words, *)
(* and the other one's lines are old from that moment: the master's until it  *)
(* has joined, the slave's until slSynch (Lines).                            *)
(***************************************************************************)
EXTENDS PresentFork, TLAPS

\* who runs what when
Places ==
  /\ slave = "present" => master \in {"sky", "join"} /\ forked /\ stage # "none"
  /\ stage # "none" => slave = "present" \/ master = "inline"
  /\ slave = "splash" => master \in {"boot", "unload"}
  /\ master = "boot" => (slave = "splash" <=> go)
  /\ master = "join" => forked
  /\ master = "inline" => ~forked
  /\ stage \in {"mirror", "store"} => slave = "present"
  /\ stage # "none" => args \in Cams
  /\ stage \in {"clear", "fill", "finish"} => ctx \in Cams
  /\ done => slave = "idle" /\ (master = "unload" \/ (master \in {"sky", "join"} /\ forked))
  /\ master \in {"boot", "unload", "objects", "load", "kick", "synch"} => stage = "none"

\* the words both processors use, but for pending
Shared == {"dirty", "layers", "windows"}
OnFork == master = "join" \/ (master = "sky" /\ forked)
Lines ==
  /\ ~OnFork => Fresh("master", Shared)
  /\ ~OnFork /\ master # "synch" => \A w \in Words : cache["slave"][w] = NoLine
  /\ slave = "present" => Fresh("slave", Shared)

\* a flag is a flag in a line, too
Flags == \A p \in Cpus : cache[p]["pending"] \in {NoLine, 0, 1}

IInv == TypeOK /\ Places /\ Lines /\ Flags

USE DEF Words, Cpus, NoLine

LEMMA ReadType ==
  ASSUME TypeOK, NEW p \in Cpus, NEW w \in Words
  PROVE  Read(p, w) \in Nat /\ (cache[p][w] \in {NoLine, mem[w]} => Read(p, w) = mem[w])
  BY DEF TypeOK, Read

Caches == [Cpus -> [Words -> Nat \cup {NoLine}]]

LEMMA LoadedFacts ==
  ASSUME TypeOK, NEW p \in Cpus, NEW W \in SUBSET Words
  PROVE  /\ Loaded(cache, p, W) \in Caches
         /\ \A q \in Cpus, w \in Words :
              Loaded(cache, p, W)[q][w] = IF q = p /\ w \in W THEN Read(p, w) ELSE cache[q][w]
<1>1. \A w \in Words : Read(p, w) \in Nat  BY ReadType
<1>2. cache \in [Cpus -> [Words -> Nat \cup {NoLine}]]  BY DEF TypeOK
<1> QED  BY <1>1, <1>2 DEF Loaded, Caches

--------------------------------------------------------------------------------
LEMMA InitIInv == Init => IInv
<1> SUFFICES ASSUME Init PROVE IInv  OBVIOUS
<1> USE DEF Init
<1>1. /\ mem \in [Words -> Nat] /\ mem["layers"] = 0 /\ mem["dirty"] = 1 /\ mem["pending"] = 0
      /\ cache \in [Cpus -> [Words -> Nat \cup {NoLine}]]
  OBVIOUS
<1>2. /\ page \in [0 .. Plane - 1 -> (Versions \cup {-1}) \X Int] /\ map = page
      /\ pub \in [cam : Nat, scene : Int] /\ view = pub
  <2>1. Blank \in (Versions \cup {-1}) \X Int  BY DEF Blank, Present!Blank
  <2> QED  BY <2>1 DEF Present!NoView
<1>3. TypeOK  BY <1>1, <1>2, VersionsAssumption DEF TypeOK
<1>4. Places  BY DEF Places
<1>5. Lines  BY DEF Lines, OnFork, Fresh, Shared
<1>6. Flags  BY DEF Flags
<1> QED  BY <1>3, <1>4, <1>5, <1>6 DEF IInv

LEMMA EvictIInv == ASSUME IInv, NEW p \in Cpus, NEW w \in Words, Evict(p, w) PROVE IInv'
<1> USE DEF Evict
<1>1. cache' = [cache EXCEPT ![p][w] = NoLine]  OBVIOUS
<1>2. /\ cache' \in Caches
      /\ \A q \in Cpus, x \in Words : cache'[q][x] \in {NoLine, cache[q][x]}
  BY <1>1 DEF IInv, TypeOK, Caches
<1>3. TypeOK'  BY <1>2 DEF IInv, TypeOK, Caches, workVars, frameVars, screenVars
<1>4. Places'  BY DEF IInv, Places, workVars, frameVars, screenVars
<1>5. Lines'  BY <1>2 DEF IInv, Lines, OnFork, Fresh, Shared, frameVars
<1>6. Flags'  BY <1>2 DEF IInv, Flags
<1> QED  BY <1>3, <1>4, <1>5, <1>6 DEF IInv

\* what the steps outside the caches leave of the invariant
LEMMA SameWords ==
  ASSUME IInv, UNCHANGED <<mem, cache>>, Places',
         OnFork' => OnFork \/ slave' = "present",
         ~OnFork' => ~OnFork,
         ~OnFork' /\ master' # "synch" => ~OnFork /\ master # "synch",
         slave' = "present" => slave = "present" \/ (~OnFork /\ master # "synch")
  PROVE  Lines'
<1>1. ~OnFork' => (Fresh("master", Shared))'  BY DEF IInv, Lines, Fresh, Shared
<1>2. ~OnFork' /\ master' # "synch" => \A w \in Words : cache'["slave"][w] = NoLine
  BY DEF IInv, Lines
<1>3. slave' = "present" => (Fresh("slave", Shared))'
  BY DEF IInv, Lines, Fresh, Shared
<1> QED  BY <1>1, <1>2, <1>3 DEF Lines

\* the master alone stores to the shared words
LEMMA ObjectsIInv == ASSUME IInv, Objects PROVE IInv'
<1> USE DEF Objects
<1> DEFINE seen == Loaded(cache, "master", {"layers", "windows"})
<1>0. /\ master = "objects" /\ ~OnFork /\ stage = "none" /\ slave = "idle" /\ ~done
      /\ master' \in {"synch", "kick"}
  BY DEF OnFork, IInv, Places, TypeOK
<1>1. cam' \in Cams /\ cam' \in Nat  BY PlaneAssumption
<1>2. /\ seen \in Caches
      /\ \A q \in Cpus, w \in Words :
           seen[q][w] = IF q = "master" /\ w \in {"layers", "windows"} THEN Read("master", w)
                        ELSE cache[q][w]
  BY LoadedFacts DEF IInv
<1>3. \A w \in {"layers", "windows"} : Read("master", w) = mem[w]
  BY <1>0, ReadType DEF IInv, Lines, Fresh, Shared
<1>4. \A w \in Shared : seen["master"][w] \in {NoLine, mem[w]}
  BY <1>0, <1>2, <1>3 DEF IInv, Lines, Fresh, Shared
<1>4a. \A q \in Cpus : seen[q]["pending"] \in {NoLine, 0, 1}
  BY <1>2 DEF IInv, Flags
<1>5. /\ cache' \in Caches /\ \A w \in Words : cache'["slave"][w] = NoLine
      /\ \A w \in Shared : cache'["master"][w] \in {NoLine, mem'[w]}
      /\ mem' \in [Words -> Nat] /\ mem'["layers"] \in Versions /\ mem'["dirty"] \in {0, 1}
      /\ mem'["pending"] \in {0, 1} /\ Flags'
  <2> HIDE DEF seen
  <2>1. CASE /\ mem' = [mem EXCEPT !["windows"] = cam']
             /\ cache' = Put(seen, "master", "windows", cam')
    <3>1. cache' \in Caches /\ \A q \in Cpus, x \in Words :
            cache'[q][x] = IF q = "master" /\ x = "windows" /\ seen[q][x] # NoLine
                           THEN cam' ELSE seen[q][x]
      BY <1>1, <1>2, <2>1 DEF Put, Caches
    <3>2. mem' \in [Words -> Nat] /\ mem'["windows"] = cam'
          /\ \A w \in {"layers", "dirty", "pending"} : mem'[w] = mem[w]
      BY <1>1, <2>1 DEF IInv, TypeOK
    <3>3. Flags'  BY <1>4a, <3>1 DEF Flags
    <3>4. \A w \in Words : cache'["slave"][w] = NoLine
      BY <1>0, <1>2, <3>1 DEF IInv, Lines
    <3>5. \A w \in Shared : cache'["master"][w] \in {NoLine, mem'[w]}
      BY <1>4, <3>1, <3>2 DEF Shared
    <3> QED  BY <3>1, <3>2, <3>3, <3>4, <3>5 DEF IInv, TypeOK
  <2>2. CASE /\ mem["layers"] + 1 \in Versions
             /\ mem' = [mem EXCEPT !["windows"] = cam', !["layers"] = @ + 1, !["dirty"] = DirtySet]
             /\ cache' = Put(Put(Put(seen, "master", "windows", cam'),
                                 "master", "layers", mem["layers"] + 1),
                             "master", "dirty", DirtySet)
    <3>1. PICK c1 : c1 = Put(seen, "master", "windows", cam')  OBVIOUS
    <3>2. PICK c2 : c2 = Put(c1, "master", "layers", mem["layers"] + 1)  OBVIOUS
    <3>3. cache' = Put(c2, "master", "dirty", 1)  BY <2>2, <3>1, <3>2 DEF DirtySet
    <3>4. mem["layers"] + 1 \in Nat  BY DEF IInv, TypeOK
    <3>5. c1 \in Caches /\ \A q \in Cpus, x \in Words :
            c1[q][x] = IF q = "master" /\ x = "windows" /\ seen[q][x] # NoLine
                       THEN cam' ELSE seen[q][x]
      BY <1>1, <1>2, <3>1 DEF Put, Caches
    <3>6. c2 \in Caches /\ \A q \in Cpus, x \in Words :
            c2[q][x] = IF q = "master" /\ x = "layers" /\ c1[q][x] # NoLine
                       THEN mem["layers"] + 1 ELSE c1[q][x]
      BY <3>2, <3>4, <3>5 DEF Put, Caches
    <3>7. cache' \in Caches /\ \A q \in Cpus, x \in Words :
            cache'[q][x] = IF q = "master" /\ x = "dirty" /\ c2[q][x] # NoLine
                           THEN 1 ELSE c2[q][x]
      BY <3>3, <3>6 DEF Put, Caches
    <3>8. /\ mem' \in [Words -> Nat] /\ mem'["layers"] = mem["layers"] + 1
          /\ mem'["dirty"] = 1 /\ mem'["pending"] = mem["pending"] /\ mem'["windows"] = cam'
      BY <2>2, <1>1, <3>4 DEF DirtySet, IInv, TypeOK
    <3>9. \A w \in Words : cache'["slave"][w] = NoLine
      BY <1>0, <1>2, <3>5, <3>6, <3>7 DEF IInv, Lines
    <3>10. \A w \in Shared : cache'["master"][w] \in {NoLine, mem'[w]}
      BY <1>4, <3>5, <3>6, <3>7, <3>8 DEF Shared
    <3>11. Flags'  BY <1>4a, <3>5, <3>6, <3>7 DEF Flags
    <3> QED  BY <2>2, <3>7, <3>8, <3>9, <3>10, <3>11 DEF IInv, TypeOK
  <2> QED  BY <2>1, <2>2 DEF seen
<1>6. TypeOK'
  BY <1>0, <1>1, <1>5 DEF IInv, TypeOK, Caches, workVars, screenVars
<1>7. Places'  BY <1>0 DEF IInv, Places, TypeOK
<1>8. Lines'  BY <1>0, <1>5 DEF Lines, Fresh, Shared, OnFork
<1> QED  BY <1>5, <1>6, <1>7, <1>8 DEF IInv

LEMMA LoadIInv == ASSUME IInv, Boot \/ LoadEnter PROVE IInv'
<1> USE DEF Boot, LoadEnter, workVars, screenVars, frameVars
<1>1. TypeOK'
  <2>1. CASE Boot
    <3>1. go' \in BOOLEAN /\ master' \in {"unload", "synch"}
      <4>1. go' = FALSE  BY <2>1 DEF GoCleared
      <4>2. master' \in {"unload", "synch"}  BY <2>1
      <4> QED  BY <4>1, <4>2
    <3>2. UNCHANGED <<slave, stage, workVars, mem, cache, done, frameVars, args, screenVars, sky>>
      BY <2>1
    <3> HIDE DEF Boot, LoadEnter
    <3> QED  BY <3>1, <3>2 DEF IInv, TypeOK
  <2>2. CASE LoadEnter
    <3>1. splash' \in BOOLEAN  BY <2>2 DEF IInv, TypeOK
    <3> QED  BY <2>2, <3>1 DEF IInv, TypeOK
  <2> QED  BY <2>1, <2>2
<1>2. Places'
  <2>1. CASE Boot  BY <2>1 DEF IInv, Places, TypeOK, GoCleared
  <2>2. CASE LoadEnter  BY <2>2 DEF IInv, Places, TypeOK
  <2> QED  BY <2>1, <2>2
<1>3. Lines'  BY <1>2, SameWords DEF OnFork, IInv, Places
<1>4. Flags'  BY DEF IInv, Flags
<1> QED  BY <1>1, <1>2, <1>3, <1>4 DEF IInv

LEMMA LoadSceneIInv == ASSUME IInv, LoadScene PROVE IInv'
<1> USE DEF LoadScene
<1>0. /\ stage = "none" /\ slave # "present" /\ ~done /\ ~OnFork
      /\ master' = "synch"
  BY DEF IInv, Places, TypeOK, OnFork
<1>1. PICK n \in Versions :
        /\ mem' = [mem EXCEPT !["layers"] = n, !["dirty"] = DirtySet, !["windows"] = 0]
        /\ cache' = Put(Put(Put(cache, "master", "layers", n), "master", "dirty", DirtySet),
                        "master", "windows", 0)
  OBVIOUS
<1>2. n \in Nat  BY VersionsAssumption
<1>3. PICK c1 : c1 = Put(cache, "master", "layers", n)  OBVIOUS
<1>4. PICK c2 : c2 = Put(c1, "master", "dirty", 1)  OBVIOUS
<1>5. cache' = Put(c2, "master", "windows", 0)  BY <1>1, <1>3, <1>4 DEF DirtySet
<1>6. c1 \in Caches /\ \A q \in Cpus, x \in Words :
        c1[q][x] = IF q = "master" /\ x = "layers" /\ cache[q][x] # NoLine
                   THEN n ELSE cache[q][x]
  <2>1. cache \in Caches  BY DEF IInv, TypeOK, Caches
  <2> QED  BY <1>2, <1>3, <2>1 DEF Put, Caches
<1>7. c2 \in Caches /\ \A q \in Cpus, x \in Words :
        c2[q][x] = IF q = "master" /\ x = "dirty" /\ c1[q][x] # NoLine THEN 1 ELSE c1[q][x]
  BY <1>4, <1>6 DEF Put, Caches
<1>8. cache' \in Caches /\ \A q \in Cpus, x \in Words :
        cache'[q][x] = IF q = "master" /\ x = "windows" /\ c2[q][x] # NoLine
                       THEN 0 ELSE c2[q][x]
  BY <1>5, <1>7 DEF Put, Caches
<1>9. /\ mem' \in [Words -> Nat] /\ mem'["layers"] = n /\ mem'["dirty"] = 1
      /\ mem'["windows"] = 0 /\ mem'["pending"] = mem["pending"]
  BY <1>1, <1>2 DEF DirtySet, IInv, TypeOK
<1>10. \A w \in Words : cache'["slave"][w] = NoLine
  BY <1>0, <1>6, <1>7, <1>8 DEF IInv, Lines
<1>11. \A w \in Shared : cache'["master"][w] \in {NoLine, mem'[w]}
  BY <1>0, <1>6, <1>7, <1>8, <1>9 DEF IInv, Lines, Fresh, Shared
<1>12. cam' \in Cams /\ forked' \in BOOLEAN /\ sky' \in BOOLEAN
  OBVIOUS
<1>13. TypeOK'
  BY <1>0, <1>8, <1>9, <1>12 DEF IInv, TypeOK, Caches, workVars, screenVars
<1>14. Places'  BY <1>0 DEF IInv, Places, TypeOK
<1>15. Lines'  BY <1>0, <1>10, <1>11 DEF Lines, Fresh, OnFork, Shared
<1>16. Flags'  BY <1>6, <1>7, <1>8 DEF IInv, Flags
<1> QED  BY <1>13, <1>14, <1>15, <1>16 DEF IInv

LEMMA JoinIInv == ASSUME IInv, Unload \/ Join PROVE IInv'
<1> USE DEF Unload, Join, Wait
<1>0. /\ slave = "idle" /\ stage = "none" /\ ~done' /\ master' = "synch" /\ slave' = "idle"
      /\ stage' = "none" /\ mem' = mem
  BY DEF IInv, Places, TypeOK, DoneAfterJoin
<1>1. /\ cache' \in Caches
      /\ \A w \in Words : cache'["master"][w] = NoLine
      /\ cache'["slave"] = cache["slave"]
  <2>1. cache \in Caches /\ NoLines \in [Words -> Nat \cup {NoLine}]
    BY DEF IInv, TypeOK, Caches, NoLines
  <2>2. cache' = [cache EXCEPT !["master"] = NoLines]  BY DEF LinesAfterJoin
  <2> QED  BY <2>1, <2>2 DEF Caches, NoLines
<1>2. pub' \in [cam : Nat, scene : Int] /\ sky' \in BOOLEAN /\ splash' \in BOOLEAN
      /\ forked' \in BOOLEAN
  <2>1. SceneOf(mem["layers"]) \in Int
    BY VersionsAssumption DEF IInv, TypeOK, SceneOf, Present!SceneOf
  <2>2. cam \in Nat  BY PlaneAssumption DEF IInv, TypeOK
  <2>3. pub' = pub \/ pub' = [cam |-> cam, scene |-> SceneOf(mem["layers"])]
    BY DEF Config, screenVars
  <2>4. pub' \in [cam : Nat, scene : Int]  BY <2>1, <2>2, <2>3 DEF IInv, TypeOK
  <2>5. sky' \in BOOLEAN  BY DEF IInv, TypeOK
  <2> QED  BY <2>4, <2>5 DEF IInv, TypeOK, frameVars
<1>3. TypeOK'
  BY <1>0, <1>1, <1>2 DEF IInv, TypeOK, Caches, workVars, screenVars, frameVars, DoneAfterJoin
<1>4. Places'  BY <1>0 DEF Places
<1>5. Lines'  BY <1>0, <1>1 DEF Lines, Fresh, OnFork, Shared
<1>6. Flags'  BY <1>1 DEF IInv, Flags
<1> QED  BY <1>3, <1>4, <1>5, <1>6 DEF IInv

\* the fork, and the composition on the master
LEMMA KickIInv == ASSUME IInv, Kick \/ Inline PROVE IInv'
<1> USE DEF Kick, Inline, workVars, frameVars, screenVars
<1>1. TypeOK'  BY DEF IInv, TypeOK
<1>2. Places'  BY DEF IInv, Places, TypeOK
<1>3. Lines'  BY <1>2, SameWords DEF OnFork
<1>4. Flags'  BY DEF IInv, Flags
<1> QED  BY <1>1, <1>2, <1>3, <1>4 DEF IInv

LEMMA DrawSkyIInv == ASSUME IInv, DrawSky \/ InlineConfig PROVE IInv'
<1> USE DEF DrawSky, InlineConfig, workVars, frameVars, screenVars
<1>0. pub' \in [cam : Nat, scene : Int]
  <2>1. SceneOf(mem["layers"]) \in Int
    BY VersionsAssumption DEF IInv, TypeOK, SceneOf, Present!SceneOf
  <2>2. cam \in Nat  BY PlaneAssumption DEF IInv, TypeOK
  <2>3. pub' = pub \/ pub' = [cam |-> cam, scene |-> SceneOf(mem["layers"])]
    BY DEF Config
  <2> QED  BY <2>1, <2>2, <2>3 DEF IInv, TypeOK
<1>1. TypeOK'
  <2>1. CASE DrawSky  BY <1>0, <2>1 DEF IInv, TypeOK
  <2>2. CASE InlineConfig  BY <1>0, <2>2 DEF IInv, TypeOK
  <2> QED  BY <2>1, <2>2
<1>2. Places'  BY DEF IInv, Places, TypeOK
<1>3. Lines'  BY <1>2, SameWords DEF OnFork, IInv, Places
<1>4. Flags'  BY DEF IInv, Flags
<1> QED  BY <1>1, <1>2, <1>3, <1>4 DEF IInv

\* the master stores what the slave has finished with, and keeps no line of it
LEMMA LateUploadIInv == ASSUME IInv, LateUpload PROVE IInv'
<1> USE DEF LateUpload, workVars, frameVars, screenVars
<1>0. /\ slave = "idle" /\ OnFork /\ OnFork'  BY DEF IInv, Places, OnFork
<1>1. /\ cache' \in Caches
      /\ \A w \in Words : cache'["master"][w] = NoLine
      /\ cache'["slave"] = cache["slave"]
  <2>1. cache \in Caches /\ NoLines \in [Words -> Nat \cup {NoLine}]
    BY DEF IInv, TypeOK, Caches, NoLines
  <2> QED  BY <2>1 DEF Caches, NoLines
<1>2. /\ mem' \in [Words -> Nat] /\ mem'["layers"] \in Versions
      /\ mem'["dirty"] \in {0, 1} /\ mem'["pending"] \in {0, 1}
  <2>1. mem["layers"] + 1 \in Nat  BY DEF IInv, TypeOK
  <2> QED  BY <2>1 DEF IInv, TypeOK, DirtySet
<1>3. TypeOK'  BY <1>1, <1>2 DEF IInv, TypeOK, Caches
<1>4. Places'  BY DEF IInv, Places
<1>5. Lines'  BY <1>0 DEF Lines
<1>6. Flags'  BY <1>1 DEF IInv, Flags
<1> QED  BY <1>3, <1>4, <1>5, <1>6 DEF IInv

LEMMA SplashEndsIInv == ASSUME IInv, SplashEnds PROVE IInv'
<1> USE DEF SplashEnds, workVars, frameVars, screenVars
<1>1. TypeOK'  BY DEF IInv, TypeOK
<1>2. Places'  BY DEF IInv, Places, TypeOK
<1>3. Lines'  BY <1>2, SameWords DEF OnFork, IInv, Places
<1>4. Flags'  BY DEF IInv, Flags
<1> QED  BY <1>1, <1>2, <1>3, <1>4 DEF IInv

\* the blank touches nothing of the shared words; slSynch purges the slave
LEMMA VBlankIInv == ASSUME IInv, VBlank PROVE IInv'
<1> USE DEF VBlank
<1> DEFINE dma == DmaPending
           seen == Loaded(cache, "master", {"pending"})
           ends == master = "synch" /\ slave = "idle"
           kept == IF dma THEN Put(seen, "master", "pending", 0) ELSE seen
<1>1. /\ seen \in Caches
      /\ \A q \in Cpus, w \in Words :
           seen[q][w] = IF q = "master" /\ w \in {"pending"} THEN Read("master", w)
                        ELSE cache[q][w]
  BY LoadedFacts DEF IInv
<1>2. /\ kept \in Caches
      /\ \A w \in Shared : kept["master"][w] = cache["master"][w]
      /\ \A w \in Words : kept["slave"][w] = cache["slave"][w]
      /\ kept["master"]["pending"] \in {NoLine, 0, 1}
  <2> HIDE DEF seen, dma
  <2>0. seen["master"]["pending"] \in {0, 1}
    BY <1>1 DEF IInv, Flags, TypeOK, Read
  <2>1. CASE dma  BY <1>1, <2>0, <2>1 DEF Put, Caches, Shared
  <2>2. CASE ~dma  BY <1>1, <2>0, <2>2 DEF Shared
  <2> QED  BY <2>1, <2>2
<1>3. cache' = IF ends THEN [kept EXCEPT !["slave"] = NoLines] ELSE kept
  BY DEF SlaveLinesAfterSynch
<1>4. /\ mem' \in [Words -> Nat] /\ mem'["pending"] \in {0, 1}
      /\ \A w \in Shared : mem'[w] = mem[w]
  BY DEF IInv, TypeOK, Shared
<1>5. map' \in [0 .. Plane - 1 -> (Versions \cup {-1}) \X Int]  BY DEF IInv, TypeOK
<1>6. master' = IF ends THEN "objects" ELSE master  OBVIOUS
<1> HIDE DEF seen, dma, kept
<1>7. /\ cache' \in Caches
      /\ \A w \in Shared : cache'["master"][w] = cache["master"][w]
      /\ \A w \in Words : cache'["slave"][w] = IF ends THEN NoLine ELSE cache["slave"][w]
      /\ cache'["master"]["pending"] \in {NoLine, 0, 1}
  <2>1. NoLines \in [Words -> Nat \cup {NoLine}]  BY DEF NoLines
  <2> HIDE DEF ends
  <2>2. CASE ends  BY <1>2, <1>3, <2>1, <2>2 DEF Caches, NoLines, Shared
  <2>3. CASE ~ends  BY <1>2, <1>3, <2>3
  <2> QED  BY <2>2, <2>3
<1>8. TypeOK'
  BY <1>4, <1>5, <1>6, <1>7 DEF IInv, TypeOK, Caches, Shared, workVars, frameVars
<1>9. Places'  BY <1>6 DEF IInv, Places, TypeOK, workVars, frameVars
<1>10. Lines'
  BY <1>4, <1>6, <1>7 DEF IInv, Lines, Fresh, OnFork, Shared, Places, frameVars
<1>11. Flags'  BY <1>7 DEF IInv, Flags
<1> QED  BY <1>8, <1>9, <1>10, <1>11 DEF IInv

--------------------------------------------------------------------------------
\* whoever composes holds fresh lines, and the other one is not looked at
LEMMA Composer ==
  ASSUME IInv, stage # "none"
  PROVE  /\ By \in Cpus /\ Fresh(By, Shared)
         /\ By = "master" => /\ master = "inline" /\ ~OnFork /\ slave # "present"
                             /\ \A w \in Words : cache["slave"][w] = NoLine
         /\ By = "slave" => slave = "present" /\ OnFork
  BY DEF IInv, Places, Lines, By, OnFork

\* a step of the composition that leaves the composer's lines fresh
LEMMA ComposeLines ==
  ASSUME IInv, stage # "none", UNCHANGED <<master, slave, forked>>, cache' \in Caches,
         \A q \in Cpus, w \in Words : q # By => cache'[q][w] = cache[q][w],
         \A w \in Shared : cache'[By][w] \in {NoLine, mem'[w]}
  PROVE  Lines'
<1>1. CASE By = "master"
  BY <1>1, Composer DEF Lines, Fresh, OnFork, Shared
<1>2. CASE By = "slave"
  BY <1>2, Composer DEF Lines, Fresh, OnFork, Shared
<1> QED  BY <1>1, <1>2 DEF By

LEMMA StartIInv == ASSUME IInv, Start PROVE IInv'
<1> USE DEF Start, screenVars, frameVars
<1>0. /\ stage = "start" /\ stage' \in {"clear", "fill", "palette"} /\ args \in Cams
      /\ cache' = Loaded(cache, By, {"dirty"}) /\ ctx' = args /\ whole' \in BOOLEAN
  BY DEF IInv, Places
<1>1. /\ By \in Cpus /\ \A w \in Shared : cache[By][w] \in {NoLine, mem[w]}
  BY <1>0, Composer DEF Fresh
<1>2. /\ cache' \in Caches
      /\ \A q \in Cpus, w \in Words :
           cache'[q][w] = IF q = By /\ w \in {"dirty"} THEN Read(By, w) ELSE cache[q][w]
  BY <1>0, <1>1, LoadedFacts DEF IInv
<1>3. Read(By, "dirty") = mem["dirty"]  BY <1>1, ReadType DEF IInv, Shared
<1>4. left' \subseteq Int
  <2>1. Rect(args) \subseteq Int
    BY <1>0, PlaneAssumption DEF Rect, Present!Rect
  <2>2. left' = left \/ left' = Rect(args)  BY DEF workVars
  <2> QED  BY <2>1, <2>2 DEF IInv, TypeOK
<1>5. TypeOK'  BY <1>0, <1>2, <1>4 DEF IInv, TypeOK, Caches
<1>6. Places'  BY <1>0 DEF IInv, Places
<1>7. Lines'  BY <1>0, <1>1, <1>2, <1>3, ComposeLines DEF Shared
<1>8. Flags'  BY <1>2 DEF IInv, Flags
<1> QED  BY <1>5, <1>6, <1>7, <1>8 DEF IInv

\* the steps of the composition outside the caches
LEMMA QuietIInv == ASSUME IInv, Clear \/ Palette \/ Store \/ Return PROVE IInv'
<1> USE DEF Clear, Palette, Store, Return, workVars, frameVars, screenVars
<1>0. Blank \in (Versions \cup {-1}) \X Int  BY DEF Blank, Present!Blank
<1>1. TypeOK'
  <2>1. page' \in [0 .. Plane - 1 -> (Versions \cup {-1}) \X Int]
    BY <1>0 DEF IInv, TypeOK
  <2>2. mem' \in [Words -> Nat] /\ mem'["pending"] \in {0, 1}
        /\ mem'["layers"] = mem["layers"] /\ mem'["dirty"] = mem["dirty"]
    <3>1. mem' = mem \/ mem' = [mem EXCEPT !["pending"] = mirrored]  OBVIOUS
    <3>2. /\ mem \in [Words -> Nat] /\ mem["pending"] \in {0, 1} /\ mirrored \in {0, 1}
          /\ mirrored \in Nat
      BY DEF IInv, TypeOK
    <3> HIDE DEF Clear, Palette, Store, Return
    <3> QED  BY <3>1, <3>2
  <2>3. /\ ctx' \in {ctx, Present!NoCam} /\ whole' \in {whole, FALSE}
        /\ mirrored' \in {mirrored, 0} /\ left' \in {left, {}}
    OBVIOUS
  <2>4. ctx' \in Cams \cup {Present!NoCam}  BY <2>3 DEF IInv, TypeOK
  <2>5. whole' \in BOOLEAN  BY <2>3 DEF IInv, TypeOK
  <2>6. mirrored' \in {0, 1}  BY <2>3 DEF IInv, TypeOK
  <2>7. left' \subseteq Int
    <3>1. left \subseteq Int  BY DEF IInv, TypeOK
    <3> HIDE DEF Clear, Palette, Store, Return
    <3> QED  BY <2>3, <3>1
  <2>8. sky' \in BOOLEAN
    <3>1. sky' \in {sky, FALSE}  OBVIOUS
    <3> QED  BY <3>1 DEF IInv, TypeOK
  <2>9. done' \in BOOLEAN
    <3>1. done' \in {done, TRUE}  OBVIOUS
    <3> QED  BY <3>1 DEF IInv, TypeOK
  <2>10. slave' \in {"idle", "splash", "present"}  BY DEF IInv, TypeOK
  <2>11. stage' \in {"none", "fill", "mirror", "return"}  OBVIOUS
  <2> QED  BY <2>1, <2>2, <2>8, <2>10, <2>11, <2>9, <2>4, <2>5, <2>6, <2>7 DEF IInv, TypeOK
<1>2. Places'
  <2>1. CASE Clear  BY <2>1 DEF IInv, Places
  <2>2. CASE Palette  BY <2>2 DEF IInv, Places, By
  <2>3. CASE Store  BY <2>3 DEF IInv, Places
  <2>4. CASE Return  BY <2>4 DEF IInv, Places, TypeOK
  <2> QED  BY <2>1, <2>2, <2>3, <2>4
<1>3. /\ cache' = cache /\ master' = master /\ forked' = forked
      /\ slave' \in {"idle", slave} /\ \A w \in Shared : mem'[w] = mem[w]
  BY DEF IInv, TypeOK, Shared
<1>4. Lines'  BY <1>3 DEF IInv, Lines, Fresh, OnFork, Shared
<1>5. Flags'  BY DEF IInv, Flags
<1> QED  BY <1>1, <1>2, <1>4, <1>5 DEF IInv

LEMMA FillColumnIInv == ASSUME IInv, FillColumn PROVE IInv'
<1> USE DEF FillColumn, frameVars
<1> DEFINE seen == Loaded(cache, By, {"layers", "windows"})
<1>0. /\ stage = "fill" /\ ctx \in Cams /\ ctx \in Nat /\ stage' \in {"fill", "finish"}
  BY PlaneAssumption DEF IInv, Places
<1>1. /\ By \in Cpus /\ \A w \in Shared : cache[By][w] \in {NoLine, mem[w]}
  BY <1>0, Composer DEF Fresh
<1>2. /\ seen \in Caches
      /\ \A q \in Cpus, w \in Words :
           seen[q][w] = IF q = By /\ w \in {"layers", "windows"} THEN Read(By, w)
                        ELSE cache[q][w]
  BY <1>1, LoadedFacts DEF IInv
<1>3. \A w \in {"layers", "windows"} : Read(By, w) = mem[w]
  BY <1>1, ReadType DEF IInv, Shared
<1>4. cache' = Put(seen, By, "windows", ctx)  OBVIOUS
<1>5. /\ mem' \in [Words -> Nat] /\ mem'["windows"] = ctx
      /\ \A w \in {"dirty", "layers", "pending"} : mem'[w] = mem[w]
  BY <1>0 DEF IInv, TypeOK
<1> HIDE DEF seen
<1>6. /\ cache' \in Caches
      /\ \A q \in Cpus, w \in Words :
           cache'[q][w] = IF q = By /\ w = "windows" /\ seen[q][w] # NoLine
                          THEN ctx ELSE seen[q][w]
  <2>1. seen \in Caches /\ By \in Cpus /\ ctx \in Nat  BY <1>0, <1>1, <1>2
  <2>2. PICK b \in Cpus, v \in Nat : b = By /\ v = ctx  BY <2>1
  <2> HIDE DEF FillColumn
  <2>3. cache' = Put(seen, b, "windows", v)  BY <1>4, <2>2
  <2>4. /\ cache' \in Caches
        /\ \A q \in Cpus, w \in Words :
             cache'[q][w] = IF q = b /\ w = "windows" /\ seen[q][w] # NoLine
                            THEN v ELSE seen[q][w]
    <3>1. CASE b = "master"  BY <2>1, <2>3, <3>1 DEF Put, Caches
    <3>2. CASE b = "slave"  BY <2>1, <2>3, <3>2 DEF Put, Caches
    <3> QED  BY <3>1, <3>2
  <2> QED  BY <2>2, <2>4
<1>7. page' \in [0 .. Plane - 1 -> (Versions \cup {-1}) \X Int] /\ left' \subseteq Int
  <2>1. PICK k \in left : /\ page' = [page EXCEPT ![Col(k)] = <<Read(By, "layers"), k>>]
                          /\ left' = left \ {k}
    OBVIOUS
  <2>2. k \in Int /\ Read(By, "layers") \in Versions  BY <1>3 DEF IInv, TypeOK
  <2> QED  BY <2>1, <2>2 DEF IInv, TypeOK
<1>8. TypeOK'  BY <1>0, <1>5, <1>6, <1>7 DEF IInv, TypeOK, Caches
<1>9. Places'  BY <1>0 DEF IInv, Places
<1>10. \A w \in Shared : cache'[By][w] \in {NoLine, mem'[w]}
  BY <1>1, <1>2, <1>3, <1>5, <1>6 DEF Shared
<1>11. \A q \in Cpus, w \in Words : q # By => cache'[q][w] = cache[q][w]
  BY <1>2, <1>6
<1>12. Lines'  BY <1>0, <1>6, <1>10, <1>11, ComposeLines
<1>13. Flags'  BY <1>2, <1>6 DEF IInv, Flags
<1> QED  BY <1>8, <1>9, <1>12, <1>13 DEF IInv

LEMMA FinishIInv == ASSUME IInv, Finish PROVE IInv'
<1> USE DEF Finish, frameVars, workVars
<1>0. stage = "finish" /\ stage' = "palette" /\ ctx \in Cams  BY DEF IInv, Places
<1>1. /\ By \in Cpus /\ \A w \in Shared : cache[By][w] \in {NoLine, mem[w]}
  BY <1>0, Composer DEF Fresh
<1>2. PICK c1 : c1 = Put(cache, By, "dirty", 0)  OBVIOUS
<1>3. cache' = Put(c1, By, "pending", 1)  BY <1>2
<1>4. c1 \in Caches /\ \A q \in Cpus, x \in Words :
        c1[q][x] = IF q = By /\ x = "dirty" /\ cache[q][x] # NoLine THEN 0 ELSE cache[q][x]
  <2>1. cache \in Caches  BY DEF IInv, TypeOK, Caches
  <2> QED  BY <1>1, <1>2, <2>1 DEF Put, Caches
<1>5. cache' \in Caches /\ \A q \in Cpus, x \in Words :
        cache'[q][x] = IF q = By /\ x = "pending" /\ c1[q][x] # NoLine THEN 1 ELSE c1[q][x]
  BY <1>1, <1>3, <1>4 DEF Put, Caches
<1>6. /\ mem' \in [Words -> Nat] /\ mem'["dirty"] = 0 /\ mem'["pending"] = 1
      /\ \A w \in {"layers", "windows"} : mem'[w] = mem[w]
  BY DEF IInv, TypeOK
<1>7. TypeOK'  BY <1>0, <1>5, <1>6 DEF IInv, TypeOK, Caches
<1>8. Places'  BY <1>0 DEF IInv, Places
<1>9. \A w \in Shared : cache'[By][w] \in {NoLine, mem'[w]}
  BY <1>1, <1>4, <1>5, <1>6 DEF Shared
<1>10. \A q \in Cpus, w \in Words : q # By => cache'[q][w] = cache[q][w]
  BY <1>4, <1>5
<1>11. Lines'  BY <1>0, <1>5, <1>9, <1>10, ComposeLines
<1>12. Flags'  BY <1>4, <1>5 DEF IInv, Flags
<1> QED  BY <1>7, <1>8, <1>11, <1>12 DEF IInv

LEMMA MirrorIInv == ASSUME IInv, Mirror PROVE IInv'
<1> USE DEF Mirror, frameVars, screenVars
<1>0. /\ stage = "mirror" /\ stage' = "store" /\ slave = "present" /\ By = "slave"
  BY DEF IInv, Places, By
<1>1. /\ cache' \in Caches
      /\ \A q \in Cpus, w \in Words :
           cache'[q][w] = IF q = "slave" /\ w \in {"pending"} THEN Read("slave", w)
                          ELSE cache[q][w]
  BY LoadedFacts DEF IInv
<1>2. mirrored' \in {0, 1}
  BY DEF IInv, Flags, TypeOK, Read
<1>3. TypeOK'  BY <1>0, <1>1, <1>2 DEF IInv, TypeOK, Caches
<1>4. Places'  BY <1>0 DEF IInv, Places
<1>5. \A w \in Shared : cache'["slave"][w] \in {NoLine, mem'[w]}
  BY <1>0, <1>1 DEF IInv, Lines, Fresh, Shared
<1>6. Lines'  BY <1>0, <1>1, <1>5, ComposeLines
<1>7. Flags'  BY <1>1, <1>2 DEF IInv, Flags
<1> QED  BY <1>3, <1>4, <1>6, <1>7 DEF IInv

LEMMA StepIInv == IInv /\ [Next]_vars => IInv'
<1> SUFFICES ASSUME IInv, [Next]_vars PROVE IInv'  OBVIOUS
<1>1. CASE Master
  BY <1>1, ObjectsIInv, LoadIInv, LoadSceneIInv, JoinIInv, KickIInv, DrawSkyIInv
     DEF Master
<1>1a. CASE LateUpload  BY <1>1a, LateUploadIInv
<1>2. CASE Compute
  BY <1>2, StartIInv, QuietIInv, FillColumnIInv, FinishIInv, MirrorIInv DEF Compute
<1>3. CASE SplashEnds  BY <1>3, SplashEndsIInv
<1>4. CASE VBlank  BY <1>4, VBlankIInv
<1>5. CASE \E p \in Cpus, w \in Words : Evict(p, w)  BY <1>5, EvictIInv
<1>6. CASE UNCHANGED vars
  <2> USE <1>6 DEF vars, workVars, frameVars, screenVars
  <2>1. TypeOK'  BY DEF IInv, TypeOK
  <2>2. Places'  BY DEF IInv, Places
  <2>3. Lines'  BY DEF IInv, Lines, OnFork, Fresh, Shared
  <2>4. Flags'  BY DEF IInv, Flags
  <2> QED  BY <2>1, <2>2, <2>3, <2>4 DEF IInv
<1> QED  BY <1>1, <1>1a, <1>2, <1>3, <1>4, <1>5, <1>6 DEF Next

(* The strengthened invariant of the two processors: p6_present_kick, the      *)
(* join and slSynch order every access of the one before those of the other.  *)
THEOREM Inductive == Spec => []IInv
<1>1. Spec => Init /\ [][Next]_vars  BY DEF Spec
<1> QED  BY <1>1, InitIInv, StepIInv, PTL

(* Every variable of the frame keeps its type, whatever the plane's size.     *)
THEOREM TypeCorrect == Spec => []TypeOK
<1>1. IInv => TypeOK  BY DEF IInv
<1> QED  BY <1>1, Inductive, PTL

(* The windows, the scratch and the layers have one user at a time, and that   *)
(* one reads what the other stored last: jo_core_wait_for_slave's purge and    *)
(* the one of slSynch suffice, for any number of cameras and versions.        *)
THEOREM OneUser == Spec => []OneUserAndFresh
<1>1. IInv => OneUserAndFresh
  <2> SUFFICES ASSUME IInv PROVE OneUserAndFresh  OBVIOUS
  <2>1. ASSUME master \in {"boot", "objects", "load", "kick"}
        PROVE  stage = "none" /\ Fresh("master", {"dirty", "layers", "windows"})
    BY <2>1 DEF IInv, Places, Lines, Shared, OnFork
  <2>2. ASSUME Composing PROVE Fresh(By, {"dirty", "layers", "windows"})
    BY <2>2, Composer DEF Composing, Shared
  <2> QED  BY <2>1, <2>2 DEF OneUserAndFresh
<1> QED  BY <1>1, Inductive, PTL

--------------------------------------------------------------------------------
(* The sky.  A scene's number passes the one published when it is loaded, and  *)
(* the next present publishes it.                                            *)
LEMMA SceneMonotone ==
  ASSUME NEW a \in Nat, NEW b \in Nat, a <= b
  PROVE  /\ SceneOf(a) \in Nat /\ SceneOf(b) \in Nat /\ SceneOf(a) <= SceneOf(b)
         /\ a < b /\ b % SceneSize = 0 => SceneOf(a) < SceneOf(b)
<1>1. PICK S \in Nat \ {0} : S = SceneSize  BY VersionsAssumption
<1>2. PICK q \in Nat : q = a \div S  BY <1>1
<1>3. PICK r \in Nat : r = b \div S  BY <1>1
<1>4. a = S * q + (a % S) /\ b = S * r + (b % S) /\ a % S \in 0 .. S - 1 /\ b % S \in 0 .. S - 1
  BY <1>1, <1>2, <1>3
<1>5. ~(q > r)
  <2> SUFFICES ASSUME q > r PROVE FALSE  OBVIOUS
  <2>1. S * (q - r) >= S  BY <1>1
  <2>2. S * (q - r) = S * q - S * r  BY <1>1
  <2> QED  BY <1>4, <2>1, <2>2
<1>6. ~(q = r /\ a < b /\ b % S = 0)  BY <1>4
<1>7. SceneOf(a) = q /\ SceneOf(b) = r
  BY <1>1, <1>2, <1>3 DEF SceneOf, Present!SceneOf
<1>8. q <= r /\ (a < b /\ b % S = 0 => q < r)  BY <1>5, <1>6
<1> QED  BY <1>1, <1>7, <1>8

Coloured == pub.scene <= SceneOf(mem["layers"]) /\ SkyKept

LEMMA ScenesTyped ==
  ASSUME IInv
  PROVE  mem["layers"] \in Nat /\ SceneOf(mem["layers"]) \in Nat /\ pub.scene \in Int
<1>1. mem["layers"] \in Nat  BY VersionsAssumption DEF IInv, TypeOK
<1>2. SceneOf(mem["layers"]) \in Nat  BY <1>1, SceneMonotone
<1> QED  BY <1>1, <1>2 DEF IInv, TypeOK

\* a step that leaves the scene, what is published of it and the sky alone
LEMMA SkyAlone ==
  ASSUME Coloured, pub' = pub, SceneOf(mem["layers"])' = SceneOf(mem["layers"]),
         sky' = sky \/ Presenting', ~Presenting' => ~Presenting
  PROVE  Coloured'
  BY DEF Coloured, SkyKept

LEMMA MasterColoured == ASSUME IInv, Coloured, Master \/ LateUpload PROVE Coloured'
<1> USE DEF frameVars, screenVars
<1>0. mem["layers"] \in Nat /\ SceneOf(mem["layers"]) \in Nat /\ pub.scene \in Int
  BY ScenesTyped
<1>1. CASE Objects
  <2>1. SceneOf(mem["layers"])' = SceneOf(mem["layers"])
    <3>1. mem'["layers"] = mem["layers"] \/ /\ mem'["layers"] = mem["layers"] + 1
                                            /\ SceneOf(mem["layers"] + 1) = SceneOf(mem["layers"])
      BY <1>1 DEF Objects, IInv, TypeOK
    <3> QED  BY <3>1
  <2>2. pub' = pub /\ sky' = sky /\ ~Presenting  BY <1>1 DEF Objects, Presenting
  <2> QED  BY <2>1, <2>2, SkyAlone
<1>2. CASE Boot \/ LoadEnter \/ Unload
  <2>1. pub' = pub /\ sky' = sky /\ mem' = mem /\ ~Presenting
    BY <1>2 DEF Boot, LoadEnter, Unload, Presenting
  <2> QED  BY <2>1, SkyAlone
<1>3. CASE LoadScene
  <2>1. PICK n \in Versions : /\ n > mem["layers"] /\ n % SceneSize = 0
                              /\ mem'["layers"] = n
    BY <1>3 DEF LoadScene, IInv, TypeOK
  <2>2. n \in Nat  BY VersionsAssumption
  <2>3. SceneOf(n) \in Nat /\ SceneOf(mem["layers"]) < SceneOf(n)
    BY <1>0, <2>1, <2>2, SceneMonotone
  <2>4. pub' = pub  BY <1>3 DEF LoadScene
  <2>5. pub.scene < SceneOf(n)  BY <1>0, <2>3 DEF Coloured
  <2>6. pub'.scene < SceneOf(mem["layers"])'  BY <2>1, <2>4, <2>5
  <2>7. SceneOf(mem["layers"])' \in Nat /\ pub'.scene \in Int  BY <1>0, <2>1, <2>3, <2>4
  <2> QED  BY <2>6, <2>7 DEF Coloured, SkyKept
<1>4. CASE Kick \/ Inline
  <2>1. pub' = pub /\ mem' = mem /\ Presenting'  BY <1>4 DEF Kick, Inline, Presenting
  <2> QED  BY <2>1, SkyAlone
<1>5. CASE DrawSky
  <2>1. pub' = pub /\ mem' = mem /\ sky'  BY <1>5 DEF DrawSky
  <2> QED  BY <2>1 DEF Coloured, SkyKept
<1>6. CASE Join \/ InlineConfig
  <2>1. pub' = [cam |-> cam, scene |-> SceneOf(mem["layers"])] /\ mem' = mem
    BY <1>6 DEF Join, InlineConfig, Config
  <2>2. sky' \/ Presenting'  BY <1>6 DEF Join, InlineConfig, Presenting
  <2> QED  BY <1>0, <2>1, <2>2 DEF Coloured, SkyKept
<1>7. CASE LateUpload
  <2>1. pub' = pub /\ Presenting'  BY <1>7 DEF LateUpload, Presenting
  <2>2. SceneOf(mem["layers"])' = SceneOf(mem["layers"])
    <3>1. /\ mem'["layers"] = mem["layers"] + 1
          /\ SceneOf(mem["layers"] + 1) = SceneOf(mem["layers"])
      BY <1>7 DEF LateUpload, IInv, TypeOK
    <3> QED  BY <3>1
  <2> QED  BY <2>1, <2>2, SkyAlone
<1> QED  BY <1>1, <1>2, <1>3, <1>4, <1>5, <1>6, <1>7 DEF Master

\* what is composed writes the sky's banks only while a present is under way
LEMMA ComputeColoured == ASSUME IInv, Coloured, Compute PROVE Coloured'
<1> USE DEF frameVars, screenVars, workVars
<1>1. stage # "none" /\ master' = master
  BY DEF Compute, Start, Clear, FillColumn, Finish, Palette, Mirror, Store, Return
<1>2. Presenting /\ Presenting'  BY <1>1 DEF IInv, Places, TypeOK, Presenting
<1>3. pub' = pub
  BY DEF Compute, Start, Clear, FillColumn, Finish, Palette, Mirror, Store, Return
<1>4. mem'["layers"] = mem["layers"]
  BY DEF Compute, Start, Clear, FillColumn, Finish, Palette, Mirror, Store, Return, IInv, TypeOK
<1> QED  BY <1>2, <1>3, <1>4, SkyAlone

LEMMA StepColoured == IInv /\ Coloured /\ [Next]_vars => Coloured'
<1> SUFFICES ASSUME IInv, Coloured, [Next]_vars PROVE Coloured'  OBVIOUS
<1>1. CASE Master \/ LateUpload  BY <1>1, MasterColoured
<1>2. CASE Compute  BY <1>2, ComputeColoured
<1>3. CASE SplashEnds \/ (\E p \in Cpus, w \in Words : Evict(p, w)) \/ UNCHANGED vars
  <2>1. pub' = pub /\ sky' = sky /\ mem' = mem /\ master' = master
    BY <1>3 DEF SplashEnds, Evict, vars, frameVars, screenVars
  <2> QED  BY <2>1, SkyAlone DEF Presenting
<1>4. CASE VBlank
  <2>1. pub' = pub /\ sky' = sky /\ mem'["layers"] = mem["layers"]
    BY <1>4 DEF VBlank, IInv, TypeOK
  <2>2. master' = master \/ master = "synch"  BY <1>4 DEF VBlank
  <2> QED  BY <2>1, <2>2, SkyAlone DEF Presenting
<1> QED  BY <1>1, <1>2, <1>3, <1>4 DEF Next

(* Wherever the palette upload of the foreground comes in the frame, it never   *)
(* leaves its colours in the sky's banks once the frame has ended: the slave    *)
(* has returned when the master joins, and composes nothing before the next    *)
(* fork.                                                                     *)
THEOREM SkyStays == Spec => []SkyKept
<1>1. Spec => Init /\ [][Next]_vars  BY DEF Spec
<1>2. Init => Coloured
  <2> SUFFICES ASSUME Init PROVE Coloured  OBVIOUS
  <2>1. SceneOf(mem["layers"]) \in Nat /\ pub.scene = -1
    BY ScenesTyped, InitIInv DEF Init, Present!NoView
  <2> QED  BY <2>1 DEF Coloured, SkyKept
<1>3. Coloured => SkyKept  BY DEF Coloured
<1> QED  BY <1>1, <1>2, <1>3, StepColoured, Inductive, PTL
================================================================================
