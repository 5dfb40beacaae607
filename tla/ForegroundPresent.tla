--------------------------- MODULE ForegroundPresent ---------------------------
(***************************************************************************)
(* What a present of the foreground promises, whoever computes it: after    *)
(* the objects of a frame have moved, the plane is composed for the camera  *)
(* in one piece, the scroll position of the same camera is published, and   *)
(* the frame ends with both on the screen.  A vertical blank before the end *)
(* of the frame may show the plane already, a plane half composed never.    *)
(* The camera-anchored rectangle is a row of columns here, and the plane     *)
(* wraps around as the one of 64 tiles does.  PresentFork implements it.     *)
(***************************************************************************)
EXTENDS Integers

CONSTANTS
  Cams,       \* the camera's tile columns
  View,       \* columns of the screen
  Plane,      \* columns of the plane
  Versions,   \* versions of the layers: their tiles and the tiles' format
  SceneSize   \* of which each scene has this many

VARIABLES
  phase,      \* of the frame: objects, compute, config, synch
  layers,     \* the version of the layers
  cam,        \* the camera
  dirty,      \* the plane has to be composed from nothing
  last,       \* the camera it was composed for
  page,       \* the plane
  map,        \* the plane the screen is drawn from
  pub,        \* the published view: camera and scene
  view        \* the view the screen is scrolled to

pvars == <<phase, layers, cam, dirty, last, page, map, pub, view>>

Blank == <<-1, 0>>
NoCam == -1
SceneOf(l) == l \div SceneSize
NoView == [cam |-> 0, scene |-> -1]

Col(c) == c % Plane
\* the screen ends within a column
Visible(v) == v.cam .. v.cam + View
\* the columns composed for a camera: a margin of one on either side
Rect(x) == x - 1 .. x + View + 1
Composed(p, l, x, whole) ==
  [k \in 0 .. Plane - 1 |->
     IF \E c \in Rect(x) : Col(c) = k
     THEN <<l, CHOOSE c \in Rect(x) : Col(c) = k>>
     ELSE IF whole THEN Blank ELSE p[k]]

Init ==
  /\ phase = "objects" /\ layers = 0 /\ cam \in Cams
  /\ dirty = 1 /\ last = NoCam
  /\ page = [k \in 0 .. Plane - 1 |-> Blank] /\ map = page
  /\ pub = NoView /\ view = NoView

Near(x, y) == y \in {x - 1, x, x + 1}

\* collisions may have removed a tile, and the camera has moved; before the first
\* composition a frame may present nothing
Objects ==
  /\ phase = "objects"
  /\ cam' \in {x \in Cams : Near(cam, x)}
  /\ \/ layers' = layers /\ dirty' = dirty
     \/ layers' = layers + 1 /\ layers' \in Versions /\ dirty' = 1
        /\ SceneOf(layers') = SceneOf(layers)
  /\ phase' = "compute" \/ (last = NoCam /\ phase' = "synch")
  /\ UNCHANGED <<last, page, map, pub, view>>

Load ==
  /\ phase = "objects"
  /\ layers' \in Versions /\ layers' > layers /\ layers' % SceneSize = 0
  /\ cam' \in Cams /\ dirty' = 1 /\ phase' = "synch"
  /\ UNCHANGED <<last, page, map, pub, view>>

Compute ==
  /\ phase = "compute" /\ phase' = "config"
  /\ page' = IF dirty = 1 \/ cam # last
             THEN Composed(page, layers, cam, dirty = 1) ELSE page
  /\ last' = IF dirty = 1 THEN cam ELSE IF cam # last THEN cam ELSE last
  /\ dirty' = 0
  /\ UNCHANGED <<layers, cam, map, pub, view>>

\* the tiles' format is changed after they were composed in the old one
Restyle ==
  /\ phase = "config"
  /\ layers' = layers + 1 /\ layers' \in Versions /\ SceneOf(layers') = SceneOf(layers)
  /\ dirty' = 1
  /\ UNCHANGED <<phase, cam, last, page, map, pub, view>>

Config ==
  /\ phase = "config" /\ phase' = "synch"
  /\ pub' = [cam |-> cam, scene |-> SceneOf(layers)]
  /\ UNCHANGED <<layers, cam, dirty, last, page, map, view>>

VBlank ==
  /\ view' = pub
  /\ \/ map' \in {map, page} /\ UNCHANGED phase
     \/ phase = "synch" /\ map' = page /\ phase' = "objects"
  /\ UNCHANGED <<layers, cam, dirty, last, page, pub>>

Next == Objects \/ Load \/ Compute \/ Restyle \/ Config \/ VBlank
Spec == Init /\ [][Next]_pvars
================================================================================
