--------------------------- MODULE EntityPool_proofs ---------------------------
(***************************************************************************)
(* Theorems about EntityPool for any number of slots, scenes, cameras and    *)
(* widths.  That the pool is partitioned and the dead stay dead holds for    *)
(* any acts; that what is near is in the pool, and that nothing in range     *)
(* vanishes, holds in the act whose records the store has.                   *)
(***************************************************************************)
EXTENDS EntityPool, FiniteSetTheorems, TLAPS

USE SizesAssumption, SceneAssumption

-------------------------------------------------------------------------------
(* The invariant for any acts.                                               *)

\* No frame runs before an index is settled.
Stage ==
    /\ phase # "load" => fresh \/ built = 2
    /\ phase \in {"drop", "fill", "run"} => ~fresh

\* Whatever is resident, near or pinned is in the index, and what is not in
\* the index did not survive its Create.
Indexed ==
    phase # "load" =>
        /\ resid \cup near \cup always \subseteq DOMAIN index
        /\ Slots \ DOMAIN index \subseteq killed

\* What the fill has to bring in and the loop to visit.
Pending ==
    /\ phase \in {"load", "idle", "drop"} => todo = {}
    /\ phase = "fill" => \A L \in todo : L \in near /\ L \notin resid /\ L \notin life
    /\ phase = "run" => \A L \in todo : Alive(L)

\* The stream knows of every entity that is gone, or is about to see it.
KilledKnown ==
    phase # "load" =>
        \A L \in killed : L \in resid \/ L \in life \/ L \notin DOMAIN index

IInv == TypeOK /\ PoolPartition /\ DeadStayDead /\ Stage /\ Indexed /\ Pending /\ KilledKnown

-------------------------------------------------------------------------------
(* Slots, ranks and blanks.                                                  *)

LEMMA SlotFacts == Pool \subseteq Slots /\ Dummy \in Slots /\ Dummy \notin Pool
  BY DEF Pool, Slots, Dummy

LEMMA BlankFacts ==
  /\ Blank.of = None
  /\ \A e \in Live \cup {Blank} : e.of = None <=> e = Blank
  /\ \A e \in Live : e.of \in Items /\ e.x \in Int /\ e.loose \in BOOLEAN
  /\ Blank \notin Live
  BY DEF Blank, Live

LEMMA BornFacts ==
  ASSUME NEW i \in Items
  PROVE  Born(i) \in Live /\ Born(i).of = i /\ Born(i).x = SpawnX[i]
         /\ (Born(i).loose <=> i \in Managers)
<1>1. SpawnX[i] \in Int /\ (i \in Managers) \in BOOLEAN  OBVIOUS
<1>2. Born(i) \in Live  BY <1>1 DEF Born, Live
<1> QED  BY <1>2 DEF Born

\* The residents are packed in their order, into the pool.
LEMMA RankFacts ==
  ASSUME NEW R, R \subseteq Slots, Cardinality(R) < SP
  PROVE  /\ \A L \in R : Rank(L, R) \in Pool
         /\ \A L, M \in R : Rank(L, R) = Rank(M, R) => L = M
<1> DEFINE B(L) == {M \in R : M < L}
<1>0. Slots \subseteq Nat /\ IsFiniteSet(Slots)
  <2>1. 0 \in Int /\ SCN - 1 \in Int  OBVIOUS
  <2>2. IsFiniteSet(0 .. SCN - 1)  BY <2>1, FS_Interval
  <2> QED  BY <2>2 DEF Slots
<1>1. IsFiniteSet(R) /\ Cardinality(R) \in Nat
  BY <1>0, FS_Subset, FS_CardinalityType
<1>2. ASSUME NEW L \in R PROVE IsFiniteSet(B(L)) /\ Cardinality(B(L)) \in Nat
  BY <1>1, FS_Subset, FS_CardinalityType
<1>3. ASSUME NEW L \in R PROVE Rank(L, R) \in Pool
  <2>1. L \in Nat /\ B(L) \subseteq R \ {L}  BY DEF Slots
  <2>2. IsFiniteSet(R \ {L}) /\ Cardinality(R \ {L}) = Cardinality(R) - 1
    BY <1>1, FS_RemoveElement
  <2>3. Cardinality(B(L)) <= Cardinality(R) - 1  BY <2>1, <2>2, FS_Subset
  <2> QED  BY <1>1, <1>2, <2>3 DEF Rank, Pool
<1>4. ASSUME NEW L \in R, NEW M \in R, L < M PROVE Rank(L, R) < Rank(M, R)
  <2>0. L \in Nat /\ M \in Nat /\ \A K \in R : K \in Nat  BY <1>0
  <2>1. L \in B(M)  BY <1>4
  <2>5. ASSUME NEW K \in B(L) PROVE K \in B(M) \ {L}
    <3>1. K \in R /\ K < L /\ K \in Nat  BY <2>0
    <3> QED  BY <1>4, <2>0, <3>1
  <2>6. B(L) \subseteq B(M) \ {L}  BY <2>5
  <2>2. IsFiniteSet(B(M) \ {L}) /\ Cardinality(B(M) \ {L}) = Cardinality(B(M)) - 1
    BY <1>2, <2>1, FS_RemoveElement
  <2>3. Cardinality(B(L)) <= Cardinality(B(M)) - 1  BY <2>6, <2>2, FS_Subset
  <2>7. Cardinality(B(L)) \in Nat /\ Cardinality(B(M)) \in Nat  BY <1>2
  <2>4. Cardinality(B(L)) < Cardinality(B(M))
    <3> HIDE DEF B
    <3> QED  BY <2>3, <2>7
  <2> QED  BY <2>4 DEF Rank
<1>5. ASSUME NEW L \in R, NEW M \in R, Rank(L, R) = Rank(M, R) PROVE L = M
  <2>1. L \in Nat /\ M \in Nat  BY DEF Slots
  <2>2. Rank(L, R) \in Nat /\ Rank(M, R) \in Nat  BY <1>2 DEF Rank
  <2> QED  BY <1>4, <1>5, <2>1, <2>2
<1> QED  BY <1>3, <1>5

\* What a load leaves in the pool.
LEMMA CompactedFacts ==
  ASSUME NEW a \in Acts, NEW R, R \subseteq Placed(a), Cardinality(R) < SP
  PROVE  /\ Compacted(a, R) \in [Slots -> Live \cup {Blank}]
         /\ \A L \in R : Scene[a][L] \in Items /\ Compacted(a, R)[Rank(L, R)] = Born(Scene[a][L])
         /\ \A p \in Slots : (\A L \in R : Rank(L, R) # p) => Compacted(a, R)[p] = Blank
<1>1. R \subseteq Slots /\ \A L \in R : Scene[a][L] \in Items  BY DEF Placed
<1>2. ASSUME NEW L \in R
      PROVE  Compacted(a, R)[Rank(L, R)] = Born(Scene[a][L])
  <2>1. Rank(L, R) \in Slots  BY <1>1, RankFacts, SlotFacts
  <2>2. (CHOOSE M \in R : Rank(M, R) = Rank(L, R)) = L  BY <1>1, RankFacts
  <2> QED  BY <2>1, <2>2 DEF Compacted
<1>3. ASSUME NEW p \in Slots, \A L \in R : Rank(L, R) # p
      PROVE  Compacted(a, R)[p] = Blank
  BY <1>3 DEF Compacted
<1>4. ASSUME NEW p \in Slots PROVE Compacted(a, R)[p] \in Live \cup {Blank}
  BY <1>1, <1>2, <1>3, BornFacts
<1>5. Compacted(a, R) = [p \in Slots |-> Compacted(a, R)[p]]  BY DEF Compacted
<1> QED  BY <1>1, <1>2, <1>3, <1>4, <1>5

\* What is near at a load is what SpawnFits counts.
LEMMA LoadFacts ==
  ASSUME NEW a \in Acts, NEW born \in SUBSET Placed(a), NEW c \in Spawns
  PROVE  LET R == NearSet(IndexAtLoad(a, born), AlwaysAtLoad(a, born), c)
         IN  R = SpawnNear(a, born, c) /\ R \subseteq born /\ Cardinality(R) < SP
<1>1. NearSet(IndexAtLoad(a, born), AlwaysAtLoad(a, born), c) = SpawnNear(a, born, c)
  BY DEF NearSet, IndexAtLoad, AlwaysAtLoad, SpawnNear
<1> QED  BY <1>1, SpawnFits DEF SpawnNear

\* A slot that is not resident reads as empty.
LEMMA OutIsEmpty ==
  ASSUME PoolPartition, phase # "load", NEW L \in Slots, L \notin resid
  PROVE  ~Alive(L)
  BY BlankFacts DEF PoolPartition, Alive, At

\* A dead resident's physical slot is blank.
LEMMA DeadIsBlank ==
  ASSUME TypeOK, NEW L \in Slots, ~Alive(L)
  PROVE  At(L) = Blank
  BY BlankFacts DEF TypeOK, Alive, At

LEMMA AtType ==
  ASSUME TypeOK, NEW L \in Slots
  PROVE  /\ remap[L] \in Slots /\ At(L) \in Live \cup {Blank}
         /\ Alive(L) <=> At(L) \in Live
  BY BlankFacts DEF TypeOK, Alive, At

\* Writing a resident's slot touches nobody else.
LEMMA WriteFacts ==
  ASSUME TypeOK, PoolPartition, phase # "load", NEW L \in resid, NEW e \in Live \cup {Blank},
         mem' = [mem EXCEPT ![remap[L]] = e], UNCHANGED <<remap, free, resid, phase>>
  PROVE  /\ PoolPartition'
         /\ mem' \in [Slots -> Live \cup {Blank}]
         /\ At(L)' = e
         /\ \A M \in Slots : M # L => At(M)' = At(M)
<1>1. L \in Slots /\ remap[L] \in Pool /\ remap[L] \in Slots
  BY SlotFacts DEF TypeOK, PoolPartition
<1>2. mem \in [Slots -> Live \cup {Blank}]  BY DEF TypeOK
<1>3. At(L)' = e  BY <1>1, <1>2 DEF At
<1>4. ASSUME NEW M \in Slots, M # L PROVE At(M)' = At(M)
  <2>1. remap[M] # remap[L]
    BY <1>1, <1>4, SlotFacts DEF PoolPartition
  <2> QED  BY <2>1, <1>2 DEF At, TypeOK
<1>5. \A p \in free \cup {Dummy} : p # remap[L]
  BY <1>1, SlotFacts DEF PoolPartition
<1>6. \A p \in free \cup {Dummy} : mem'[p] = Blank
  BY <1>2, <1>5, SlotFacts DEF PoolPartition
<1>7. PoolPartition'  BY <1>6 DEF PoolPartition
<1>8. mem' \in [Slots -> Live \cup {Blank}]  BY <1>2
<1> QED  BY <1>3, <1>4, <1>7, <1>8

-------------------------------------------------------------------------------
(* The steps.                                                                *)

LEMMA InitIInv == Init => IInv
<1> SUFFICES ASSUME Init PROVE IInv  OBVIOUS
<1> USE DEF Init
<1>1. TypeOK
  <2>1. remap \in [Slots -> Slots] /\ mem \in [Slots -> Live \cup {Blank}]  OBVIOUS
  <2>2. DOMAIN index = {} /\ index \in [DOMAIN index -> Int]  OBVIOUS
  <2>3. cam \in Int  OBVIOUS
  <2>4. act \in Acts /\ built \in 0 .. 2  OBVIOUS
  <2>7. fresh \in BOOLEAN  OBVIOUS
  <2>5. /\ free \subseteq Pool /\ resid \subseteq Slots /\ life \subseteq Slots
        /\ always \subseteq Slots /\ near \subseteq Slots /\ todo \subseteq Slots
        /\ killed \subseteq Slots /\ late \subseteq Slots
    OBVIOUS
  <2>6. phase \in {"load", "idle", "drop", "fill", "run"}  OBVIOUS
  <2> HIDE DEF Init
  <2> QED  BY <2>1, <2>2, <2>3, <2>4, <2>5, <2>6, <2>7 DEF TypeOK
<1>2. PoolPartition /\ DeadStayDead  BY DEF PoolPartition, DeadStayDead
<1>3. Stage /\ Indexed /\ Pending /\ KilledKnown
  BY DEF Stage, Indexed, Pending, KilledKnown
<1> QED  BY <1>1, <1>2, <1>3 DEF IInv

\* A load leaves R, what is near of what was born, packed at the front.
LEMMA LoadEffect ==
  ASSUME NEW a \in Acts, NEW c \in Spawns, NEW born \in SUBSET Placed(a),
         LoadScene(a, born, c)
  PROVE  \E R \in SUBSET born :
           /\ born \subseteq Slots /\ R \subseteq Placed(a) /\ Cardinality(R) < SP
           /\ act' = a /\ index' = IndexAtLoad(a, born) /\ always' = AlwaysAtLoad(a, born)
           /\ near' = R /\ cam' = c /\ resid' = R /\ life' = {}
           /\ remap' = [L \in Slots |-> IF L \in R THEN Rank(L, R) ELSE Dummy]
           /\ mem' = Compacted(a, R) /\ free' = Pool \ {Rank(L, R) : L \in R}
           /\ phase' = "idle" /\ todo' = {} /\ fresh' = TRUE /\ built' = built
           /\ killed' = Slots \ born /\ late' = {}
           /\ \A L \in R : At(L)' = Born(Scene[a][L])
<1>1. PICK R : R = NearSet(IndexAtLoad(a, born), AlwaysAtLoad(a, born), c)  OBVIOUS
<1>2. /\ R = SpawnNear(a, born, c) /\ R \subseteq born /\ Cardinality(R) < SP
      /\ born \subseteq Slots /\ R \subseteq Slots /\ R \subseteq Placed(a)
  BY <1>1, LoadFacts DEF Placed
<1>3. /\ act' = a /\ index' = IndexAtLoad(a, born) /\ always' = AlwaysAtLoad(a, born)
      /\ near' = R /\ cam' = c /\ resid' = R /\ life' = {}
      /\ remap' = [L \in Slots |-> IF L \in R THEN Rank(L, R) ELSE Dummy]
      /\ mem' = Compacted(a, R) /\ free' = Pool \ {Rank(L, R) : L \in R}
      /\ phase' = "idle" /\ todo' = {} /\ fresh' = TRUE /\ built' = built
      /\ killed' = Slots \ born /\ late' = {}
  BY <1>1 DEF LoadScene, LifeAfterLoad
<1>4. ASSUME NEW L \in R PROVE At(L)' = Born(Scene[a][L])
  <2>1. remap'[L] = Rank(L, R) /\ mem'[Rank(L, R)] = Born(Scene[a][L])
    BY <1>2, <1>3, CompactedFacts
  <2> QED  BY <2>1 DEF At
<1> QED  BY <1>2, <1>3, <1>4

LEMMA LoadIInv ==
  ASSUME IInv, NEW a \in Acts, NEW c \in Spawns, NEW born \in SUBSET Placed(a),
         LoadScene(a, born, c)
  PROVE  IInv'
<1>1. PICK R \in SUBSET born :
        /\ born \subseteq Slots /\ R \subseteq Placed(a) /\ Cardinality(R) < SP
        /\ act' = a /\ index' = IndexAtLoad(a, born) /\ always' = AlwaysAtLoad(a, born)
        /\ near' = R /\ cam' = c /\ resid' = R /\ life' = {}
        /\ remap' = [L \in Slots |-> IF L \in R THEN Rank(L, R) ELSE Dummy]
        /\ mem' = Compacted(a, R) /\ free' = Pool \ {Rank(L, R) : L \in R}
        /\ phase' = "idle" /\ todo' = {} /\ fresh' = TRUE /\ built' = built
        /\ killed' = Slots \ born /\ late' = {}
        /\ \A L \in R : At(L)' = Born(Scene[a][L])
  BY LoadEffect
<1>2. /\ R \subseteq born /\ Cardinality(R) < SP
      /\ born \subseteq Slots /\ R \subseteq Slots /\ R \subseteq Placed(a)
  BY <1>1
<1>3. /\ act' = a /\ index' = IndexAtLoad(a, born) /\ always' = AlwaysAtLoad(a, born)
      /\ near' = R /\ cam' = c /\ resid' = R /\ life' = {}
      /\ remap' = [L \in Slots |-> IF L \in R THEN Rank(L, R) ELSE Dummy]
      /\ mem' = Compacted(a, R) /\ free' = Pool \ {Rank(L, R) : L \in R}
      /\ phase' = "idle" /\ todo' = {} /\ fresh' = TRUE /\ built' = built
      /\ killed' = Slots \ born /\ late' = {}
  BY <1>1
<1>4. /\ \A L \in R : Rank(L, R) \in Pool
      /\ \A L, M \in R : Rank(L, R) = Rank(M, R) => L = M
  BY <1>2, RankFacts
<1>5. /\ mem' \in [Slots -> Live \cup {Blank}]
      /\ \A p \in Slots : (\A L \in R : Rank(L, R) # p) => mem'[p] = Blank
  BY <1>2, <1>3, CompactedFacts
<1>6. /\ DOMAIN index' = born /\ index' \in [born -> Int] /\ always' \subseteq born
  <2>1. ASSUME NEW L \in born PROVE SpawnX[Scene[a][L]] \in Int
    BY DEF Placed
  <2> QED  BY <1>3, <2>1 DEF IndexAtLoad, AlwaysAtLoad
<1>7. PoolPartition'
  <2>1. \A L \in resid' : remap'[L] \in Pool  BY <1>2, <1>3, <1>4
  <2>2. \A L \in Slots \ resid' : remap'[L] = Dummy  BY <1>3
  <2>3. \A L, M \in resid' : remap'[L] = remap'[M] => L = M  BY <1>2, <1>3, <1>4
  <2>4. free' = Pool \ {remap'[L] : L \in resid'}  BY <1>2, <1>3
  <2>5. \A p \in free' \cup {Dummy} : mem'[p] = Blank
    <3>1. \A p \in free' \cup {Dummy} : p \in Slots /\ \A L \in R : Rank(L, R) # p
      BY <1>3, <1>4, SlotFacts
    <3> QED  BY <3>1, <1>5
  <2> QED  BY <2>1, <2>2, <2>3, <2>4, <2>5 DEF PoolPartition
<1>8. TypeOK'
  <2>1. remap' \in [Slots -> Slots]  BY <1>3, <1>4, SlotFacts
  <2>2. free' \subseteq Pool  BY <1>3
  <2>3. cam' \in Int  BY <1>3
  <2>4. built' \in 0 .. 2  BY <1>3 DEF IInv, TypeOK
  <2> QED  BY <1>2, <1>3, <1>5, <1>6, <2>1, <2>2, <2>3, <2>4 DEF TypeOK
<1>9. DeadStayDead'
  <2>1. ASSUME NEW L \in killed' PROVE ~Alive(L)'
    <3>1. L \in Slots /\ L \notin R  BY <1>2, <1>3
    <3>2. remap'[L] = Dummy /\ mem'[Dummy] = Blank  BY <3>1, <1>3, <1>7 DEF PoolPartition
    <3> QED  BY <3>2, BlankFacts DEF Alive, At
  <2> QED  BY <2>1 DEF DeadStayDead
<1>10. Stage' /\ Indexed' /\ Pending' /\ KilledKnown'
  BY <1>2, <1>3, <1>6 DEF Stage, Indexed, Pending, KilledKnown
<1> QED  BY <1>7, <1>8, <1>9, <1>10 DEF IInv

\* After a load a frame never builds an index of its own.
LEMMA FrameIndexFacts ==
  ASSUME IInv, FrameIndex
  PROVE  /\ UNCHANGED <<act, pool, scan, phase, todo, killed, late>>
         /\ phase = "idle" /\ fresh /\ built' = 2 /\ fresh' = FALSE
  BY DEF IInv, Stage, FrameIndex, RebuildAtFrame, scan, pool

LEMMA FrameIndexIInv == ASSUME IInv, FrameIndex PROVE IInv'
<1>1. /\ UNCHANGED <<act, remap, mem, free, resid, life, index, always, near, cam,
                     phase, todo, killed, late>>
      /\ phase = "idle" /\ built' = 2 /\ fresh' = FALSE
  BY FrameIndexFacts DEF pool, scan
<1>2. TypeOK'
  <2>1. built' \in 0 .. 2  BY <1>1
  <2>3. fresh' \in BOOLEAN  BY <1>1
  <2>2. index' \in [DOMAIN index' -> Int]  BY <1>1 DEF IInv, TypeOK
  <2> QED  BY <1>1, <2>1, <2>2, <2>3 DEF IInv, TypeOK
<1>3. PoolPartition' /\ DeadStayDead' /\ Indexed' /\ Pending' /\ KilledKnown'
  BY <1>1 DEF IInv, PoolPartition, DeadStayDead, Indexed, Pending, KilledKnown, Alive, At
<1>4. Stage'  BY <1>1 DEF Stage
<1> QED  BY <1>2, <1>3, <1>4 DEF IInv

LEMMA CameraIInv == ASSUME IInv, NEW c \in Cams, Camera(c) PROVE IInv'
<1>1. /\ UNCHANGED <<act, remap, mem, free, resid, life, index, always, todo, fresh,
                     built, killed, late>>
      /\ phase = "idle" /\ phase' = "drop" /\ cam' = c /\ ~fresh
      /\ near' = NearSet(index, always, c)
  BY DEF Camera, pool
<1>2. near' \subseteq DOMAIN index /\ near' \subseteq Slots
  BY <1>1 DEF NearSet, IInv, Indexed, TypeOK
<1>3. c \in Int  OBVIOUS
<1>4. TypeOK'  BY <1>1, <1>2, <1>3 DEF IInv, TypeOK
<1>5. PoolPartition' /\ DeadStayDead' /\ KilledKnown'
  BY <1>1 DEF IInv, PoolPartition, DeadStayDead, KilledKnown, Alive, At
<1>6. Indexed' /\ Pending' /\ Stage'
  BY <1>1, <1>2 DEF IInv, Indexed, Pending, Stage
<1> QED  BY <1>4, <1>5, <1>6 DEF IInv

LEMMA StreamOutFacts ==
  ASSUME IInv, StreamOut
  PROVE  /\ PoolPartition'
         /\ TypeOK'
         /\ \A L \in resid' : L \in resid /\ L \in near /\ Alive(L) /\ At(L)' = At(L)
<1>1. PICK gone : gone = Dead \cup Far  OBVIOUS
<1>2. /\ gone \subseteq resid /\ resid \subseteq Slots
      /\ \A L \in resid : remap[L] \in Pool
      /\ \A L, M \in resid : remap[L] = remap[M] => L = M
      /\ free = Pool \ {remap[L] : L \in resid}
      /\ \A L \in Slots \ resid : remap[L] = Dummy
      /\ mem[Dummy] = Blank /\ \A p \in free : mem[p] = Blank
  BY <1>1 DEF IInv, TypeOK, PoolPartition, StreamOut, Dead, Far
<1>3. /\ mem' = [p \in Slots |-> IF p \in {remap[L] : L \in Far} THEN Blank ELSE mem[p]]
      /\ free' = free \cup {remap[L] : L \in gone}
      /\ remap' = [L \in Slots |-> IF L \in gone THEN Dummy ELSE remap[L]]
      /\ resid' = resid \ gone
      /\ life' = life \cup Dead /\ late' = late \ gone
      /\ todo' = {L \in near : L \notin resid' /\ L \notin life'}
      /\ phase' = "fill"
  BY <1>1 DEF StreamOut, FreedBy, Wanted
<1>4. ASSUME NEW L \in gone PROVE mem'[remap[L]] = Blank
  <2>1. remap[L] \in Slots  BY <1>2, SlotFacts
  <2>2. CASE L \in Far  BY <1>3, <2>1, <2>2
  <2>3. CASE L \in Dead
    <3>1. At(L) = Blank  BY <2>3, <1>2, DeadIsBlank DEF Dead, IInv
    <3> QED  BY <3>1, <1>3, <2>1 DEF At
  <2> QED  BY <1>1, <2>2, <2>3
<1>5. PoolPartition'
  <2>1. \A L \in resid' : remap'[L] = remap[L] /\ remap'[L] \in Pool  BY <1>2, <1>3
  <2>2. \A L \in Slots \ resid' : remap'[L] = Dummy  BY <1>2, <1>3
  <2>3. \A L, M \in resid' : remap'[L] = remap'[M] => L = M  BY <2>1, <1>2, <1>3
  <2>4. {remap'[L] : L \in resid'} = {remap[L] : L \in resid'}  BY <2>1
  <2>5. free' = Pool \ {remap[L] : L \in resid'}
    <3>1. free' = (Pool \ {remap[L] : L \in resid}) \cup {remap[L] : L \in gone}
      BY <1>2, <1>3
    <3>2. resid' = resid \ gone  BY <1>3
    <3>3. ASSUME NEW p \in free' PROVE p \in Pool /\ \A L \in resid' : remap[L] # p
      BY <3>1, <3>2, <1>2
    <3>4. ASSUME NEW p \in Pool, \A L \in resid' : remap[L] # p PROVE p \in free'
      BY <3>1, <3>2, <3>4, <1>2
    <3> QED  BY <3>3, <3>4
  <2>6. \A p \in free' \cup {Dummy} : mem'[p] = Blank
    <3>1. ASSUME NEW p \in free \cup {Dummy} PROVE mem'[p] = Blank
      BY <1>2, <1>3, SlotFacts
    <3> QED  BY <3>1, <1>3, <1>4
  <2> QED  BY <2>1, <2>2, <2>3, <2>4, <2>5, <2>6 DEF PoolPartition
<1>6. TypeOK'
  <2>1. mem' \in [Slots -> Live \cup {Blank}]  BY <1>3 DEF IInv, TypeOK
  <2>2. remap' \in [Slots -> Slots]  BY <1>3, SlotFacts DEF IInv, TypeOK
  <2>3. free' \subseteq Pool  BY <1>2, <1>3
  <2>4. /\ resid' \subseteq Slots /\ life' \subseteq Slots /\ todo' \subseteq Slots
        /\ late' \subseteq Slots
    BY <1>2, <1>3 DEF IInv, TypeOK, Dead
  <2> QED  BY <2>1, <2>2, <2>3, <2>4 DEF StreamOut, IInv, TypeOK, scan
<1>7. ASSUME NEW L \in resid'
      PROVE  L \in resid /\ L \in near /\ Alive(L) /\ At(L)' = At(L)
  <2>1. L \in resid /\ L \notin Dead /\ L \notin Far  BY <1>1, <1>3
  <2>2. Alive(L) /\ L \in near  BY <2>1 DEF Dead, Far
  <2>3. remap'[L] = remap[L] /\ remap[L] \in Slots  BY <1>1, <1>2, <1>3, <2>1, SlotFacts
  <2>4. remap[L] \notin {remap[M] : M \in Far}  BY <1>1, <1>2, <2>1
  <2> QED  BY <1>3, <2>1, <2>2, <2>3, <2>4 DEF At
<1> QED  BY <1>5, <1>6, <1>7

LEMMA StreamOutIInv == ASSUME IInv, StreamOut PROVE IInv'
<1>1. /\ UNCHANGED <<index, always, near, cam, fresh, built, killed>>
      /\ phase = "drop" /\ phase' = "fill"
      /\ life' = life \cup Dead /\ resid' = resid \ (Dead \cup Far)
      /\ todo' = {L \in near : L \notin resid' /\ L \notin life'}
  BY DEF StreamOut, Wanted, scan
<1>2. /\ PoolPartition' /\ TypeOK'
      /\ \A L \in resid' : L \in resid /\ L \in near /\ Alive(L) /\ At(L)' = At(L)
  BY StreamOutFacts
<1>3. DeadStayDead'
  <2>1. ASSUME NEW L \in killed' PROVE ~Alive(L)'
    <3>1. L \in Slots /\ ~Alive(L)  BY <1>1 DEF IInv, TypeOK, DeadStayDead
    <3>2. L \notin resid'  BY <1>2, <3>1
    <3>3. remap'[L] = Dummy /\ mem'[Dummy] = Blank  BY <1>1, <1>2, <3>1, <3>2 DEF PoolPartition
    <3> QED  BY <3>3, BlankFacts DEF Alive, At
  <2> QED  BY <2>1 DEF DeadStayDead
<1>4. KilledKnown'
  <2>1. ASSUME NEW L \in killed, L \in resid PROVE L \in life'
    BY <1>1, <2>1 DEF Dead, IInv, DeadStayDead
  <2> QED  BY <1>1, <2>1 DEF IInv, KilledKnown
<1>5. Stage' /\ Indexed' /\ Pending'
  BY <1>1 DEF IInv, Stage, Indexed, Pending
<1> QED  BY <1>2, <1>3, <1>4, <1>5 DEF IInv

LEMMA MaterialiseFacts ==
  ASSUME IInv, NEW L \in todo, NEW p \in free, NEW lives \in BOOLEAN, Materialise(L, p, lives)
  PROVE  /\ PoolPartition' /\ mem' \in [Slots -> Live \cup {Blank}]
         /\ L \in Slots /\ L \notin resid /\ L \in near /\ L \notin life /\ L \notin killed
         /\ At(L)' = Blank \/ (Scene[StoreAct][L] \in Items /\ At(L)' = Born(Scene[StoreAct][L]))
         /\ Scene[StoreAct][L] \in Items /\ At(L)' = Blank => L \in killed'
         /\ At(L)' # Blank => killed' = killed
         /\ \A M \in Slots : M # L => At(M)' = At(M)
<1>1. PICK i : i = Scene[StoreAct][L]  OBVIOUS
<1>2. /\ phase = "fill" /\ phase' = phase /\ free' = free \ {p} /\ resid' = resid \cup {L}
      /\ remap' = [remap EXCEPT ![L] = p]
      /\ \/ /\ i # None /\ mem' = [mem EXCEPT ![p] = Born(i)] /\ killed' = killed
         \/ mem' = mem /\ i = None /\ killed' = killed
         \/ mem' = mem /\ i # None /\ killed' = killed \cup {L}
  BY <1>1 DEF Materialise
<1>3. /\ L \in Slots /\ L \in near /\ L \notin resid /\ L \notin life
  BY <1>2 DEF IInv, TypeOK, Pending
<1>4. L \notin killed  BY <1>2, <1>3 DEF IInv, KilledKnown, Indexed
<1>5. i \in Items \cup {None}  BY <1>1, <1>3
<1>6. /\ p \in Pool /\ p \in Slots /\ p # Dummy /\ mem[p] = Blank
      /\ \A M \in resid : remap[M] # p
      /\ \A M \in Slots : remap[M] # p
  <2>1. p \in Pool /\ p # Dummy /\ p \in Slots /\ mem[p] = Blank
    BY <1>2, SlotFacts DEF IInv, TypeOK, PoolPartition
  <2>2. \A M \in resid : remap[M] # p  BY <1>2 DEF IInv, PoolPartition
  <2>3. \A M \in Slots : remap[M] # p  BY <1>2, <2>1, <2>2 DEF IInv, PoolPartition
  <2> QED  BY <2>1, <2>2, <2>3
<1>7. remap'[L] = p /\ \A M \in Slots : M # L => remap'[M] = remap[M]
  BY <1>2, <1>3 DEF IInv, TypeOK
<1>8. /\ mem' \in [Slots -> Live \cup {Blank}]
      /\ mem'[p] = Blank \/ (i \in Items /\ mem'[p] = Born(i))
      /\ \A q \in Slots : q # p => mem'[q] = mem[q]
  <2>1. mem \in [Slots -> Live \cup {Blank}]  BY DEF IInv, TypeOK
  <2>2. CASE mem' = mem  BY <2>1, <2>2, <1>6
  <2>3. CASE i # None /\ mem' = [mem EXCEPT ![p] = Born(i)]
    <3>1. Born(i) \in Live  BY <1>5, <2>3, BornFacts
    <3> QED  BY <2>1, <2>3, <3>1, <1>5, <1>6
  <2> QED  BY <1>2, <2>2, <2>3
<1>9. /\ At(L)' = Blank \/ (i \in Items /\ At(L)' = Born(i))
      /\ \A M \in Slots : M # L => At(M)' = At(M)
  <2>1. \A M \in Slots : remap[M] \in Slots  BY DEF IInv, TypeOK
  <2> QED  BY <1>6, <1>7, <1>8, <2>1 DEF At
<1>10. i \in Items /\ At(L)' = Blank => L \in killed'
  <2>1. CASE mem' = [mem EXCEPT ![p] = Born(i)] /\ i # None
    <3>1. i \in Items  BY <1>5, <2>1
    <3>2. Born(i) # Blank  BY <3>1, BornFacts, BlankFacts
    <3>3. At(L)' = Born(i)  BY <1>6, <1>7, <2>1 DEF At, IInv, TypeOK
    <3> QED  BY <3>2, <3>3
  <2>2. CASE ~(mem' = [mem EXCEPT ![p] = Born(i)] /\ i # None)  BY <1>2, <2>2
  <2> QED  BY <2>1, <2>2
<1>11. At(L)' # Blank => killed' = killed
  <2>1. ASSUME mem' = mem PROVE At(L)' = Blank  BY <2>1, <1>6, <1>7 DEF At
  <2> QED  BY <1>2, <2>1
<1>12. PoolPartition'
  <2>1. /\ \A M \in resid : remap[M] \in Pool
        /\ \A M \in Slots \ resid : remap[M] = Dummy
        /\ \A M, N \in resid : remap[M] = remap[N] => M = N
        /\ free = Pool \ {remap[M] : M \in resid}
        /\ \A q \in free \cup {Dummy} : mem[q] = Blank
        /\ resid \subseteq Slots
    BY <1>2 DEF IInv, TypeOK, PoolPartition
  <2>2. \A M \in resid' : remap'[M] \in Pool  BY <1>2, <1>6, <1>7, <2>1
  <2>3. \A M \in Slots \ resid' : remap'[M] = Dummy  BY <1>2, <1>7, <2>1
  <2>4. \A M, N \in resid' : remap'[M] = remap'[N] => M = N
    BY <1>2, <1>3, <1>6, <1>7, <2>1
  <2>5. free' = Pool \ {remap'[M] : M \in resid'}
    <3>1. ASSUME NEW q \in free' PROVE q \in Pool /\ \A M \in resid' : remap'[M] # q
      BY <1>2, <1>3, <1>7, <2>1
    <3>2. ASSUME NEW q \in Pool, \A M \in resid' : remap'[M] # q PROVE q \in free'
      <4>1. q # p  BY <3>2, <1>2, <1>7
      <4>2. \A M \in resid : remap[M] # q  BY <3>2, <1>2, <1>3, <1>7, <2>1
      <4> QED  BY <4>1, <4>2, <1>2, <2>1
    <3> QED  BY <3>1, <3>2
  <2>6. \A q \in free' \cup {Dummy} : mem'[q] = Blank
    BY <1>2, <1>6, <1>8, <2>1, SlotFacts
  <2> QED  BY <2>2, <2>3, <2>4, <2>5, <2>6 DEF PoolPartition
<1> QED  BY <1>1, <1>3, <1>4, <1>8, <1>9, <1>10, <1>11, <1>12

LEMMA MaterialiseIInv ==
  ASSUME IInv, NEW L \in todo, NEW p \in free, NEW lives \in BOOLEAN, Materialise(L, p, lives)
  PROVE  IInv'
<1>1. /\ phase = "fill" /\ phase' = phase /\ free' = free \ {p} /\ resid' = resid \cup {L}
      /\ remap' = [remap EXCEPT ![L] = p] /\ todo' = todo \ {L}
      /\ UNCHANGED <<act, life, index, always, near, cam, fresh, built, late>>
      /\ killed' = killed \/ killed' = killed \cup {L}
  BY DEF Materialise, scan
<1>2. /\ PoolPartition' /\ mem' \in [Slots -> Live \cup {Blank}]
      /\ L \in Slots /\ L \notin resid /\ L \in near /\ L \notin life /\ L \notin killed
      /\ At(L)' # Blank => killed' = killed
      /\ \A M \in Slots : M # L => At(M)' = At(M)
  BY MaterialiseFacts
<1>3. TypeOK'
  <2>1. remap' \in [Slots -> Slots]
    BY <1>1, SlotFacts DEF IInv, TypeOK
  <2>2. killed' \subseteq Slots /\ todo' \subseteq Slots /\ resid' \subseteq Slots
        /\ free' \subseteq Pool
    BY <1>1, <1>2 DEF IInv, TypeOK
  <2>3. index' \in [DOMAIN index' -> Int]  BY <1>1 DEF IInv, TypeOK
  <2> QED  BY <1>1, <1>2, <2>1, <2>2, <2>3 DEF IInv, TypeOK
<1>4. DeadStayDead'
  <2>1. ASSUME NEW M \in killed' PROVE ~Alive(M)'
    <3>1. CASE M = L
      <4>1. At(L)' = Blank  BY <1>2, <3>1, <2>1
      <4> QED  BY <4>1, <3>1, BlankFacts DEF Alive
    <3>2. CASE M # L
      <4>1. M \in killed /\ M \in Slots  BY <1>1, <2>1, <3>2 DEF IInv, TypeOK
      <4>2. ~Alive(M)  BY <4>1, <1>1 DEF IInv, DeadStayDead
      <4> QED  BY <4>1, <4>2, <3>2, <1>2 DEF Alive
    <3> QED  BY <3>1, <3>2
  <2> QED  BY <2>1 DEF DeadStayDead
<1>5. Stage' /\ Pending'  BY <1>1 DEF IInv, Stage, Pending
<1>6. Indexed' /\ KilledKnown'
  BY <1>1, <1>2 DEF IInv, Indexed, KilledKnown
<1> QED  BY <1>2, <1>3, <1>4, <1>5, <1>6 DEF IInv

LEMMA StreamDoneIInv == ASSUME IInv, StreamDone PROVE IInv'
<1>1. /\ phase = "fill" /\ phase' = "run"
      /\ UNCHANGED <<act, remap, mem, free, resid, life, index, always, near, cam,
                     fresh, built, killed, late>>
      /\ todo' \subseteq near \cup Slots /\ \A L \in todo' : Alive(L)
  BY DEF StreamDone, pool, scan
<1>2. todo' \subseteq Slots  BY <1>1 DEF IInv, TypeOK
<1>3. TypeOK'
  <2>1. index' \in [DOMAIN index' -> Int]  BY <1>1 DEF IInv, TypeOK
  <2> QED  BY <1>1, <1>2, <2>1 DEF IInv, TypeOK
<1>4. PoolPartition' /\ DeadStayDead' /\ Indexed' /\ KilledKnown' /\ Stage'
  BY <1>1 DEF IInv, PoolPartition, DeadStayDead, Indexed, KilledKnown, Stage, Alive, At
<1>5. Pending'  BY <1>1 DEF Pending, Alive, At
<1> QED  BY <1>3, <1>4, <1>5 DEF IInv

\* A step of the loop writes one resident; who dies by it is counted as killed.
LEMMA LoopIInv ==
  ASSUME IInv, phase = "run", NEW L \in resid, Alive(L), NEW e \in Live \cup {Blank},
         mem' = [mem EXCEPT ![remap[L]] = e],
         UNCHANGED <<act, remap, free, resid, life, index, near, cam, phase, fresh, built>>,
         always' \subseteq always \cup {L}, always \subseteq always',
         e = Blank => L \notin todo',
         todo' \subseteq todo,
         killed' = IF e = Blank THEN killed \cup {L} ELSE killed,
         late' \subseteq late \cup {L}
  PROVE  IInv'
<1>1. L \in Slots  BY DEF IInv, TypeOK
<1>2. /\ PoolPartition' /\ mem' \in [Slots -> Live \cup {Blank}]
      /\ At(L)' = e /\ \A M \in Slots : M # L => At(M)' = At(M)
  BY WriteFacts DEF IInv
<1>3. TypeOK'
  <2>1. index' \in [DOMAIN index' -> Int]  BY DEF IInv, TypeOK
  <2>2. /\ always' \subseteq Slots /\ todo' \subseteq Slots /\ killed' \subseteq Slots
        /\ late' \subseteq Slots
    BY <1>1 DEF IInv, TypeOK
  <2> QED  BY <1>2, <2>1, <2>2 DEF IInv, TypeOK
<1>4. DeadStayDead'
  <2>1. ASSUME NEW M \in killed' PROVE ~Alive(M)'
    <3>1. CASE M = L
      <4>1. L \notin killed  BY DEF IInv, DeadStayDead
      <4>2. e = Blank  BY <4>1, <3>1, <2>1
      <4> QED  BY <4>2, <3>1, <1>2, BlankFacts DEF Alive
    <3>2. CASE M # L
      <4>1. M \in killed /\ M \in Slots  BY <2>1, <3>2, <1>1 DEF IInv, TypeOK
      <4>2. ~Alive(M)  BY <4>1 DEF IInv, DeadStayDead
      <4> QED  BY <4>1, <4>2, <3>2, <1>2 DEF Alive
    <3> QED  BY <3>1, <3>2
  <2> QED  BY <2>1 DEF DeadStayDead
<1>5. Pending'
  <2>1. ASSUME NEW M \in todo' PROVE Alive(M)'
    <3>1. M \in todo /\ M \in Slots /\ Alive(M)  BY DEF IInv, TypeOK, Pending
    <3>2. CASE M = L
      <4>1. e # Blank  BY <3>2
      <4>2. e.of # None  BY <4>1, BlankFacts
      <4> QED  BY <4>2, <3>2, <1>2 DEF Alive
    <3>3. CASE M # L  BY <3>1, <3>3, <1>2 DEF Alive
    <3> QED  BY <3>2, <3>3
  <2> QED  BY <2>1 DEF Pending
<1>6. Stage' /\ Indexed' /\ KilledKnown'
  BY DEF IInv, Stage, Indexed, KilledKnown
<1> QED  BY <1>2, <1>3, <1>4, <1>5, <1>6 DEF IInv

\* What an update leaves is an entity of the same kind, not far astray, or none.
LEMMA UpdatedFacts ==
  ASSUME NEW e \in Live, NEW u \in Updated(e)
  PROVE  u = Blank \/ (u \in Live /\ u.of = e.of /\ \E d \in -Drift .. Drift : u.x = SpawnX[e.of] + d)
<1>1. CASE u = Blank  BY <1>1
<1>2. CASE u \in [of : {e.of}, x : {SpawnX[e.of] + d : d \in -Drift .. Drift}, loose : BOOLEAN]
  <2>1. /\ u = [of |-> u.of, x |-> u.x, loose |-> u.loose]
        /\ u.of = e.of /\ u.loose \in BOOLEAN
        /\ u.x \in {SpawnX[e.of] + d : d \in -Drift .. Drift}
    BY <1>2
  <2>2. PICK d \in -Drift .. Drift : u.x = SpawnX[e.of] + d  BY <2>1
  <2>3. e.of \in Items /\ SpawnX[e.of] \in Int  BY BlankFacts
  <2>4. d \in Int  BY DriftAssumption
  <2>5. u.x \in Int  BY <2>2, <2>3, <2>4
  <2>6. u \in Live  BY <2>1, <2>3, <2>5 DEF Live
  <2> QED  BY <2>1, <2>2, <2>6
<1> QED  BY <1>1, <1>2 DEF Updated

\* The loop visits one live resident at a time.
LEMMA VisitFacts ==
  ASSUME IInv, NEW L \in todo, Visit(L)
  PROVE  /\ phase = "run" /\ L \in Slots /\ L \in resid /\ Alive(L)
         /\ todo' = todo \ {L} /\ late' = late \ {L}
         /\ UNCHANGED <<act, remap, free, resid, life, index, near, cam, phase, fresh, built>>
         /\ \E e \in Live \cup {Blank} :
               /\ e = Blank \/ e = At(L) \/
                    (e.of = At(L).of /\ \E d \in -Drift .. Drift : e.x = SpawnX[At(L).of] + d)
               /\ mem' = [mem EXCEPT ![remap[L]] = e]
               /\ always' = IF PinnedByVisit(L, e) THEN always \cup {L} ELSE always
               /\ killed' = IF e = Blank THEN killed \cup {L} ELSE killed
<1>1. /\ phase = "run" /\ todo' = todo \ {L} /\ late' = late \ {L}
      /\ UNCHANGED <<act, remap, free, resid, life, index, near, cam, phase, fresh, built>>
  BY DEF Visit
<1>2. L \in Slots /\ Alive(L)  BY <1>1 DEF IInv, TypeOK, Pending
<1>3. L \in resid  BY <1>1, <1>2, OutIsEmpty DEF IInv
<1>4. At(L) \in Live  BY <1>2, AtType DEF IInv
<1>5. PICK e \in IF InRange(At(L)) THEN Updated(At(L)) ELSE {At(L)} :
        /\ mem' = [mem EXCEPT ![remap[L]] = e]
        /\ always' = IF PinnedByVisit(L, e) THEN always \cup {L} ELSE always
        /\ killed' = IF e.of = None THEN killed \cup {L} ELSE killed
  BY DEF Visit
<1>6. /\ e \in Live \cup {Blank}
      /\ e = Blank \/ e = At(L) \/
           (e.of = At(L).of /\ \E d \in -Drift .. Drift : e.x = SpawnX[At(L).of] + d)
  <2>1. CASE e = At(L)  BY <2>1, <1>4
  <2>2. CASE e \in Updated(At(L))  BY <2>2, <1>4, UpdatedFacts
  <2> QED  BY <1>5, <2>1, <2>2
<1>7. e.of = None <=> e = Blank  BY <1>6, BlankFacts
<1> QED  BY <1>1, <1>2, <1>3, <1>5, <1>6, <1>7

LEMMA VisitIInv == ASSUME IInv, NEW L \in todo, Visit(L) PROVE IInv'
<1>1. /\ phase = "run" /\ L \in resid /\ Alive(L)
      /\ todo' = todo \ {L} /\ late' = late \ {L}
      /\ UNCHANGED <<act, remap, free, resid, life, index, near, cam, phase, fresh, built>>
  BY VisitFacts
<1>2. PICK e \in Live \cup {Blank} :
        /\ mem' = [mem EXCEPT ![remap[L]] = e]
        /\ always' = IF PinnedByVisit(L, e) THEN always \cup {L} ELSE always
        /\ killed' = IF e = Blank THEN killed \cup {L} ELSE killed
  BY VisitFacts
<1>3. always' \subseteq always \cup {L} /\ always \subseteq always'  BY <1>2
<1>4. L \notin todo' /\ todo' \subseteq todo /\ late' \subseteq late \cup {L}  BY <1>1
<1> QED  BY <1>1, <1>2, <1>3, <1>4, LoopIInv

LEMMA KillIInv == ASSUME IInv, NEW L \in resid, Kill(L) PROVE IInv'
<1>1. /\ phase = "run" /\ Alive(L) /\ mem' = [mem EXCEPT ![remap[L]] = Blank]
      /\ killed' = killed \cup {L} /\ always' = always
      /\ todo' = todo \ {L} /\ late' = late \ {L}
      /\ UNCHANGED <<act, remap, free, resid, life, index, near, cam, phase, fresh, built>>
  BY DEF Kill, scan
<1>2. L \notin todo' /\ todo' \subseteq todo /\ late' \subseteq late \cup {L}
      /\ always' \subseteq always \cup {L} /\ always \subseteq always'
  BY <1>1
<1>3. Blank \in Live \cup {Blank}
      /\ killed' = IF Blank = Blank THEN killed \cup {L} ELSE killed
  BY <1>1
<1> QED  BY <1>1, <1>2, <1>3, LoopIInv

LEMMA LoosenFacts ==
  ASSUME IInv, NEW L \in resid, Loosen(L)
  PROVE  /\ phase = "run" /\ Alive(L) /\ L \in Slots
         /\ UNCHANGED <<act, remap, free, resid, life, index, always, near, cam, phase,
                        todo, fresh, built, killed>>
         /\ late' = IF L \in todo THEN late ELSE late \cup {L}
         /\ \E e \in Live : /\ mem' = [mem EXCEPT ![remap[L]] = e]
                            /\ e.of = At(L).of /\ e.x = At(L).x /\ e.loose = TRUE
<1>1. /\ phase = "run" /\ Alive(L)
      /\ UNCHANGED <<act, remap, free, resid, life, index, always, near, cam, phase,
                     todo, fresh, built, killed>>
      /\ late' = IF L \in todo THEN late ELSE late \cup {L}
      /\ mem' = [mem EXCEPT ![remap[L]].loose = TRUE]
  BY DEF Loosen, scan
<1>2. L \in Slots /\ At(L) \in Live /\ remap[L] \in Slots
  BY <1>1, AtType DEF IInv, TypeOK
<1>3. PICK e : e = [At(L) EXCEPT !.loose = TRUE]  OBVIOUS
<1>4. e \in Live /\ e.of = At(L).of /\ e.x = At(L).x /\ e.loose = TRUE
  <2>1. e = [of |-> At(L).of, x |-> At(L).x, loose |-> TRUE]  BY <1>2, <1>3 DEF Live
  <2> QED  BY <2>1, <1>2, BlankFacts DEF Live
<1>5. mem' = [mem EXCEPT ![remap[L]] = e]
  BY <1>1, <1>2, <1>3 DEF At
<1> QED  BY <1>1, <1>2, <1>4, <1>5

LEMMA LoosenIInv == ASSUME IInv, NEW L \in resid, Loosen(L) PROVE IInv'
<1>1. /\ phase = "run" /\ Alive(L)
      /\ UNCHANGED <<act, remap, free, resid, life, index, always, near, cam, phase,
                     todo, fresh, built, killed>>
      /\ late' \subseteq late \cup {L}
  BY LoosenFacts
<1>2. PICK e \in Live : mem' = [mem EXCEPT ![remap[L]] = e]  BY LoosenFacts
<1>3. e # Blank /\ e \in Live \cup {Blank}  BY BlankFacts
<1>4. killed' = IF e = Blank THEN killed \cup {L} ELSE killed  BY <1>1, <1>3
<1>5. always' \subseteq always \cup {L} /\ always \subseteq always' /\ todo' \subseteq todo
      /\ (e = Blank => L \notin todo')
  BY <1>1, <1>3
<1> QED  BY <1>1, <1>2, <1>3, <1>4, <1>5, LoopIInv

LEMMA TickEndIInv == ASSUME IInv, TickEnd PROVE IInv'
<1>1. /\ phase = "run" /\ phase' = "idle" /\ todo = {}
      /\ UNCHANGED <<act, remap, mem, free, resid, life, index, always, near, cam, todo,
                     fresh, built, killed, late>>
  BY DEF TickEnd, pool, scan
<1>2. TypeOK'
  <2>1. index' \in [DOMAIN index' -> Int]  BY <1>1 DEF IInv, TypeOK
  <2> QED  BY <1>1, <2>1 DEF IInv, TypeOK
<1>3. PoolPartition' /\ DeadStayDead' /\ Indexed' /\ KilledKnown' /\ Stage' /\ Pending'
  BY <1>1 DEF IInv, PoolPartition, DeadStayDead, Indexed, KilledKnown, Stage, Pending,
              Alive, At
<1> QED  BY <1>2, <1>3 DEF IInv

LEMMA StutterIInv == ASSUME IInv, UNCHANGED vars PROVE IInv'
<1>1. UNCHANGED <<act, remap, mem, free, resid, life, index, always, near, cam, phase,
                  todo, fresh, built, killed, late>>
  BY DEF vars, pool, scan
<1>2. TypeOK'
  <2>1. index' \in [DOMAIN index' -> Int]  BY <1>1 DEF IInv, TypeOK
  <2> QED  BY <1>1, <2>1 DEF IInv, TypeOK
<1>3. PoolPartition' /\ DeadStayDead' /\ Indexed' /\ KilledKnown' /\ Stage' /\ Pending'
  BY <1>1 DEF IInv, PoolPartition, DeadStayDead, Indexed, KilledKnown, Stage, Pending,
              Alive, At
<1> QED  BY <1>2, <1>3 DEF IInv

LEMMA NextIInv == ASSUME IInv, [Next]_vars PROVE IInv'
<1>1. ASSUME NEW a \in Acts, NEW c \in Spawns, NEW born \in SUBSET Placed(a),
             LoadScene(a, born, c)
      PROVE  IInv'
  BY <1>1, LoadIInv
<1>2. CASE FrameIndex  BY <1>2, FrameIndexIInv
<1>3. ASSUME NEW c \in Cams, Camera(c) PROVE IInv'  BY <1>3, CameraIInv
<1>4. CASE StreamOut  BY <1>4, StreamOutIInv
<1>5. ASSUME NEW L \in todo, NEW p \in free, NEW lives \in BOOLEAN, Materialise(L, p, lives)
      PROVE  IInv'
  BY <1>5, MaterialiseIInv
<1>6. CASE StreamDone  BY <1>6, StreamDoneIInv
<1>7. ASSUME NEW L \in todo, Visit(L) PROVE IInv'  BY <1>7, VisitIInv
<1>8. ASSUME NEW L \in resid, Kill(L) PROVE IInv'  BY <1>8, KillIInv
<1>9. ASSUME NEW L \in resid, Loosen(L) PROVE IInv'  BY <1>9, LoosenIInv
<1>10. CASE TickEnd  BY <1>10, TickEndIInv
<1>11. CASE UNCHANGED vars  BY <1>11, StutterIInv
<1> QED  BY <1>1, <1>2, <1>3, <1>4, <1>5, <1>6, <1>7, <1>8, <1>9, <1>10, <1>11 DEF Next

LEMMA IInvAlways == Spec => []IInv
  BY InitIInv, NextIInv, PTL DEF Spec

\* The variables keep their types.
THEOREM TypeCorrect == Spec => []TypeOK
<1>1. IInv => TypeOK  BY DEF IInv
<1> QED  BY <1>1, IInvAlways, PTL

\* No physical slot is lost, shared or occupied by something nobody owns.
THEOREM PoolTheorem == Spec => []PoolPartition
<1>1. IInv => PoolPartition  BY DEF IInv
<1> QED  BY <1>1, IInvAlways, PTL

\* What was destroyed stays destroyed for this life.
THEOREM DeadTheorem == Spec => []DeadStayDead
<1>1. IInv => DeadStayDead  BY DEF IInv
<1> QED  BY <1>1, IInvAlways, PTL

-------------------------------------------------------------------------------
(* The act whose records the store has.                                      *)

OneAct == Acts = {StoreAct}

\* The stream knows every dead resident as killed, and only the killed as dead.
DeathsKnown ==
    phase # "load" =>
        /\ life \subseteq killed
        /\ \A L \in resid : ~Alive(L) => L \in killed

\* The index is what the scene placed, where it placed it.
IndexRight ==
    phase # "load" =>
        \A L \in DOMAIN index :
            Scene[act][L] \in Items /\ index[L] = SpawnX[Scene[act][L]]

AlwaysCovers ==
    phase # "load" =>
        \A L \in DOMAIN index : Pinned(Scene[act][L]) => L \in always

NearCovers ==
    phase \in {"drop", "fill", "run"} =>
        \A L \in DOMAIN index : MustLive(Scene[act][L]) => L \in near

AlwaysNear == phase = "drop" => always \subseteq near

FillCovers ==
    /\ phase = "fill" => near \subseteq resid \cup life \cup todo
    /\ phase = "run" => free = {} \/ near \subseteq resid \cup life

\* Nothing strays farther than Drift from where it was placed.
Strays ==
    \A p \in Slots : mem[p] # Blank => Abs(mem[p].x - SpawnX[mem[p].of]) <= Drift

\* What is loose is pinned, or about to be visited, or one of the exceptions.
LoosePinned ==
    phase # "load" =>
        \A L \in resid :
            Alive(L) /\ At(L).loose /\ L \notin late /\ L < SP => L \in always \cup todo

AInv ==
    /\ HoldsPlaced /\ DeathsKnown /\ IndexRight /\ AlwaysCovers /\ NearCovers
    /\ AlwaysNear /\ FillCovers /\ Strays /\ LoosePinned

LEMMA InitAInv == Init => AInv
  BY DEF Init, AInv, HoldsPlaced, DeathsKnown, IndexRight, AlwaysCovers, NearCovers,
         AlwaysNear, FillCovers, Strays, LoosePinned

LEMMA StraysAtSpawn ==
  ASSUME NEW i \in Items PROVE Abs(Born(i).x - SpawnX[Born(i).of]) <= Drift
<1>1. Born(i).x = SpawnX[i] /\ Born(i).of = i /\ SpawnX[i] \in Int  BY BornFacts
<1>2. Drift \in Nat  BY DriftAssumption
<1> QED  BY <1>1, <1>2 DEF Abs

LEMMA LoadAInv ==
  ASSUME IInv', NEW a \in Acts, NEW c \in Spawns, NEW born \in SUBSET Placed(a),
         LoadScene(a, born, c)
  PROVE  AInv'
<1>1. PICK R \in SUBSET born :
        /\ born \subseteq Slots /\ R \subseteq Placed(a) /\ Cardinality(R) < SP
        /\ act' = a /\ index' = IndexAtLoad(a, born) /\ always' = AlwaysAtLoad(a, born)
        /\ near' = R /\ cam' = c /\ resid' = R /\ life' = {}
        /\ remap' = [L \in Slots |-> IF L \in R THEN Rank(L, R) ELSE Dummy]
        /\ mem' = Compacted(a, R) /\ free' = Pool \ {Rank(L, R) : L \in R}
        /\ phase' = "idle" /\ todo' = {} /\ fresh' = TRUE /\ built' = built
        /\ killed' = Slots \ born /\ late' = {}
        /\ \A L \in R : At(L)' = Born(Scene[a][L])
  BY LoadEffect
<1>2. \A L \in born : Scene[a][L] \in Items  BY DEF Placed
<1>3. ASSUME NEW L \in resid'
      PROVE  /\ At(L)' = Born(Scene[a][L]) /\ Alive(L)' /\ At(L)'.of = Scene[a][L]
             /\ At(L)'.loose <=> Scene[a][L] \in Managers
             /\ L \in born
  <2>1. At(L)' = Born(Scene[a][L]) /\ Scene[a][L] \in Items /\ L \in born  BY <1>1, <1>2
  <2> QED  BY <2>1, BornFacts DEF Alive
<1>4. HoldsPlaced' /\ DeathsKnown'
  BY <1>1, <1>3 DEF HoldsPlaced, DeathsKnown
<1>5. IndexRight' /\ AlwaysCovers'
  BY <1>1, <1>2 DEF IndexRight, AlwaysCovers, IndexAtLoad, AlwaysAtLoad
<1>6. NearCovers' /\ AlwaysNear' /\ FillCovers'
  BY <1>1 DEF NearCovers, AlwaysNear, FillCovers
<1>7. Strays'
  <2>1. ASSUME NEW p \in Slots, mem'[p] # Blank
        PROVE  Abs(mem'[p].x - SpawnX[mem'[p].of]) <= Drift
    <3>1. PICK L \in R : Rank(L, R) = p  BY <1>1, <2>1, CompactedFacts
    <3>2. Scene[a][L] \in Items /\ mem'[p] = Born(Scene[a][L])
      BY <1>1, <3>1, CompactedFacts
    <3> QED  BY <3>2, StraysAtSpawn
  <2> QED  BY <2>1 DEF Strays
<1>8. LoosePinned'
  <2>1. ASSUME NEW L \in resid', At(L)'.loose PROVE L \in always'
    <3>1. L \in born /\ Scene[a][L] \in Managers  BY <1>3, <2>1
    <3> QED  BY <3>1, <1>1 DEF AlwaysAtLoad, Pinned
  <2> QED  BY <2>1 DEF LoosePinned
<1> QED  BY <1>4, <1>5, <1>6, <1>7, <1>8 DEF AInv

LEMMA FrameIndexAInv == ASSUME IInv, AInv, FrameIndex PROVE AInv'
<1>1. /\ UNCHANGED <<act, remap, mem, free, resid, life, index, always, near, cam,
                     phase, todo, killed, late>>
      /\ phase = "idle"
  BY FrameIndexFacts DEF pool, scan
<1>2. HoldsPlaced' /\ DeathsKnown' /\ LoosePinned' /\ Strays'
  BY <1>1 DEF AInv, HoldsPlaced, DeathsKnown, LoosePinned, Strays, Alive, At
<1>3. IndexRight' /\ AlwaysCovers' /\ NearCovers' /\ AlwaysNear' /\ FillCovers'
  BY <1>1 DEF AInv, IndexRight, AlwaysCovers, NearCovers, AlwaysNear, FillCovers
<1> QED  BY <1>2, <1>3 DEF AInv

LEMMA CameraAInv == ASSUME IInv, AInv, NEW c \in Cams, Camera(c) PROVE AInv'
<1>1. /\ UNCHANGED <<act, remap, mem, free, resid, life, index, always, todo, killed, late>>
      /\ phase = "idle" /\ phase' = "drop" /\ cam' = c
      /\ near' = NearSet(index, always, c)
  BY DEF Camera, pool
<1>2. HoldsPlaced' /\ DeathsKnown' /\ LoosePinned' /\ Strays'
  BY <1>1 DEF AInv, HoldsPlaced, DeathsKnown, LoosePinned, Strays, Alive, At
<1>3. IndexRight' /\ AlwaysCovers' /\ AlwaysNear' /\ FillCovers'
  BY <1>1 DEF AInv, IndexRight, AlwaysCovers, AlwaysNear, FillCovers, NearSet
<1>4. NearCovers'
  <2>1. ASSUME NEW L \in DOMAIN index, MustLive(Scene[act][L])'
        PROVE  L \in near'
    <3>1. Scene[act][L] \in Items /\ index[L] = SpawnX[Scene[act][L]]
      BY <1>1 DEF AInv, IndexRight
    <3>2. CASE Pinned(Scene[act][L])
      BY <1>1, <3>2 DEF AInv, AlwaysCovers, NearSet
    <3>3. CASE Near(SpawnX[Scene[act][L]], c)
      BY <1>1, <3>1, <3>3 DEF NearSet
    <3> QED  BY <1>1, <2>1, <3>2, <3>3 DEF MustLive
  <2> QED  BY <1>1, <2>1 DEF NearCovers
<1> QED  BY <1>2, <1>3, <1>4 DEF AInv

LEMMA StreamOutAInv == ASSUME IInv, AInv, StreamOut PROVE AInv'
<1>1. /\ UNCHANGED <<act, index, always, near, cam, fresh, built, killed>>
      /\ phase = "drop" /\ phase' = "fill"
      /\ life' = life \cup Dead /\ resid' = resid \ (Dead \cup Far)
      /\ late' = late \ (Dead \cup Far)
      /\ todo' = {L \in near : L \notin resid' /\ L \notin life'}
      /\ mem' = [p \in Slots |-> IF p \in {remap[L] : L \in Far} THEN Blank ELSE mem[p]]
  BY DEF StreamOut, Wanted, FreedBy, scan
<1>2. \A L \in resid' : L \in resid /\ L \in near /\ Alive(L) /\ At(L)' = At(L)
  BY StreamOutFacts
<1>3. \A L \in resid' : Alive(L)' /\ (L \notin late' => L \notin late)
  BY <1>1, <1>2 DEF Alive
<1>4. HoldsPlaced'  BY <1>1, <1>2 DEF AInv, HoldsPlaced
<1>5. DeathsKnown'  BY <1>1, <1>3 DEF AInv, DeathsKnown, Dead
<1>6. IndexRight' /\ AlwaysCovers' /\ AlwaysNear'
  BY <1>1 DEF AInv, IndexRight, AlwaysCovers, AlwaysNear
<1>7. NearCovers'  BY <1>1 DEF AInv, NearCovers, MustLive
<1>8. FillCovers'  BY <1>1 DEF FillCovers
<1>9. Strays'  BY <1>1 DEF AInv, Strays
<1>10. LoosePinned'
  <2>1. todo = {}  BY <1>1 DEF IInv, Pending
  <2> QED  BY <1>1, <1>2, <1>3, <2>1 DEF AInv, LoosePinned
<1> QED  BY <1>4, <1>5, <1>6, <1>7, <1>8, <1>9, <1>10 DEF AInv

LEMMA MaterialiseAInv ==
  ASSUME OneAct, IInv, AInv, NEW L \in todo, NEW p \in free, NEW lives \in BOOLEAN,
         Materialise(L, p, lives)
  PROVE  AInv'
<1>1. /\ phase = "fill" /\ phase' = phase /\ resid' = resid \cup {L} /\ todo' = todo \ {L}
      /\ UNCHANGED <<act, life, index, always, near, cam, late>>
      /\ killed \subseteq killed'
      /\ mem' = mem \/ (Scene[StoreAct][L] # None /\ mem' = [mem EXCEPT ![p] = Born(Scene[StoreAct][L])])
  BY DEF Materialise, scan
<1>2. /\ L \in Slots /\ L \notin resid /\ L \in near
      /\ At(L)' = Blank \/ (Scene[StoreAct][L] \in Items /\ At(L)' = Born(Scene[StoreAct][L]))
      /\ Scene[StoreAct][L] \in Items /\ At(L)' = Blank => L \in killed'
      /\ \A M \in Slots : M # L => At(M)' = At(M)
  BY MaterialiseFacts
<1>3. act = StoreAct /\ resid \subseteq Slots  BY DEF OneAct, IInv, TypeOK
<1>4. L \in DOMAIN index /\ Scene[act][L] \in Items
  BY <1>1, <1>2 DEF IInv, Indexed, AInv, IndexRight
<1>5. /\ Alive(L)' => At(L)' = Born(Scene[act][L])
      /\ ~Alive(L)' => L \in killed'
  <2>1. Born(Scene[act][L]).of # None  BY <1>4, BornFacts
  <2> QED  BY <1>2, <1>3, <1>4, <2>1, BlankFacts DEF Alive
<1>6. \A M \in resid : M # L /\ At(M)' = At(M) /\ (Alive(M)' <=> Alive(M))
  BY <1>2, <1>3 DEF Alive
<1>7. HoldsPlaced'
  <2>1. Alive(L)' => At(L)'.of = Scene[act][L]  BY <1>4, <1>5, BornFacts
  <2>2. \A M \in resid : Alive(M) => At(M).of = Scene[act][M]
    BY <1>1 DEF AInv, HoldsPlaced
  <2> QED  BY <1>1, <1>6, <2>1, <2>2 DEF HoldsPlaced
<1>8. DeathsKnown'  BY <1>1, <1>5, <1>6 DEF AInv, DeathsKnown
<1>9. IndexRight' /\ AlwaysCovers' /\ AlwaysNear'
  BY <1>1 DEF AInv, IndexRight, AlwaysCovers, AlwaysNear
<1>10. NearCovers'  BY <1>1 DEF AInv, NearCovers, MustLive
<1>11. FillCovers'  BY <1>1 DEF AInv, FillCovers
<1>12. Strays'
  <2>1. CASE mem' = mem  BY <2>1 DEF AInv, Strays
  <2>2. CASE mem' = [mem EXCEPT ![p] = Born(Scene[act][L])]
    <3>1. Abs(Born(Scene[act][L]).x - SpawnX[Born(Scene[act][L]).of]) <= Drift
      BY <1>4, StraysAtSpawn
    <3>2. ASSUME NEW q \in Slots PROVE mem'[q] = mem[q] \/ mem'[q] = Born(Scene[act][L])
      BY <2>2 DEF IInv, TypeOK
    <3> QED  BY <3>1, <3>2 DEF AInv, Strays
  <2> QED  BY <1>1, <1>3, <2>1, <2>2
<1>13. LoosePinned'
  <2>1. ASSUME Alive(L)', At(L)'.loose PROVE L \in always'
    <3>1. Scene[act][L] \in Managers  BY <1>4, <1>5, <2>1, BornFacts
    <3> QED  BY <1>1, <1>4, <3>1 DEF AInv, AlwaysCovers, Pinned
  <2>2. ASSUME NEW M \in resid, Alive(M), At(M).loose, M \notin late, M < SP
        PROVE  M \in always'
    <3>1. M \notin todo  BY <1>1 DEF IInv, Pending
    <3> QED  BY <1>1, <2>2, <3>1 DEF AInv, LoosePinned
  <2> QED  BY <1>1, <1>6, <2>1, <2>2 DEF LoosePinned
<1> QED  BY <1>7, <1>8, <1>9, <1>10, <1>11, <1>12, <1>13 DEF AInv

LEMMA StreamDoneAInv == ASSUME IInv, AInv, StreamDone PROVE AInv'
<1>1. /\ phase = "fill" /\ phase' = "run" /\ (todo = {} \/ free = {})
      /\ UNCHANGED <<act, remap, mem, free, resid, life, index, always, near, cam,
                     killed, late>>
  BY DEF StreamDone, pool, scan
<1>2. HoldsPlaced' /\ DeathsKnown' /\ Strays'
  BY <1>1 DEF AInv, HoldsPlaced, DeathsKnown, Strays, Alive, At
<1>3. IndexRight' /\ AlwaysCovers' /\ AlwaysNear' /\ FillCovers'
  BY <1>1 DEF AInv, IndexRight, AlwaysCovers, AlwaysNear, FillCovers
<1>4. NearCovers'  BY <1>1 DEF AInv, NearCovers, MustLive
<1>5. LoosePinned'
  <2>1. \A L \in resid : L \notin todo  BY <1>1 DEF IInv, Pending
  <2> QED  BY <1>1, <2>1 DEF AInv, LoosePinned, Alive, At
<1> QED  BY <1>2, <1>3, <1>4, <1>5 DEF AInv

\* A step of the loop writes one resident and leaves the rest of the tick alone.
LEMMA LoopAInv ==
  ASSUME IInv, AInv, phase = "run", NEW L \in resid, Alive(L), NEW e \in Live \cup {Blank},
         mem' = [mem EXCEPT ![remap[L]] = e],
         UNCHANGED <<act, remap, free, resid, life, index, near, cam, phase>>,
         always \subseteq always',
         todo \subseteq todo' \cup {L}, late \subseteq late' \cup {L},
         killed' = IF e = Blank THEN killed \cup {L} ELSE killed,
         e # Blank => e.of = At(L).of /\ Abs(e.x - SpawnX[At(L).of]) <= Drift,
         e # Blank /\ e.loose /\ L < SP => L \in always' \cup todo' \cup late'
  PROVE  AInv'
<1>1. L \in Slots /\ resid \subseteq Slots  BY DEF IInv, TypeOK
<1>2. At(L)' = e /\ \A M \in Slots : M # L => At(M)' = At(M)
  BY WriteFacts DEF IInv
<1>3. /\ Alive(L)' <=> e # Blank
      /\ \A M \in resid : M # L => (Alive(M)' <=> Alive(M)) /\ At(M)' = At(M)
  BY <1>1, <1>2, BlankFacts DEF Alive
<1>4. HoldsPlaced'
  <2>1. \A M \in resid : Alive(M) => At(M).of = Scene[act][M]  BY DEF AInv, HoldsPlaced
  <2>2. ASSUME NEW M \in resid, Alive(M)' PROVE At(M)'.of = Scene[act][M]
    <3>1. CASE M = L  BY <3>1, <2>1, <2>2, <1>2, <1>3
    <3>2. CASE M # L  BY <3>2, <2>1, <2>2, <1>3
    <3> QED  BY <3>1, <3>2
  <2> QED  BY <2>2 DEF HoldsPlaced
<1>5. DeathsKnown'  BY <1>3 DEF AInv, DeathsKnown
<1>6. IndexRight' /\ AlwaysCovers' /\ AlwaysNear' /\ FillCovers'
  BY DEF AInv, IndexRight, AlwaysCovers, AlwaysNear, FillCovers
<1>7. NearCovers'  BY DEF AInv, NearCovers, MustLive
<1>8. Strays'
  <2>1. remap[L] \in Slots /\ mem[remap[L]] = At(L)  BY <1>1 DEF IInv, TypeOK, At
  <2>2. ASSUME NEW q \in Slots PROVE mem'[q] = mem[q] \/ mem'[q] = e
    BY DEF IInv, TypeOK
  <2> QED  BY <2>2 DEF AInv, Strays
<1>9. LoosePinned'
  <2>1. ASSUME NEW M \in resid, Alive(M)', At(M)'.loose, M \notin late', M < SP
        PROVE  M \in always' \cup todo'
    <3>1. CASE M = L  BY <3>1, <2>1, <1>2, <1>3
    <3>2. CASE M # L
      <4>1. M \in always \cup todo  BY <3>2, <2>1, <1>3 DEF AInv, LoosePinned
      <4> QED  BY <4>1, <3>2
    <3> QED  BY <3>1, <3>2
  <2> QED  BY <2>1 DEF LoosePinned
<1> QED  BY <1>4, <1>5, <1>6, <1>7, <1>8, <1>9 DEF AInv

\* Where a live resident is.
LEMMA StrayOf ==
  ASSUME IInv, AInv, NEW L \in Slots, Alive(L)
  PROVE  Abs(At(L).x - SpawnX[At(L).of]) <= Drift
<1>1. remap[L] \in Slots /\ At(L) # Blank  BY BlankFacts DEF IInv, TypeOK, Alive
<1> QED  BY <1>1 DEF AInv, Strays, At

LEMMA VisitAInv == ASSUME IInv, AInv, NEW L \in todo, Visit(L) PROVE AInv'
<1>1. /\ phase = "run" /\ L \in Slots /\ L \in resid /\ Alive(L)
      /\ todo' = todo \ {L} /\ late' = late \ {L}
      /\ UNCHANGED <<act, remap, free, resid, life, index, near, cam, phase, fresh, built>>
  BY VisitFacts
<1>2. PICK e \in Live \cup {Blank} :
        /\ e = Blank \/ e = At(L) \/
             (e.of = At(L).of /\ \E d \in -Drift .. Drift : e.x = SpawnX[At(L).of] + d)
        /\ mem' = [mem EXCEPT ![remap[L]] = e]
        /\ always' = IF PinnedByVisit(L, e) THEN always \cup {L} ELSE always
        /\ killed' = IF e = Blank THEN killed \cup {L} ELSE killed
  BY VisitFacts
<1>3. ASSUME e # Blank PROVE e.of = At(L).of /\ Abs(e.x - SpawnX[At(L).of]) <= Drift
  <2>1. CASE e = At(L)  BY <1>1, <2>1, StrayOf
  <2>2. CASE e.of = At(L).of /\ \E d \in -Drift .. Drift : e.x = SpawnX[At(L).of] + d
    <3>1. PICK d \in -Drift .. Drift : e.x = SpawnX[At(L).of] + d  BY <2>2
    <3>2. At(L).of \in Items  BY <1>1, AtType, BlankFacts DEF IInv
    <3>3. SpawnX[At(L).of] \in Int /\ Drift \in Nat  BY <3>2, DriftAssumption
    <3> QED  BY <2>2, <3>1, <3>3 DEF Abs
  <2> QED  BY <1>2, <1>3, <2>1, <2>2
<1>4. ASSUME e # Blank, e.loose, L < SP PROVE L \in always'
  BY <1>2, <1>4 DEF PinnedByVisit
<1>5. always \subseteq always' /\ todo \subseteq todo' \cup {L} /\ late \subseteq late' \cup {L}
  BY <1>1, <1>2
<1> QED  BY <1>1, <1>2, <1>3, <1>4, <1>5, LoopAInv

LEMMA KillAInv == ASSUME IInv, AInv, NEW L \in resid, Kill(L) PROVE AInv'
<1>1. /\ phase = "run" /\ Alive(L) /\ mem' = [mem EXCEPT ![remap[L]] = Blank]
      /\ killed' = killed \cup {L} /\ always' = always
      /\ todo' = todo \ {L} /\ late' = late \ {L}
      /\ UNCHANGED <<act, remap, free, resid, life, index, near, cam, phase, fresh, built>>
  BY DEF Kill, scan
<1>2. /\ always \subseteq always' /\ todo \subseteq todo' \cup {L}
      /\ late \subseteq late' \cup {L} /\ Blank \in Live \cup {Blank}
      /\ killed' = IF Blank = Blank THEN killed \cup {L} ELSE killed
  BY <1>1
<1> QED  BY <1>1, <1>2, LoopAInv

LEMMA LoosenAInv == ASSUME IInv, AInv, NEW L \in resid, Loosen(L) PROVE AInv'
<1>1. /\ phase = "run" /\ Alive(L) /\ L \in Slots
      /\ UNCHANGED <<act, remap, free, resid, life, index, always, near, cam, phase,
                     todo, fresh, built, killed>>
      /\ late' = IF L \in todo THEN late ELSE late \cup {L}
  BY LoosenFacts
<1>2. PICK e \in Live : /\ mem' = [mem EXCEPT ![remap[L]] = e]
                       /\ e.of = At(L).of /\ e.x = At(L).x
  BY LoosenFacts
<1>3. e # Blank /\ e \in Live \cup {Blank}  BY BlankFacts
<1>4. Abs(e.x - SpawnX[At(L).of]) <= Drift  BY <1>1, <1>2, StrayOf
<1>5. /\ always \subseteq always' /\ todo \subseteq todo' \cup {L}
      /\ late \subseteq late' \cup {L} /\ L \in always' \cup todo' \cup late'
  BY <1>1
<1>6. killed' = IF e = Blank THEN killed \cup {L} ELSE killed  BY <1>1, <1>3
<1> QED  BY <1>1, <1>2, <1>3, <1>4, <1>5, <1>6, LoopAInv

LEMMA TickEndAInv == ASSUME IInv, AInv, TickEnd PROVE AInv'
<1>1. /\ phase = "run" /\ phase' = "idle"
      /\ UNCHANGED <<act, remap, mem, free, resid, life, index, always, near, cam, todo,
                     killed, late>>
  BY DEF TickEnd, pool, scan
<1>2. HoldsPlaced' /\ DeathsKnown' /\ LoosePinned' /\ Strays'
  BY <1>1 DEF AInv, HoldsPlaced, DeathsKnown, LoosePinned, Strays, Alive, At
<1>3. IndexRight' /\ AlwaysCovers' /\ NearCovers' /\ AlwaysNear' /\ FillCovers'
  BY <1>1 DEF AInv, IndexRight, AlwaysCovers, NearCovers, AlwaysNear, FillCovers
<1> QED  BY <1>2, <1>3 DEF AInv

LEMMA StutterAInv == ASSUME IInv, AInv, UNCHANGED vars PROVE AInv'
<1>1. UNCHANGED <<act, remap, mem, free, resid, life, index, always, near, cam, phase,
                  todo, killed, late>>
  BY DEF vars, pool, scan
<1>2. HoldsPlaced' /\ DeathsKnown' /\ LoosePinned' /\ Strays'
  BY <1>1 DEF AInv, HoldsPlaced, DeathsKnown, LoosePinned, Strays, Alive, At
<1>3. IndexRight' /\ AlwaysCovers' /\ AlwaysNear' /\ FillCovers'
  BY <1>1 DEF AInv, IndexRight, AlwaysCovers, AlwaysNear, FillCovers
<1>4. NearCovers'  BY <1>1 DEF AInv, NearCovers, MustLive
<1> QED  BY <1>2, <1>3, <1>4 DEF AInv

LEMMA NextAInv == ASSUME OneAct, IInv, IInv', AInv, [Next]_vars PROVE AInv'
<1>1. ASSUME NEW a \in Acts, NEW c \in Spawns, NEW born \in SUBSET Placed(a),
             LoadScene(a, born, c)
      PROVE  AInv'
  BY <1>1, LoadAInv
<1>2. CASE FrameIndex  BY <1>2, FrameIndexAInv
<1>3. ASSUME NEW c \in Cams, Camera(c) PROVE AInv'  BY <1>3, CameraAInv
<1>4. CASE StreamOut  BY <1>4, StreamOutAInv
<1>5. ASSUME NEW L \in todo, NEW p \in free, NEW lives \in BOOLEAN, Materialise(L, p, lives)
      PROVE  AInv'
  BY <1>5, MaterialiseAInv
<1>6. CASE StreamDone  BY <1>6, StreamDoneAInv
<1>7. ASSUME NEW L \in todo, Visit(L) PROVE AInv'  BY <1>7, VisitAInv
<1>8. ASSUME NEW L \in resid, Kill(L) PROVE AInv'  BY <1>8, KillAInv
<1>9. ASSUME NEW L \in resid, Loosen(L) PROVE AInv'  BY <1>9, LoosenAInv
<1>10. CASE TickEnd  BY <1>10, TickEndAInv
<1>11. CASE UNCHANGED vars  BY <1>11, StutterAInv
<1> QED  BY <1>1, <1>2, <1>3, <1>4, <1>5, <1>6, <1>7, <1>8, <1>9, <1>10, <1>11 DEF Next

LEMMA AInvAlways == OneAct /\ Spec => [](IInv /\ AInv)
<1> SUFFICES ASSUME OneAct PROVE Spec => [](IInv /\ AInv)  OBVIOUS
<1>1. IInv /\ IInv' /\ AInv /\ [Next]_vars => AInv'  BY NextAInv
<1> QED  BY InitAInv, IInvAlways, <1>1, PTL DEF Spec

LEMMA NearInv == ASSUME IInv, AInv PROVE NearLive
<1>1. ASSUME phase = "run", NEW L \in Placed(act) \ killed, MustLive(Scene[act][L]), free # {}
      PROVE  Alive(L) /\ At(L).of = Scene[act][L]
  <2>1. L \in Slots  BY DEF Placed
  <2>2. L \in DOMAIN index  BY <1>1, <2>1 DEF IInv, Indexed
  <2>3. L \in near  BY <1>1, <2>2 DEF AInv, NearCovers
  <2>4. L \in resid  BY <1>1, <2>3 DEF AInv, FillCovers, DeathsKnown
  <2>5. Alive(L)  BY <1>1, <2>4 DEF AInv, DeathsKnown
  <2> QED  BY <1>1, <2>4, <2>5 DEF AInv, HoldsPlaced
<1> QED  BY <1>1 DEF NearLive

\* What the scene placed near the camera is in the pool when the loop runs.
THEOREM NearTheorem == OneAct /\ Spec => []NearLive
  BY NearInv, AInvAlways, PTL

\* With one act the index the stream materialises from is that act's, so a
\* resident is what its scene placed; the entity_pool_acts run shows what a second
\* act does to it.
THEOREM HoldsTheorem == OneAct /\ Spec => []HoldsPlaced
<1>1. AInv => HoldsPlaced  BY DEF AInv
<1> QED  BY <1>1, AInvAlways, PTL

\* What is not active everywhere and leaves the window is out of range: the
\* margin pays for the screen and for how far it has strayed.
LEMMA FarIsOutOfRange ==
  ASSUME NEW i \in Items, NEW x \in Int, cam \in Int, Abs(x - SpawnX[i]) <= Drift,
         Abs(x - cam) <= Reach[i] + Offset, ~Pinned(i)
  PROVE  Near(SpawnX[i], cam)
<1>1. /\ SpawnX[i] \in Int /\ Reach[i] \in Nat /\ Window \in Nat /\ Margin \in Nat
      /\ Offset \in Nat /\ Drift \in Nat /\ Offset + Drift <= Margin
  BY DriftAssumption
<1>2. Reach[i] + Margin <= Window  BY <1>1 DEF Pinned
<1> QED  BY <1>1, <1>2 DEF Near, Abs

\* Only the stream takes residents away without a load.
LEMMA OnlyTheStream ==
  ASSUME [Next]_vars, NEW L \in Slots, Lost(L) PROVE StreamOut
<1>1. L \in resid /\ L \notin resid' /\ ~fresh'  BY DEF Lost
<1>2. \A a \in Acts, c \in Spawns : \A born \in SUBSET Placed(a) : ~LoadScene(a, born, c)
  BY <1>1 DEF LoadScene
<1>3. ~FrameIndex /\ ~StreamDone /\ ~TickEnd /\ ~UNCHANGED vars
  BY <1>1 DEF FrameIndex, StreamDone, TickEnd, pool, vars
<1>4. \A c \in Cams : ~Camera(c)  BY <1>1 DEF Camera, pool
<1>5. \A M \in todo, p \in free, lives \in BOOLEAN : ~Materialise(M, p, lives)
  BY <1>1 DEF Materialise
<1>6. \A M \in todo : ~Visit(M)  BY <1>1 DEF Visit
<1>7. \A M \in resid : ~Kill(M) /\ ~Loosen(M)  BY <1>1 DEF Kill, Loosen
<1>8. Next  BY <1>3
<1> HIDE DEF Next
<1> QED  BY <1>2, <1>3, <1>4, <1>5, <1>6, <1>7, <1>8, Zenon DEF Next

LEMMA LostIsExempt ==
  ASSUME IInv, AInv, [Next]_vars, NEW L \in Slots, Lost(L)
  PROVE  At(L).loose /\ ~Pinned(At(L).of) /\ (L \in late \/ L >= SP)
<1>1. StreamOut  BY OnlyTheStream
<1>2. /\ phase = "drop" /\ L \in resid /\ Alive(L) /\ InRange(At(L)) /\ L \notin resid'
      /\ resid' = resid \ (Dead \cup Far)
  BY <1>1 DEF Lost, StreamOut
<1>3. L \notin near  BY <1>2 DEF Dead, Far
<1>4. L \in DOMAIN index /\ At(L).of = Scene[act][L] /\ At(L) \in Live
  BY <1>2, AtType DEF IInv, Indexed, AInv, HoldsPlaced
<1>5. ~Pinned(At(L).of) /\ ~Near(SpawnX[At(L).of], cam)
  BY <1>2, <1>3, <1>4 DEF AInv, NearCovers, MustLive
<1>6. At(L).loose
  <2>1. At(L).of \in Items /\ At(L).x \in Int /\ cam \in Int
    BY <1>4, BlankFacts DEF IInv, TypeOK
  <2>2. Abs(At(L).x - SpawnX[At(L).of]) <= Drift  BY <1>2, StrayOf
  <2> QED  BY <1>2, <1>5, <2>1, <2>2, FarIsOutOfRange DEF InRange
<1>7. L \in late \/ ~(L < SP)
  <2>1. todo = {}  BY <1>2 DEF IInv, Pending
  <2>2. L \notin always  BY <1>2, <1>3 DEF AInv, AlwaysNear
  <2> QED  BY <1>2, <1>6, <2>1, <2>2 DEF AInv, LoosePinned
<1>8. L \in Int /\ SP \in Int  BY DEF Slots
<1> QED  BY <1>5, <1>6, <1>7, <1>8

\* The stream takes away nothing that is in range.
THEOREM VanishTheorem == OneAct /\ Spec => NoneVanishes
<1>1. IInv /\ AInv /\ [Next]_vars =>
        [\A L \in Slots : Lost(L) =>
            /\ At(L).loose /\ ~Pinned(At(L).of)
            /\ L \in late \/ L >= SP]_vars
  BY LostIsExempt
<1> QED  BY <1>1, AInvAlways, PTL DEF Spec, NoneVanishes

================================================================================
