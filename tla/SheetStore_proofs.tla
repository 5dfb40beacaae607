--------------------------- MODULE SheetStore_proofs ---------------------------
(***************************************************************************)
(* Theorems about SheetStore for any sizes of the sheets, the blobs and the   *)
(* store and any number of failed reads.  What is live stays in front of the *)
(* cursor, so what is allocated next is apart from it; a blob keeps its      *)
(* number until the rewind that also clears every way to it.                *)
(***************************************************************************)
EXTENDS SheetStore, WellFoundedInduction, TLAPS

IInv == TypeOK /\ StoreDisjoint /\ RouteOwn

USE SizesAssumption

\* what a step leaves alone of the store
Untouched == UNCHANGED <<resident, frds, route, bound, cursor>>

LEMMA NoneIsNoPlace == None \notin Nat /\ Unbound \notin Nat /\ Unbound # 0
  BY DEF None, Unbound

LEMMA OverSubset ==
  ASSUME NEW c, NEW w PROVE Over(c, w) \subseteq c
  BY DEF Over

LEMMA PlacedType ==
  ASSUME NEW c, c \subseteq Extents, NEW e \in Extents PROVE Placed(c, e) \subseteq Extents
  BY OverSubset DEF Placed

LEMMA RegistryFacts ==
  ASSUME TypeOK
  PROVE  /\ frds \in Seq(Sheets \X Nat) /\ Len(frds) \in Nat /\ DOMAIN frds = 1 .. Len(frds)
         /\ \A i \in DOMAIN frds : frds[i][1] \in Sheets /\ frds[i][2] \in Nat
<1> DEFINE S == Sheets \X Nat
<1>1. frds \in Seq(S)  BY DEF TypeOK
<1> HIDE DEF S
<1>2. Len(frds) \in Nat /\ DOMAIN frds = 1 .. Len(frds) /\ \A i \in DOMAIN frds : frds[i] \in S
  BY <1>1
<1> QED  BY <1>1, <1>2 DEF S

LEMMA AppendFacts ==
  ASSUME TypeOK, NEW blob \in Sheets \X Nat, frds' = Append(frds, blob)
  PROVE  /\ frds' \in Seq(Sheets \X Nat) /\ Len(frds) \in Nat /\ Len(frds') = Len(frds) + 1
         /\ DOMAIN frds' = DOMAIN frds \cup {Len(frds) + 1}
         /\ frds'[Len(frds) + 1] = blob /\ \A i \in DOMAIN frds : frds'[i] = frds[i]
<1> DEFINE S == Sheets \X Nat
<1>1. frds \in Seq(S) /\ blob \in S /\ Len(frds) \in Nat /\ DOMAIN frds = 1 .. Len(frds)
  BY RegistryFacts
<1> HIDE DEF S
<1>2. frds' \in Seq(S) /\ Len(frds') = Len(frds) + 1  BY <1>1
<1>3. frds'[Len(frds) + 1] = blob /\ \A i \in DOMAIN frds : frds'[i] = frds[i]  BY <1>1
<1>4. DOMAIN frds' = 1 .. Len(frds) + 1  BY <1>1, <1>2
<1>5. DOMAIN frds' = DOMAIN frds \cup {Len(frds) + 1}  BY <1>1, <1>4
<1> QED  BY <1>1, <1>2, <1>3, <1>5 DEF S

LEMMA BlobFacts ==
  ASSUME TypeOK, NEW s \in Sheets
  PROVE  /\ Blob(s) \in Nat
         /\ Blob(s) # 0 => Blob(s) \in DOMAIN frds /\ frds[Blob(s)][1] = s
<1> DEFINE slots == {i \in DOMAIN frds : frds[i][1] = s}
<1>1. Blob(s) = IF slots = {} THEN 0 ELSE CHOOSE i \in slots : \A j \in slots : i <= j
  BY DEF Blob
<1>2. CASE slots = {}
  BY <1>1, <1>2
<1>3. CASE slots # {}
  <2>1. slots \subseteq Nat  BY RegistryFacts
  <2>2. PICK i \in slots : \A j \in slots : <<j, i>> \notin OpToRel(<, Nat)
    BY <2>1, <1>3, NatLessThanWellFounded, WFMin
  <2>3. \A j \in slots : i <= j
    <3>1. OpToRel(<, Nat) = {ss \in Nat \X Nat : ss[1] < ss[2]}  BY DEF OpToRel
    <3>2. ASSUME NEW j \in slots PROVE i <= j
      <4>1. i \in Nat /\ j \in Nat /\ <<j, i>> \in Nat \X Nat  BY <2>1
      <4>2. ~(j < i)  BY <2>2, <3>1, <4>1
      <4> QED  BY <4>1, <4>2
    <3> QED  BY <3>2
  <2> QED  BY <1>1, <1>3, <2>1, <2>3
<1> QED  BY <1>2, <1>3

LEMMA AtLeastFacts ==
  ASSUME TypeOK, NEW floor \in Nat
  PROVE  AtLeast(floor) \in Nat /\ cursor <= AtLeast(floor)
         /\ (floor <= End => AtLeast(floor) <= End)
  BY DEF AtLeast, TypeOK

LEMMA ExtentFacts ==
  /\ \A e \in Extents : SizeOf(e) \in Nat \ {0} /\ e[3] \in Nat
  /\ \A s \in Sheets, at \in Nat :
       /\ <<"res", s, at>> \in Extents /\ SizeOf(<<"res", s, at>>) = Raw[s]
       /\ <<"frd", s, at>> \in Extents /\ SizeOf(<<"frd", s, at>>) = Frd[s]
  BY DEF Extents, SizeOf

LEMMA LiveType ==
  ASSUME TypeOK PROVE Live \subseteq Extents
<1>1. \A s \in Sheets : resident[s] # None => resident[s] \in Nat  BY DEF TypeOK
<1>2. \A s \in Sheets : resident[s] # None => <<"res", s, resident[s]>> \in Extents
  BY <1>1, ExtentFacts
<1>3. \A i \in DOMAIN frds : <<"frd", frds[i][1], frds[i][2]>> \in Extents
  BY RegistryFacts, ExtentFacts
<1> QED  BY <1>2, <1>3 DEF Live

\* an extent allocated behind the cursor is apart from all that is live
LEMMA Allocated ==
  ASSUME TypeOK, StoreDisjoint, NEW e \in Extents, cursor <= e[3],
         Live' \subseteq Live \cup {e}, cursor' = e[3] + SizeOf(e)
  PROVE  StoreDisjoint'
<1> DEFINE before == Live
           after == Live'
<1>1. /\ before \subseteq Extents
      /\ \A f \in before : f[3] + SizeOf(f) <= cursor
      /\ \A f, g \in before : f # g => f[3] + SizeOf(f) <= g[3] \/ g[3] + SizeOf(g) <= f[3]
  BY LiveType DEF StoreDisjoint
<1>2. cursor \in Nat  BY DEF TypeOK
<1>3. after \subseteq before \cup {e}  OBVIOUS
<1>4. \A f \in after : f[3] + SizeOf(f) <= cursor'
  BY <1>1, <1>2, <1>3, ExtentFacts
<1>5. \A f, g \in after : f # g => f[3] + SizeOf(f) <= g[3] \/ g[3] + SizeOf(g) <= f[3]
  BY <1>1, <1>2, <1>3, ExtentFacts
<1> QED  BY <1>4, <1>5 DEF StoreDisjoint, SizeOf

LEMMA CursorAdvances ==
  ASSUME TypeOK, StoreDisjoint, UNCHANGED <<resident, frds>>,
         cursor' \in Nat, cursor <= cursor'
  PROVE  StoreDisjoint'
<1>1. Live' = Live  BY DEF Live
<1>2. \A e \in Live : e[3] + SizeOf(e) \in Nat  BY LiveType, ExtentFacts
<1>3. \A e \in Live : e[3] + SizeOf(e) <= cursor'  BY <1>2 DEF StoreDisjoint, TypeOK
<1> QED  BY <1>1, <1>3 DEF StoreDisjoint, SizeOf

-------------------------------------------------------------------------------
(* The steps.                                                                *)

LEMMA InitIInv == Init => IInv
<1> SUFFICES ASSUME Init PROVE IInv  OBVIOUS
<1> USE DEF Init
<1>1. TypeOK
  <2>1. frds \in Seq(Sheets \X Nat) /\ Len(frds) <= FrdSlots  OBVIOUS
  <2>2. faults \in 0 .. MaxFaults /\ cursor \in 0 .. End  OBVIOUS
  <2>3. /\ resident \in [Sheets -> Nat \cup {None}] /\ route \in [Sheets -> Nat]
        /\ bound \in [Sheets -> Nat \cup {Unbound}]
    OBVIOUS
  <2> QED  BY <2>1, <2>2, <2>3 DEF TypeOK, Legs
<1>2. Live = {}  BY DEF Live
<1>3. StoreDisjoint  BY <1>2 DEF StoreDisjoint
<1>4. RouteOwn  BY DEF RouteOwn, Unbound
<1> QED  BY <1>1, <1>3, <1>4 DEF IInv

\* a failed read is counted, and up to the bound
LEMMA MissType ==
  ASSUME TypeOK, NEW what \in {"sheet", "scratch"}, NEW n \in Nat, Miss(what, n)
  PROVE  faults' \in 0 .. MaxFaults /\ missed' \subseteq {"sheet", "scratch"}
  BY DEF Miss, TypeOK

LEMMA ReadType ==
  ASSUME TypeOK, NEW what \in {"sheet", "scratch"}, NEW ok, Read(what, ok)
  PROVE  faults' \in 0 .. MaxFaults /\ missed' \subseteq {"sheet", "scratch"}
  BY MissType DEF Read

LEMMA AtType == ASSUME TypeOK, NEW op, NEW s, At(op, s) PROVE pc' \in Nat
  BY DEF At, TypeOK

LEMMA UntouchedKeeps ==
  ASSUME IInv, Untouched PROVE StoreDisjoint' /\ RouteOwn'
<1>1. StoreDisjoint'  BY CursorAdvances DEF IInv, TypeOK, Untouched
<1>2. RouteOwn'  BY DEF IInv, RouteOwn, Untouched
<1> QED  BY <1>1, <1>2

LEMMA StageIInv == ASSUME IInv, NEW s \in Sheets, Stage(s) PROVE IInv'
<1>1. Untouched  BY DEF Stage, storeVars, Untouched
<1>2. PICK ok \in BOOLEAN : Read("sheet", ok) /\ staged' = IF ok THEN staged \cup {s} ELSE staged
  BY DEF Stage
<1>3. faults' \in 0 .. MaxFaults /\ missed' \subseteq {"sheet", "scratch"}
  BY <1>2, ReadType DEF IInv
<1>4. cart' \subseteq cart  BY OverSubset DEF Stage
<1>5. pc' \in Nat  BY AtType DEF Stage, IInv
<1>6. TypeOK'  BY <1>1, <1>2, <1>3, <1>4, <1>5 DEF Stage, IInv, TypeOK, Untouched, skyVars
<1> QED  BY <1>1, <1>6, UntouchedKeeps DEF IInv

LEMMA MakeResidentKeeps ==
  ASSUME IInv, NEW s \in Sheets, MakeResident(s), UNCHANGED frds
  PROVE  /\ StoreDisjoint'
         /\ resident' \in [Sheets -> Nat \cup {None}] /\ cart' \subseteq Extents
         /\ cursor' \in 0 .. End
<1> DEFINE e == <<"res", s, cursor>>
<1>0. cursor \in Nat /\ cursor \in 0 .. End  BY DEF IInv, TypeOK
<1>1. CASE s \in staged /\ Fits(cursor, Raw[s])
  <2>1. /\ resident' = [resident EXCEPT ![s] = cursor] /\ cart' = Placed(cart, e)
        /\ cursor' = cursor + Raw[s] /\ cursor + Raw[s] <= End
    BY <1>1 DEF MakeResident, Claimed, Fits
  <2>2. e \in Extents /\ SizeOf(e) = Raw[s] /\ e[3] = cursor  BY <1>0, ExtentFacts
  <2>3. Live' \subseteq Live \cup {e}
    BY <2>1 DEF Live, IInv, TypeOK
  <2>4. StoreDisjoint'
    <3>1. cursor <= e[3] /\ cursor' = e[3] + SizeOf(e)  BY <1>0, <2>1, <2>2
    <3> HIDE DEF e
    <3> QED  BY <2>2, <2>3, <3>1, Allocated DEF IInv
  <2>5. cart' \subseteq Extents  BY <2>1, <2>2, PlacedType DEF IInv, TypeOK
  <2>6. resident' \in [Sheets -> Nat \cup {None}]  BY <1>0, <2>1 DEF IInv, TypeOK
  <2>7. cursor' \in 0 .. End  BY <1>0, <2>1
  <2> QED  BY <2>4, <2>5, <2>6, <2>7
<1>2. CASE ~(s \in staged /\ Fits(cursor, Raw[s]))
  <2>1. UNCHANGED <<resident, cart, cursor>>  BY <1>2 DEF MakeResident
  <2> QED  BY <1>0, <2>1, CursorAdvances DEF IInv, TypeOK
<1> QED  BY <1>1, <1>2

LEMMA PromoteIInv ==
  ASSUME IInv, NEW s \in Sheets, Promote(s) \/ Fallback(s) PROVE IInv'
<1>1. UNCHANGED <<leg, staged, frds, route, bound, skyVars, faultVars>>
  BY DEF Promote, Fallback
<1>2. /\ StoreDisjoint' /\ resident' \in [Sheets -> Nat \cup {None}]
      /\ cart' \subseteq Extents /\ cursor' \in 0 .. End
  <2>1. CASE MakeResident(s)  BY <1>1, <2>1, MakeResidentKeeps
  <2>2. CASE UNCHANGED <<resident, cart, cursor>>
    BY <1>1, <2>2, CursorAdvances DEF IInv, TypeOK
  <2> QED  BY <2>1, <2>2 DEF Promote, Fallback
<1>3. pc' \in Nat  BY AtType DEF Promote, Fallback, IInv
<1>4. TypeOK'  BY <1>1, <1>2, <1>3 DEF IInv, TypeOK, skyVars, faultVars
<1>5. RouteOwn'  BY <1>1 DEF IInv, RouteOwn
<1> QED  BY <1>2, <1>4, <1>5 DEF IInv

LEMMA RoutedType ==
  ASSUME TypeOK, NEW s \in Sheets, NEW n \in Nat
  PROVE  /\ Routed(s, n) \in [Sheets -> Nat]
         /\ \A t \in Sheets : Routed(s, n)[t] = route[t] \/ (t = s /\ Routed(s, n)[t] = n)
  BY DEF Routed, TypeOK

LEMMA FrdFoundKeeps ==
  ASSUME IInv, NEW s \in Sheets, Blob(s) # 0, FrdFound(s), UNCHANGED <<resident, bound>>
  PROVE  /\ StoreDisjoint' /\ RouteOwn' /\ route' \in [Sheets -> Nat]
<1>1. /\ Blob(s) \in Nat /\ Blob(s) \in DOMAIN frds /\ frds[Blob(s)][1] = s
  BY BlobFacts DEF IInv
<1>2. PICK n \in Nat : n = Blob(s)  BY <1>1
<1>3. route' = Routed(s, n)  BY <1>2 DEF FrdFound
<1>4. /\ route' \in [Sheets -> Nat]
      /\ \A t \in Sheets : route'[t] = route[t] \/ (t = s /\ route'[t] = n)
  BY <1>3, RoutedType DEF IInv
<1>5. RouteOwn'  BY <1>1, <1>2, <1>4 DEF FrdFound, IInv, RouteOwn
<1>6. StoreDisjoint'  BY CursorAdvances DEF FrdFound, IInv, TypeOK
<1> QED  BY <1>4, <1>5, <1>6

LEMMA FrdLoadedKeeps ==
  ASSUME IInv, NEW s \in Sheets, FrdLoaded(s), UNCHANGED <<resident, bound>>
  PROVE  /\ StoreDisjoint' /\ RouteOwn' /\ route' \in [Sheets -> Nat]
         /\ frds' \in Seq(Sheets \X Nat) /\ Len(frds') <= FrdSlots
         /\ cursor' \in 0 .. End /\ cart' \subseteq Extents
<1>1. PICK at \in Nat : at = AtLeast(FrdFloor)  BY AtLeastFacts DEF IInv, FrdFloor
<1>2. cursor <= at  BY <1>1, AtLeastFacts DEF IInv, FrdFloor
<1> DEFINE e == <<"frd", s, at>>
<1>3. /\ at + Frd[s] <= End /\ Len(frds) < FrdSlots
      /\ frds' = Append(frds, <<s, at>>) /\ route' = Routed(s, Len(frds) + 1)
      /\ cursor' = at + Frd[s] /\ cart' = Placed(cart, e)
  BY <1>1 DEF FrdLoaded, Fits, Claimed
<1>4. /\ frds' \in Seq(Sheets \X Nat) /\ Len(frds') = Len(frds) + 1 /\ Len(frds) \in Nat
      /\ DOMAIN frds' = DOMAIN frds \cup {Len(frds) + 1}
      /\ \A i \in DOMAIN frds : frds'[i] = frds[i]
      /\ frds'[Len(frds) + 1] = <<s, at>>
  <2>1. PICK blob \in Sheets \X Nat : blob = <<s, at>>  OBVIOUS
  <2>2. frds' = Append(frds, blob) /\ TypeOK  BY <1>3, <2>1 DEF IInv
  <2>3. /\ frds' \in Seq(Sheets \X Nat) /\ Len(frds) \in Nat /\ Len(frds') = Len(frds) + 1
        /\ DOMAIN frds' = DOMAIN frds \cup {Len(frds) + 1}
        /\ frds'[Len(frds) + 1] = blob /\ \A i \in DOMAIN frds : frds'[i] = frds[i]
    BY <2>1, <2>2, AppendFacts
  <2> QED  BY <2>1, <2>3
<1>5. e \in Extents /\ SizeOf(e) = Frd[s] /\ e[3] = at  BY ExtentFacts
<1>6. Live' \subseteq Live \cup {e}
  <2>1. PICK n : n = Len(frds) + 1  OBVIOUS
  <2>2. PICK blob : blob = <<s, at>>  OBVIOUS
  <2>3. /\ DOMAIN frds' = DOMAIN frds \cup {n} /\ frds'[n] = blob
        /\ \A i \in DOMAIN frds : frds'[i] = frds[i]
    BY <1>4, <2>1, <2>2
  <2>4. blob[1] = s /\ blob[2] = at  BY <2>2
  <2> QED  BY <2>3, <2>4 DEF Live
<1>7. StoreDisjoint'
  <2>1. cursor <= e[3] /\ cursor' = e[3] + SizeOf(e)  BY <1>2, <1>3, <1>5
  <2> HIDE DEF e
  <2> QED  BY <1>5, <1>6, <2>1, Allocated DEF IInv
<1>8. PICK n \in Nat : n = Len(frds) + 1  BY <1>4
<1>9. /\ route' \in [Sheets -> Nat]
      /\ \A t \in Sheets : route'[t] = route[t] \/ (t = s /\ route'[t] = n)
  <2>1. route' = Routed(s, n)  BY <1>3, <1>8
  <2> QED  BY <2>1, RoutedType DEF IInv
<1>10. RouteOwn'
  <2>1. frds'[n][1] = s /\ n \in DOMAIN frds'  BY <1>4, <1>8
  <2> QED  BY <1>4, <1>9, <2>1 DEF IInv, RouteOwn
<1>11. cart' \subseteq Extents  BY <1>3, <1>5, PlacedType DEF IInv, TypeOK
<1>12. cursor' \in 0 .. End /\ Len(frds') <= FrdSlots  BY <1>3, <1>4
<1> QED  BY <1>4, <1>7, <1>9, <1>10, <1>11, <1>12

LEMMA FrdStageIInv == ASSUME IInv, NEW s \in Sheets, FrdStage(s) PROVE IInv'
<1>1. /\ UNCHANGED <<leg, staged, resident, bound, skyVars>> /\ pc' \in Nat
  BY AtType DEF FrdStage, IInv
<1>2. CASE Blob(s) # 0 /\ FrdFound(s)
  <2>1. StoreDisjoint' /\ RouteOwn' /\ route' \in [Sheets -> Nat]
    BY <1>1, <1>2, FrdFoundKeeps
  <2>2. TypeOK'  BY <1>1, <1>2, <2>1 DEF IInv, TypeOK, FrdFound, skyVars, faultVars
  <2> QED  BY <2>1, <2>2 DEF IInv
<1>3. CASE FrdLoaded(s)
  <2>1. /\ StoreDisjoint' /\ RouteOwn' /\ route' \in [Sheets -> Nat]
        /\ frds' \in Seq(Sheets \X Nat) /\ Len(frds') <= FrdSlots
        /\ cursor' \in 0 .. End /\ cart' \subseteq Extents
    BY <1>1, <1>3, FrdLoadedKeeps
  <2>2. UNCHANGED faultVars  BY <1>3 DEF FrdLoaded
  <2>3. TypeOK'  BY <1>1, <2>1, <2>2 DEF IInv, TypeOK, skyVars, faultVars
  <2> QED  BY <2>1, <2>3 DEF IInv
<1>4. CASE FrdLeftOut(s)
  <2>1. faults' \in 0 .. MaxFaults /\ missed' \subseteq {"sheet", "scratch"}
    BY <1>4, ReadType DEF FrdLeftOut, IInv
  <2>2. UNCHANGED <<frds, route, cart>> /\ cursor' = AtLeast(FrdFloor)
    BY <1>4 DEF FrdLeftOut
  <2>3. cursor' \in Nat /\ cursor <= cursor' /\ cursor' <= End
    BY <2>2, AtLeastFacts DEF IInv, FrdFloor, AizFloor
  <2>4. StoreDisjoint'  BY <1>1, <2>2, <2>3, CursorAdvances DEF IInv
  <2>5. RouteOwn'  BY <1>1, <2>2 DEF IInv, RouteOwn
  <2>6. TypeOK'  BY <1>1, <2>1, <2>2, <2>3 DEF IInv, TypeOK, skyVars
  <2> QED  BY <2>4, <2>5, <2>6 DEF IInv
<1> QED  BY <1>2, <1>3, <1>4 DEF FrdStage

LEMMA ReclaimIInv == ASSUME IInv, Reclaim PROVE IInv'
<1>1. /\ resident' = [s \in Sheets |-> None] /\ cursor' = 0 /\ frds' = <<>>
      /\ route' = [s \in Sheets |-> 0]
      /\ bound' = [s \in Sheets |-> IF bound[s] = Unbound THEN Unbound ELSE 0]
      /\ UNCHANGED <<leg, staged, cart, skyVars, faultVars>>
  BY DEF Reclaim, CursorAfterReset, Rewound, RouteAfterReset
<1>2. pc' \in Nat  BY AtType DEF Reclaim, IInv
<1>3. Live' = {}  BY <1>1 DEF Live
<1>4. StoreDisjoint'  BY <1>3 DEF StoreDisjoint
<1>5. RouteOwn'  BY <1>1, NoneIsNoPlace DEF RouteOwn
<1>6. TypeOK'
  <2>1. frds' \in Seq(Sheets \X Nat) /\ Len(frds') <= FrdSlots /\ cursor' \in 0 .. End
    BY <1>1
  <2>2. /\ resident' \in [Sheets -> Nat \cup {None}] /\ route' \in [Sheets -> Nat]
        /\ bound' \in [Sheets -> Nat \cup {Unbound}]
    BY <1>1
  <2> QED  BY <1>1, <1>2, <2>1, <2>2 DEF IInv, TypeOK, skyVars, faultVars
<1> QED  BY <1>4, <1>5, <1>6 DEF IInv

LEMMA FloorIInv == ASSUME IInv, Floor PROVE IInv'
<1>1. /\ cursor' = AtLeast(AizFloor) /\ pc' \in Nat
      /\ UNCHANGED <<leg, staged, resident, frds, route, bound, cart, skyVars, faultVars>>
  BY AtType DEF Floor, IInv
<1>2. cursor' \in Nat /\ cursor <= cursor' /\ cursor' <= End
  BY <1>1, AtLeastFacts DEF IInv, AizFloor
<1>3. StoreDisjoint'  BY <1>1, <1>2, CursorAdvances DEF IInv
<1>4. RouteOwn'  BY <1>1 DEF IInv, RouteOwn
<1>5. TypeOK'  BY <1>1, <1>2 DEF IInv, TypeOK, skyVars, faultVars
<1> QED  BY <1>3, <1>4, <1>5 DEF IInv

\* binding and attaching lead to the sheet's own blob or to none
LEMMA BindIInv == ASSUME IInv, Arm \/ Attach PROVE IInv'
<1>1. /\ pc' \in Nat
      /\ UNCHANGED <<leg, staged, resident, frds, route, cursor, cart, skyVars, faultVars>>
  BY AtType DEF Arm, Attach, IInv
<1>2. bound' \in [Sheets -> Nat \cup {Unbound}] /\ \A s \in Sheets : bound'[s] \in {bound[s], Blob(s)}
  <2>1. \A s \in Sheets : Blob(s) \in Nat  BY BlobFacts DEF IInv
  <2> QED  BY <2>1 DEF Arm, Attach, IInv, TypeOK
<1>3. RouteOwn'  BY <1>1, <1>2, BlobFacts DEF IInv, RouteOwn
<1>4. StoreDisjoint'  BY <1>1, CursorAdvances DEF IInv, TypeOK
<1>5. TypeOK'  BY <1>1, <1>2 DEF IInv, TypeOK, skyVars, faultVars
<1> QED  BY <1>3, <1>4, <1>5 DEF IInv

LEMMA BackdropIInv == ASSUME IInv, Windows \/ Fg \/ Sky PROVE IInv'
<1>1. Untouched /\ pc' \in Nat /\ UNCHANGED <<leg, staged>>
  BY AtType DEF Windows, Fg, Sky, IInv, Untouched, storeVars
<1>2. cart' \subseteq cart
  <2>1. cart' = cart \/ \E w : cart' = Over(cart, w)  BY DEF Windows, Fg, Sky
  <2> QED  BY <2>1, OverSubset
<1>3. fg' \in BOOLEAN /\ sky' \in BOOLEAN  BY DEF Windows, Fg, Sky, IInv, TypeOK, skyVars
<1>4. faults' \in 0 .. MaxFaults /\ missed' \subseteq {"sheet", "scratch"}
  <2>1. (\E ok : Read("scratch", ok)) \/ UNCHANGED faultVars  BY DEF Windows, Fg, Sky
  <2>2. CASE UNCHANGED faultVars  BY <2>2 DEF IInv, TypeOK, faultVars
  <2> QED  BY <2>1, <2>2, ReadType DEF IInv
<1>5. TypeOK'  BY <1>1, <1>2, <1>3, <1>4 DEF IInv, TypeOK, Untouched
<1> QED  BY <1>1, <1>5, UntouchedKeeps DEF IInv

LEMMA FrameIInv == ASSUME IInv, Frame PROVE IInv'
<1>1. UNCHANGED <<leg, pc, staged, resident, frds, bound, cursor>>  BY DEF Frame
<1>2. /\ route' = [s \in Sheets |-> IF leg = "GHZ" /\ s \in staged /\ Blob(s) # 0
                                    THEN Blob(s) ELSE route[s]]
  BY DEF Frame
<1>3. route' \in [Sheets -> Nat] /\ \A s \in Sheets : route'[s] \in {route[s], Blob(s)}
  <2>1. \A s \in Sheets : Blob(s) \in Nat  BY BlobFacts DEF IInv
  <2> QED  BY <1>2, <2>1 DEF IInv, TypeOK
<1>4. RouteOwn'  BY <1>1, <1>3, BlobFacts DEF IInv, RouteOwn
<1>5. StoreDisjoint'  BY <1>1, CursorAdvances DEF IInv, TypeOK
<1>6. cart' \subseteq Extents  BY OverSubset DEF Frame, IInv, TypeOK
<1>7. fg' \in BOOLEAN /\ sky' \in BOOLEAN  BY DEF Frame, IInv, TypeOK
<1>8. \E n \in Nat : Miss("scratch", n)  BY DEF Frame
<1>9. faults' \in 0 .. MaxFaults /\ missed' \subseteq {"sheet", "scratch"}
  BY <1>8, MissType DEF IInv
<1>10. TypeOK'  BY <1>1, <1>3, <1>6, <1>7, <1>9 DEF IInv, TypeOK
<1> QED  BY <1>4, <1>5, <1>10 DEF IInv

LEMMA NextLegIInv == ASSUME IInv, NextLeg PROVE IInv'
<1>1. /\ leg' = Following(leg) /\ pc' = 1 /\ missed' = {}
      /\ bound' = [s \in Sheets |-> Unbound]
      /\ UNCHANGED <<staged, resident, frds, route, cursor, cart, skyVars, faults>>
  BY DEF NextLeg
<1>2. leg' \in Legs  BY <1>1 DEF Following, Legs, IInv, TypeOK
<1>3. StoreDisjoint'  BY <1>1, CursorAdvances DEF IInv, TypeOK
<1>4. RouteOwn'  BY <1>1 DEF IInv, RouteOwn
<1>5. TypeOK'  BY <1>1, <1>2 DEF IInv, TypeOK, skyVars
<1> QED  BY <1>3, <1>4, <1>5 DEF IInv

LEMMA StutterIInv == ASSUME IInv, UNCHANGED vars PROVE IInv'
<1>1. Untouched  BY DEF vars, storeVars, Untouched
<1>2. TypeOK'  BY DEF IInv, TypeOK, vars, storeVars, skyVars, faultVars
<1> QED  BY <1>1, <1>2, UntouchedKeeps DEF IInv

THEOREM Inductive == Spec => []IInv
<1>1. IInv /\ [Next]_vars => IInv'
  <2> SUFFICES ASSUME IInv, [Next]_vars PROVE IInv'  OBVIOUS
  <2>1. ASSUME NEW s \in Sheets, SheetStep(s) PROVE IInv'
    BY <2>1, StageIInv, PromoteIInv, FrdStageIInv DEF SheetStep
  <2>2. CASE Reclaim \/ Floor \/ Arm \/ Attach
    BY <2>2, ReclaimIInv, FloorIInv, BindIInv
  <2>3. CASE Windows \/ Fg \/ Sky \/ Frame \/ NextLeg
    BY <2>3, BackdropIInv, FrameIInv, NextLegIInv
  <2>4. CASE UNCHANGED vars  BY <2>4, StutterIInv
  <2> QED  BY <2>1, <2>2, <2>3, <2>4 DEF Next
<1> QED  BY <1>1, InitIInv, PTL DEF Spec

(* Every variable of the store keeps its type, the cursor within the store    *)
(* and the registry within its slots, whatever the sizes of the files.       *)
THEOREM TypeCorrect == Spec => []TypeOK
<1>1. IInv => TypeOK  BY DEF IInv
<1> QED  BY <1>1, Inductive, PTL

(* The bump allocator never hands out a place twice between two rewinds:      *)
(* MakeResident, the in-place load of a blob and the floors keep apart.       *)
THEOREM NothingOverlaps == Spec => []StoreDisjoint
<1>1. IInv => StoreDisjoint  BY DEF IInv
<1> QED  BY <1>1, Inductive, PTL

(* No draw ever reaches the blob of another sheet, by store slot or by handle. *)
THEOREM OwnFrames == Spec => []RouteOwn
<1>1. IInv => RouteOwn  BY DEF IInv
<1> QED  BY <1>1, Inductive, PTL
-------------------------------------------------------------------------------
(* The programs of the seams, operation by operation.                         *)

TitleSheets == {"LOGOS", "TLOGO", "TSONIC"}

LEMMA BootOps ==
  /\ Len(Boot) = 11 /\ Boot[1][1] = "reclaim" /\ Boot[11][1] = "arm"
  /\ \A i \in {2, 4, 6, 8, 9, 10} : Boot[i][1] = "stage"
  /\ \A i \in {3, 5, 7} : Boot[i][1] = "promote" /\ Boot[i][2] \in TitleSheets
<1> USE DEF Boot, Do, Each
<1>1. Len(Boot) = 11 /\ Boot[1][1] = "reclaim" /\ Boot[11][1] = "arm"  OBVIOUS
<1>2. \A i \in {2, 4, 6, 8, 9, 10} : Boot[i][1] = "stage"  OBVIOUS
<1>3. \A i \in {3, 5, 7} : Boot[i][1] = "promote" /\ Boot[i][2] \in TitleSheets
  BY DEF TitleSheets
<1> QED  BY <1>1, <1>2, <1>3

LEMMA AizOps ==
  /\ Len(AizSeam) = 15 /\ \A i \in 1 .. 4 : AizSeam[i][1] = "stage"
  /\ AizSeam[5][1] = "floor" /\ \A i \in 6 .. 8 : AizSeam[i][1] = "frd"
  /\ \A i \in 9 .. 11 : AizSeam[i][1] = "fallback"
  /\ AizSeam[12][1] = "promote" /\ AizSeam[13][1] = "arm" /\ AizSeam[14][1] = "attach"
  /\ AizSeam[15][1] = "windows"
<1> USE DEF AizSeam, AizPlayers, Do, Each
<1>1. Len(AizSeam) = 15  OBVIOUS
<1>2. \A i \in 1 .. 4 : AizSeam[i][1] = "stage"  OBVIOUS
<1>3. AizSeam[5][1] = "floor"  OBVIOUS
<1>4. \A i \in 6 .. 8 : AizSeam[i][1] = "frd"  OBVIOUS
<1>5. \A i \in 9 .. 11 : AizSeam[i][1] = "fallback"  OBVIOUS
<1>6. AizSeam[12][1] = "promote"  OBVIOUS
<1>7. AizSeam[13][1] = "arm"  OBVIOUS
<1>8. AizSeam[14][1] = "attach"  OBVIOUS
<1>9. AizSeam[15][1] = "windows"  OBVIOUS
<1> QED  BY <1>1, <1>2, <1>3, <1>4, <1>5, <1>6, <1>7, <1>8, <1>9

LEMMA CutsceneOps ==
  /\ Len(CutsceneSeam) = 17 /\ \A i \in 1 .. 4 : CutsceneSeam[i][1] = "stage"
  /\ CutsceneSeam[5][1] = "arm" /\ CutsceneSeam[6][1] = "reclaim"
  /\ CutsceneSeam[7] = <<"promote", "PLR">> /\ CutsceneSeam[8] = <<"promote", "HBH">>
  /\ \A i \in 1 .. 4 : CutsceneSeam[i + 8] = <<"frd", CutsceneFrds[i]>>
  /\ \A i \in 1 .. 4 : CutsceneSeam[i + 12] = <<"fallback", CutsceneFrds[i]>>
  /\ CutsceneSeam[17][1] = "attach"
<1> USE DEF CutsceneSeam, CutsceneFrds, Do, Each
<1>1. Len(CutsceneSeam) = 17  OBVIOUS
<1>2. \A i \in 1 .. 4 : CutsceneSeam[i][1] = "stage"  OBVIOUS
<1>3. CutsceneSeam[5][1] = "arm"  OBVIOUS
<1>4. CutsceneSeam[6][1] = "reclaim"  OBVIOUS
<1>5. CutsceneSeam[7] = <<"promote", "PLR">>  OBVIOUS
<1>6. CutsceneSeam[8] = <<"promote", "HBH">>  OBVIOUS
<1>7. \A i \in 1 .. 4 : CutsceneSeam[i + 8] = <<"frd", CutsceneFrds[i]>>  OBVIOUS
<1>8. \A i \in 1 .. 4 : CutsceneSeam[i + 12] = <<"fallback", CutsceneFrds[i]>>  OBVIOUS
<1>9. CutsceneSeam[17][1] = "attach"  OBVIOUS
<1> QED  BY <1>1, <1>2, <1>3, <1>4, <1>5, <1>6, <1>7, <1>8, <1>9

LEMMA GhzOps ==
  /\ Len(GhzSeam) = 29
  /\ \A i \in 1 .. 7 : GhzSeam[i] = <<"stage", Landing[i]>>
  /\ GhzSeam[8][1] = "fg" /\ GhzSeam[9][1] = "sky" /\ GhzSeam[10][1] = "reclaim"
  /\ \A i \in 1 .. 7 : GhzSeam[i + 10] = <<"frd", Landing[i]>>
  /\ \A i \in 18 .. 24 : GhzSeam[i][1] = "fallback"
  /\ \A i \in 18 .. 24 : GhzSeam[i][2] \in Drawn["GHZ"]
  /\ GhzSeam[25] = <<"promote", "DISPLAY">>
  /\ GhzSeam[26][1] = "attach" /\ GhzSeam[27][1] = "arm" /\ GhzSeam[28][1] = "attach"
  /\ GhzSeam[29][1] = "fg"
<1> USE DEF GhzSeam, GhzStaging, GhzRebuild, GhzArmed, Do, Each, Landing
<1>1. Len(GhzSeam) = 29  OBVIOUS
<1>2. \A i \in 1 .. 7 : GhzSeam[i] = <<"stage", Landing[i]>>  OBVIOUS
<1>3. GhzSeam[8][1] = "fg"  OBVIOUS
<1>4. GhzSeam[9][1] = "sky"  OBVIOUS
<1>5. GhzSeam[10][1] = "reclaim"  OBVIOUS
<1>6. \A i \in 1 .. 7 : GhzSeam[i + 10] = <<"frd", Landing[i]>>  OBVIOUS
<1>7. \A i \in 18 .. 24 : GhzSeam[i][1] = "fallback"  OBVIOUS
<1>8. \A i \in 18 .. 24 : GhzSeam[i][2] \in {"SONIC", "SONIC23", "ITEMS", "DISPLAY",
                                             "TAILS", "ZONE", "EXPLOS"}
  OBVIOUS
<1>9. GhzSeam[25] = <<"promote", "DISPLAY">>  OBVIOUS
<1>10. GhzSeam[26][1] = "attach"  OBVIOUS
<1>11. GhzSeam[27][1] = "arm"  OBVIOUS
<1>12. GhzSeam[28][1] = "attach"  OBVIOUS
<1>13. GhzSeam[29][1] = "fg"  OBVIOUS
<1>14. \A i \in 18 .. 24 : GhzSeam[i][2] \in Drawn["GHZ"]  BY <1>8 DEF Drawn
<1> HIDE DEF GhzSeam, GhzStaging, GhzRebuild, GhzArmed, Do, Each, Landing
<1> QED  BY <1>1, <1>2, <1>3, <1>4, <1>5, <1>6, <1>7, <1>9, <1>10, <1>11, <1>12, <1>13, <1>14

LEMMA SeamIs ==
  /\ Seam["Logos"] = Boot /\ Seam["AIZ"] = AizSeam
  /\ Seam["Cutscene"] = CutsceneSeam /\ Seam["GHZ"] = GhzSeam
  BY DEF Seam

LEMMA TitleOps == Len(Seam["Title"]) = 1 /\ Seam["Title"][1][1] = "arm"
  BY DEF Seam, Do

\* the program counter stands at an operation of the seam
Started == pc \in Nat /\ pc >= 1

LEMMA AtFacts ==
  ASSUME Started, NEW op, NEW s, At(op, s)
  PROVE  /\ pc \in 1 .. Len(Seam[leg]) /\ pc' = pc + 1 /\ Started'
         /\ Seam[leg][pc] = <<op, s>> /\ Seam[leg][pc][1] = op /\ Seam[leg][pc][2] = s
<1>1. pc <= Len(Seam[leg]) /\ pc' = pc + 1 /\ Seam[leg][pc] = <<op, s>>  BY DEF At
<1>2. Len(Seam[leg]) \in Nat  BY <1>1
<1> QED  BY <1>1, <1>2 DEF Started

LEMMA AtLogos ==
  ASSUME Started, NEW op, NEW s, At(op, s), leg = "Logos"
  PROVE  op \in {"reclaim", "stage", "promote", "arm"} /\ (op = "promote" => s \in TitleSheets)
<1>1. pc \in 1 .. 11 /\ Boot[pc][1] = op /\ Boot[pc][2] = s  BY AtFacts, SeamIs, BootOps
<1> QED  BY <1>1, BootOps

LEMMA AtTitle ==
  ASSUME Started, NEW op, NEW s, At(op, s), leg = "Title"
  PROVE  op = "arm"
<1>1. pc \in 1 .. 1 /\ Seam["Title"][pc][1] = op  BY AtFacts, TitleOps
<1> QED  BY <1>1, TitleOps

LEMMA AtAiz ==
  ASSUME Started, NEW op, NEW s, At(op, s), leg = "AIZ"
  PROVE  /\ op \in {"stage", "floor", "frd", "fallback", "promote", "arm", "attach", "windows"}
         /\ op = "floor" <=> pc = 5
         /\ op \in {"frd", "fallback", "promote", "windows"} => pc > 5
<1>1. pc \in 1 .. 15 /\ AizSeam[pc][1] = op  BY AtFacts, SeamIs, AizOps
<1> QED  BY <1>1, AizOps

LEMMA AtCutscene ==
  ASSUME Started, NEW op, NEW s, At(op, s), leg = "Cutscene"
  PROVE  /\ op \in {"stage", "arm", "reclaim", "promote", "frd", "fallback", "attach"}
         /\ op = "stage" => pc \in 1 .. 4
         /\ op = "arm" <=> pc = 5
         /\ op = "reclaim" <=> pc = 6
         /\ op = "promote" => (pc = 7 /\ s = "PLR") \/ (pc = 8 /\ s = "HBH")
         /\ op = "frd" => pc \in 9 .. 12 /\ s = CutsceneFrds[pc - 8]
         /\ op = "fallback" => pc \in 13 .. 16 /\ s = CutsceneFrds[pc - 12]
         /\ op = "attach" => pc = 17
<1>1. pc \in 1 .. 17 /\ CutsceneSeam[pc] = <<op, s>> /\ CutsceneSeam[pc][1] = op
      /\ CutsceneSeam[pc][2] = s
  BY AtFacts, SeamIs, CutsceneOps
<1>2. ASSUME NEW i \in 1 .. 4, pc = i + 8 PROVE op = "frd" /\ s = CutsceneFrds[pc - 8]
  <2>1. CutsceneSeam[pc] = <<"frd", CutsceneFrds[i]>> /\ pc - 8 = i  BY <1>2, CutsceneOps
  <2> QED  BY <1>1, <2>1
<1>3. ASSUME NEW i \in 1 .. 4, pc = i + 12 PROVE op = "fallback" /\ s = CutsceneFrds[pc - 12]
  <2>1. CutsceneSeam[pc] = <<"fallback", CutsceneFrds[i]>> /\ pc - 12 = i
    BY <1>3, CutsceneOps
  <2> QED  BY <1>1, <2>1
<1>4. pc \in 9 .. 12 => op = "frd" /\ s = CutsceneFrds[pc - 8]
  <2>1. pc \in 9 .. 12 => pc - 8 \in 1 .. 4 /\ pc = (pc - 8) + 8  BY <1>1
  <2> QED  BY <1>2, <2>1
<1>5. pc \in 13 .. 16 => op = "fallback" /\ s = CutsceneFrds[pc - 12]
  <2>1. pc \in 13 .. 16 => pc - 12 \in 1 .. 4 /\ pc = (pc - 12) + 12  BY <1>1
  <2> QED  BY <1>3, <2>1
<1>6. /\ pc \in 1 .. 4 => op = "stage"
      /\ pc = 5 => op = "arm"
      /\ pc = 6 => op = "reclaim"
      /\ pc = 7 => op = "promote" /\ s = "PLR"
      /\ pc = 8 => op = "promote" /\ s = "HBH"
      /\ pc = 17 => op = "attach"
  BY <1>1, CutsceneOps
<1>7. pc \in 1 .. 4 \/ pc = 5 \/ pc = 6 \/ pc = 7 \/ pc = 8 \/ pc \in 9 .. 12
      \/ pc \in 13 .. 16 \/ pc = 17
  BY <1>1
<1> QED  BY <1>4, <1>5, <1>6, <1>7

LEMMA AtGhz ==
  ASSUME Started, NEW op, NEW s, At(op, s), leg = "GHZ"
  PROVE  /\ op \notin {"floor", "windows"}
         /\ op = "stage" => pc \in 1 .. 7 /\ s = Landing[pc]
         /\ op = "fg" => pc \in {8, 29}
         /\ op = "sky" => pc = 9
         /\ op = "reclaim" <=> pc = 10
         /\ op = "frd" => pc \in 11 .. 17 /\ s = Landing[pc - 10]
         /\ op = "fallback" => pc \in 18 .. 24 /\ s \in Drawn["GHZ"]
         /\ op = "promote" => pc = 25 /\ s = "DISPLAY"
         /\ op = "attach" => pc \in {26, 28}
         /\ op = "arm" => pc = 27
         /\ pc = 8 => op = "fg"
         /\ pc = 9 => op = "sky"
<1>1. pc \in 1 .. 29 /\ GhzSeam[pc] = <<op, s>> /\ GhzSeam[pc][1] = op
      /\ GhzSeam[pc][2] = s
  BY AtFacts, SeamIs, GhzOps
<1>2. pc \in 1 .. 7 => op = "stage" /\ s = Landing[pc]
  <2>1. pc \in 1 .. 7 => GhzSeam[pc] = <<"stage", Landing[pc]>>  BY GhzOps
  <2> QED  BY <1>1, <2>1
<1>3. ASSUME NEW i \in 1 .. 7, pc = i + 10 PROVE op = "frd" /\ s = Landing[pc - 10]
  <2>1. GhzSeam[pc] = <<"frd", Landing[i]>> /\ pc - 10 = i  BY <1>3, GhzOps
  <2> QED  BY <1>1, <2>1
<1>4. pc \in 11 .. 17 => op = "frd" /\ s = Landing[pc - 10]
  <2>1. pc \in 11 .. 17 => pc - 10 \in 1 .. 7 /\ pc = (pc - 10) + 10  BY <1>1
  <2> QED  BY <1>3, <2>1
<1>5. pc \in 18 .. 24 => op = "fallback" /\ s \in Drawn["GHZ"]  BY <1>1, GhzOps
<1>6. /\ pc = 8 => op = "fg"
      /\ pc = 9 => op = "sky"
      /\ pc = 10 => op = "reclaim"
      /\ pc = 25 => op = "promote" /\ s = "DISPLAY"
      /\ pc = 26 => op = "attach"
      /\ pc = 27 => op = "arm"
      /\ pc = 28 => op = "attach"
      /\ pc = 29 => op = "fg"
  BY <1>1, GhzOps
<1>7. pc \in 1 .. 7 \/ pc = 8 \/ pc = 9 \/ pc = 10 \/ pc \in 11 .. 17 \/ pc \in 18 .. 24
      \/ pc = 25 \/ pc = 26 \/ pc = 27 \/ pc = 28 \/ pc = 29
  BY <1>1
<1> QED  BY <1>2, <1>4, <1>5, <1>6, <1>7

-------------------------------------------------------------------------------
(* Blobs by name.                                                            *)

LEMMA Named ==
  ASSUME TypeOK, NEW s \in Sheets, NEW i \in DOMAIN frds, frds[i][1] = s
  PROVE  Blob(s) # 0
<1> DEFINE slots == {j \in DOMAIN frds : frds[j][1] = s}
<1>1. slots \subseteq Nat /\ slots # {} /\ 0 \notin slots
  <2>1. slots \subseteq DOMAIN frds /\ i \in slots  OBVIOUS
  <2> QED  BY <2>1, RegistryFacts
<1>2. PICK k \in slots : \A j \in slots : <<j, k>> \notin OpToRel(<, Nat)
  BY <1>1, NatLessThanWellFounded, WFMin
<1>3. OpToRel(<, Nat) = {ss \in Nat \X Nat : ss[1] < ss[2]}  BY DEF OpToRel
<1>4. ASSUME NEW j \in slots PROVE k <= j
  <2>1. k \in Nat /\ j \in Nat /\ <<j, k>> \in Nat \X Nat  BY <1>1
  <2>2. ~(j < k)  BY <1>2, <1>3, <2>1
  <2> QED  BY <2>1, <2>2
<1>5. Blob(s) = CHOOSE b \in slots : \A j \in slots : b <= j  BY <1>1 DEF Blob
<1>6. Blob(s) \in slots  BY <1>2, <1>4, <1>5
<1> QED  BY <1>1, <1>6

LEMMA Unnamed ==
  ASSUME NEW s \in Sheets, \A i \in DOMAIN frds : frds[i][1] # s
  PROVE  Blob(s) = 0
  BY DEF Blob

\* the registry holds the blobs of the first k of q, in that order
Registry(fs, q, k) == Len(fs) = k /\ \A i \in 1 .. k : fs[i][1] = q[i]

LEMMA RegistryGrows ==
  ASSUME TypeOK, NEW q, NEW k \in Nat, Registry(frds, q, k), NEW blob \in Sheets \X Nat,
         blob[1] = q[k + 1], frds' = Append(frds, blob)
  PROVE  Registry(frds', q, k + 1) /\ DOMAIN frds' = 1 .. k + 1
<1>1. Len(frds) = k /\ DOMAIN frds = 1 .. k  BY RegistryFacts DEF Registry
<1>2. /\ Len(frds') = k + 1 /\ frds'[k + 1] = blob /\ DOMAIN frds' = 1 .. k + 1
      /\ \A i \in 1 .. k : frds'[i] = frds[i]
  <2>1. /\ Len(frds') = k + 1 /\ frds'[k + 1] = blob
        /\ DOMAIN frds' = (1 .. k) \cup {k + 1} /\ \A i \in 1 .. k : frds'[i] = frds[i]
    <3>1. /\ Len(frds') = Len(frds) + 1 /\ DOMAIN frds' = DOMAIN frds \cup {Len(frds) + 1}
          /\ frds'[Len(frds) + 1] = blob /\ \A i \in DOMAIN frds : frds'[i] = frds[i]
      BY AppendFacts
    <3> QED  BY <1>1, <3>1
  <2> QED  BY <2>1
<1>3. ASSUME NEW i \in 1 .. k + 1 PROVE frds'[i][1] = q[i]
  <2>1. CASE i = k + 1  BY <1>2, <2>1
  <2>2. CASE i # k + 1
    <3>1. i \in 1 .. k  BY <2>2
    <3> QED  BY <1>2, <3>1 DEF Registry
  <2> QED  BY <2>1, <2>2
<1> QED  BY <1>2, <1>3 DEF Registry

\* a seam that misses nothing from here on had missed nothing before
LEMMA MissKept ==
  ASSUME NEW what, NEW n, Miss(what, n) PROVE missed \subseteq missed'
  BY DEF Miss

LEMMA ReadMissed ==
  ASSUME NEW what, Read(what, FALSE) PROVE what \in missed'
  BY DEF Read, Miss

LEMMA SameLeg ==
  ASSUME [Next]_vars, ~NextLeg
  PROVE  leg' = leg /\ missed \subseteq missed'
<1>1. ASSUME NEW s \in Sheets, SheetStep(s) PROVE leg' = leg /\ missed \subseteq missed'
  <2>1. CASE Stage(s)  BY <2>1, MissKept DEF Stage, Read
  <2>2. CASE Promote(s) \/ Fallback(s)  BY <2>2 DEF Promote, Fallback, faultVars
  <2>3. CASE FrdStage(s)
    BY <2>3, MissKept DEF FrdStage, FrdFound, FrdLoaded, FrdLeftOut, Read, faultVars
  <2> QED  BY <1>1, <2>1, <2>2, <2>3 DEF SheetStep
<1>2. CASE Reclaim \/ Floor \/ Arm \/ Attach
  BY <1>2 DEF Reclaim, Floor, Arm, Attach, faultVars
<1>3. CASE Windows \/ Fg \/ Sky  BY <1>3, MissKept DEF Windows, Fg, Sky, Read, faultVars
<1>4. CASE Frame
  <2>1. \E n : Miss("scratch", n)  BY <1>4 DEF Frame
  <2> QED  BY <1>4, <2>1, MissKept DEF Frame
<1>5. CASE UNCHANGED vars  BY <1>5 DEF vars, faultVars
<1> QED  BY <1>1, <1>2, <1>3, <1>4, <1>5 DEF Next

LEMMA StartedAlways == Spec => []Started
<1>1. Init => Started  BY DEF Init, Started
<1>2. Started /\ [Next]_vars => Started'
  <2> SUFFICES ASSUME Started, [Next]_vars PROVE Started'  OBVIOUS
  <2>1. ASSUME NEW op, NEW s, At(op, s) PROVE Started'  BY <2>1, AtFacts
  <2>2. ASSUME NEW s \in Sheets, SheetStep(s) PROVE Started'
    BY <2>1, <2>2 DEF SheetStep, Stage, Promote, Fallback, FrdStage
  <2>3. CASE Reclaim \/ Floor \/ Arm \/ Attach \/ Windows \/ Fg \/ Sky
    BY <2>1, <2>3 DEF Reclaim, Floor, Arm, Attach, Windows, Fg, Sky
  <2>4. CASE Frame \/ NextLeg \/ UNCHANGED vars
    BY <2>4 DEF Frame, NextLeg, vars, Started
  <2> QED  BY <2>2, <2>3, <2>4 DEF Next
<1> QED  BY <1>1, <1>2, PTL DEF Spec

-------------------------------------------------------------------------------
(* The landing: as long as its own reads succeed, its seam stages what it     *)
(* will load, loads what it has staged, and the cursor is where the sizes of  *)
(* the blobs loaded so far put it.                                          *)

If(p, n) == IF p THEN n ELSE 0
Clip(k, n) == IF k < 0 THEN 0 ELSE IF k > n THEN n ELSE k

LandingTop(p) ==
  FrdFloor + If(p > 11, Frd["SONIC"]) + If(p > 12, Frd["SONIC23"]) + If(p > 13, Frd["ITEMS"])
  + If(p > 14, Frd["DISPLAY"]) + If(p > 15, Frd["TAILS"]) + If(p > 16, Frd["ZONE"])
  + If(p > 17, Frd["EXPLOS"])

LandingPlan ==
  /\ \A i \in 1 .. 7 : pc > i => Landing[i] \in staged
  /\ pc > 10 => Registry(frds, Landing, Clip(pc - 11, 7))
  /\ pc > 10 => \A i \in DOMAIN frds : route[Landing[i]] # 0
  /\ pc \in 11 .. 25 => cursor <= LandingTop(pc)
  /\ pc > 25 => resident["DISPLAY"] # None
  /\ pc > 27 => \A s \in Drawn["GHZ"] : bound[s] # Unbound
LandingStore == leg = "GHZ" /\ "sheet" \notin missed => LandingPlan

LEMMA LandingNames ==
  /\ \A i \in 1 .. 7 : Landing[i] \in Sheets
  /\ \A i, j \in 1 .. 7 : i # j => Landing[i] # Landing[j]
  /\ Len(Landing) = 7 /\ Landing[4] = "DISPLAY"
  /\ \A s \in Drawn["GHZ"] : \E i \in 1 .. 7 : Landing[i] = s
<1>1. Len(Landing) = 7 /\ Landing[4] = "DISPLAY"  BY DEF Landing
<1>2. \A i \in 1 .. 7 : Landing[i] \in Sheets  BY DEF Landing, Sheets
<1>3. \A i, j \in 1 .. 7 : i # j => Landing[i] # Landing[j]  BY DEF Landing
<1>4. ASSUME NEW s \in Drawn["GHZ"] PROVE \E i \in 1 .. 7 : Landing[i] = s
  <2>1. s \in {"SONIC", "SONIC23", "ITEMS", "DISPLAY", "TAILS", "ZONE", "EXPLOS"}
    BY DEF Drawn
  <2>2. /\ Landing[1] = "SONIC" /\ Landing[2] = "SONIC23" /\ Landing[3] = "ITEMS"
        /\ Landing[4] = "DISPLAY" /\ Landing[5] = "TAILS" /\ Landing[6] = "ZONE"
        /\ Landing[7] = "EXPLOS"
    BY DEF Landing
  <2> QED  BY <2>1, <2>2
<1> QED  BY <1>1, <1>2, <1>3, <1>4

LEMMA SizeFacts ==
  /\ \A s \in Sheets : Raw[s] \in Nat /\ Frd[s] \in Nat
  /\ \A p \in BOOLEAN, n \in Nat : If(p, n) \in Nat /\ If(p, n) <= n
  BY DEF If

LEMMA LandingTopFacts ==
  /\ \A p \in 11 .. 25 : LandingTop(p) \in Nat /\ FrdFloor <= LandingTop(p)
  /\ \A p \in 11 .. 17 :
       /\ LandingTop(p + 1) = LandingTop(p) + Frd[Landing[p - 10]]
       /\ LandingFits => LandingTop(p + 1) <= End
  /\ \A p \in 18 .. 25 : LandingTop(p) = LandingTop(18)
  /\ LandingFits => LandingTop(25) + Raw["DISPLAY"] <= End
<1>0. /\ Frd["SONIC"] \in Nat /\ Frd["SONIC23"] \in Nat /\ Frd["ITEMS"] \in Nat
      /\ Frd["DISPLAY"] \in Nat /\ Frd["TAILS"] \in Nat /\ Frd["ZONE"] \in Nat
      /\ Frd["EXPLOS"] \in Nat /\ Raw["DISPLAY"] \in Nat /\ FrdFloor \in Nat /\ End \in Nat
  BY SizeFacts DEF Sheets, FrdFloor
<1>1. \A p \in 11 .. 25 : LandingTop(p) \in Nat /\ FrdFloor <= LandingTop(p)
  BY <1>0 DEF LandingTop, If
<1>2. \A p \in 11 .. 17 : LandingTop(p + 1) = LandingTop(p) + Frd[Landing[p - 10]]
  <2>1. /\ Landing[1] = "SONIC" /\ Landing[2] = "SONIC23" /\ Landing[3] = "ITEMS"
        /\ Landing[4] = "DISPLAY" /\ Landing[5] = "TAILS" /\ Landing[6] = "ZONE"
        /\ Landing[7] = "EXPLOS"
    BY DEF Landing
  <2>2. LandingTop(12) = LandingTop(11) + Frd["SONIC"]  BY <1>0 DEF LandingTop, If
  <2>3. LandingTop(13) = LandingTop(12) + Frd["SONIC23"]  BY <1>0 DEF LandingTop, If
  <2>4. LandingTop(14) = LandingTop(13) + Frd["ITEMS"]  BY <1>0 DEF LandingTop, If
  <2>5. LandingTop(15) = LandingTop(14) + Frd["DISPLAY"]  BY <1>0 DEF LandingTop, If
  <2>6. LandingTop(16) = LandingTop(15) + Frd["TAILS"]  BY <1>0 DEF LandingTop, If
  <2>7. LandingTop(17) = LandingTop(16) + Frd["ZONE"]  BY <1>0 DEF LandingTop, If
  <2>8. LandingTop(18) = LandingTop(17) + Frd["EXPLOS"]  BY <1>0 DEF LandingTop, If
  <2> QED  BY <2>1, <2>2, <2>3, <2>4, <2>5, <2>6, <2>7, <2>8
<1>3. \A p \in 18 .. 25 : LandingTop(p) = LandingTop(18)  BY <1>0 DEF LandingTop, If
<1>4. \A p \in 11 .. 17 : LandingTop(p + 1) <= LandingTop(18)  BY <1>0 DEF LandingTop, If
<1>5. LandingFits => LandingTop(18) + Raw["DISPLAY"] <= End
  BY <1>0 DEF LandingTop, If, LandingFits
<1>6. LandingFits => \A p \in 11 .. 17 : LandingTop(p + 1) <= End
  <2> SUFFICES ASSUME LandingFits, NEW p \in 11 .. 17 PROVE LandingTop(p + 1) <= End
    OBVIOUS
  <2>1. PICK a \in Nat : a = LandingTop(p + 1)
    <3>1. p + 1 \in 11 .. 25  OBVIOUS
    <3> QED  BY <1>1, <3>1
  <2>2. PICK b \in Nat : b = LandingTop(18)  BY <1>1
  <2>3. a <= b /\ b + Raw["DISPLAY"] <= End  BY <1>4, <1>5, <2>1, <2>2
  <2> QED  BY <1>0, <2>1, <2>3
<1>7. LandingTop(25) = LandingTop(18)  BY <1>3
<1> QED  BY <1>1, <1>2, <1>3, <1>5, <1>6, <1>7

\* in front of the landing, and while it misses nothing
Landed == IInv /\ Started /\ LandingStore /\ leg = "GHZ" /\ "sheet" \notin missed'

LEMMA LandedPlan ==
  ASSUME Landed, missed \subseteq missed'
  PROVE  LandingPlan /\ TypeOK /\ Started /\ pc \in Nat
  BY DEF Landed, LandingStore, IInv, Started

\* what the plan reads and what a step must not disturb
LEMMA PlanKept ==
  ASSUME LandingPlan, UNCHANGED <<staged, frds, route, resident, cursor>>, pc \in Nat,
         pc' = pc + 1, pc \notin {10, 25, 27}, pc <= 10 \/ pc >= 18,
         pc > 27 => \A s \in Drawn["GHZ"] : bound'[s] # Unbound,
         pc \notin 1 .. 7
  PROVE  LandingPlan'
<1>1. \A i \in 1 .. 7 : pc' > i => Landing[i] \in staged'  BY DEF LandingPlan
<1>2. pc' > 10 => Clip(pc' - 11, 7) = 7 /\ Clip(pc - 11, 7) = 7 /\ pc > 10  BY DEF Clip
<1>3. pc' > 10 => Registry(frds', Landing, Clip(pc' - 11, 7))
  BY <1>2 DEF LandingPlan, Registry
<1>4. pc' > 10 => \A i \in DOMAIN frds' : route'[Landing[i]] # 0  BY <1>2 DEF LandingPlan
<1>5. ASSUME pc' \in 11 .. 25 PROVE cursor' <= LandingTop(pc')
  <2>1. pc \in 18 .. 25 /\ pc' \in 18 .. 25  BY <1>5
  <2>2. LandingTop(pc') = LandingTop(pc)  BY <2>1, LandingTopFacts
  <2> QED  BY <2>1, <2>2 DEF LandingPlan
<1>6. pc' > 25 => resident'["DISPLAY"] # None  BY DEF LandingPlan
<1>7. pc' > 27 => \A s \in Drawn["GHZ"] : bound'[s] # Unbound  OBVIOUS
<1> QED  BY <1>1, <1>3, <1>4, <1>5, <1>6, <1>7 DEF LandingPlan

LEMMA StageLands == ASSUME Landed, NEW s \in Sheets, Stage(s) PROVE LandingPlan'
<1>1. missed \subseteq missed'  BY MissKept DEF Stage, Read
<1>2. LandingPlan /\ pc \in Nat  BY <1>1, LandedPlan
<1>3. pc \in 1 .. 7 /\ s = Landing[pc] /\ pc' = pc + 1
  BY AtGhz, AtFacts DEF Stage, Landed
<1>4. staged' = staged \cup {s}  BY ReadMissed DEF Stage, Landed
<1>5. \A i \in 1 .. 7 : pc' > i => Landing[i] \in staged'
  <2> SUFFICES ASSUME NEW i \in 1 .. 7, pc' > i PROVE Landing[i] \in staged'  OBVIOUS
  <2>1. i = pc \/ pc > i  BY <1>3
  <2> QED  BY <1>2, <1>3, <1>4, <2>1 DEF LandingPlan
<1>6. ~(pc' > 10) /\ pc' \notin 11 .. 25 /\ ~(pc' > 25) /\ ~(pc' > 27)  BY <1>3
<1> QED  BY <1>5, <1>6 DEF LandingPlan

LEMMA ReclaimLands == ASSUME Landed, Reclaim PROVE LandingPlan'
<1>1. LandingPlan  BY LandedPlan DEF Reclaim, faultVars
<1>2. pc = 10 /\ pc' = 11  BY AtGhz, AtFacts DEF Reclaim, Landed
<1>3. frds' = <<>> /\ cursor' = 0 /\ staged' = staged
  BY DEF Reclaim, CursorAfterReset, Rewound
<1>4. \A i \in 1 .. 7 : Landing[i] \in staged'  BY <1>1, <1>2, <1>3 DEF LandingPlan
<1>5. Registry(frds', Landing, Clip(pc' - 11, 7))  BY <1>2, <1>3 DEF Registry, Clip
<1>6. \A i \in DOMAIN frds' : route'[Landing[i]] # 0  BY <1>3
<1>7. cursor' <= LandingTop(pc')
  <2>1. LandingTop(11) \in Nat  BY LandingTopFacts
  <2> QED  BY <1>2, <1>3, <2>1
<1> QED  BY <1>2, <1>4, <1>5, <1>6, <1>7 DEF LandingPlan

LEMMA FrdLands == ASSUME LandingFits, Landed, NEW s \in Sheets, FrdStage(s) PROVE LandingPlan'
<1>1. missed \subseteq missed'
  BY MissKept DEF FrdStage, FrdFound, FrdLoaded, FrdLeftOut, Read, faultVars
<1>2. LandingPlan /\ TypeOK  BY <1>1, LandedPlan
<1>3. pc \in 11 .. 17 /\ s = Landing[pc - 10] /\ pc' = pc + 1
  BY AtGhz, AtFacts DEF FrdStage, Landed
<1>4. PICK k \in 0 .. 6 : k = pc - 11  BY <1>3
<1>5. Registry(frds, Landing, k) /\ s = Landing[k + 1] /\ Clip(pc' - 11, 7) = k + 1
  BY <1>2, <1>3, <1>4 DEF LandingPlan, Clip
<1>6. DOMAIN frds = 1 .. k /\ Len(frds) = k  BY <1>2, <1>5 DEF Registry, TypeOK
<1>7. \A i \in 1 .. 7 : Landing[i] \in staged  BY <1>2, <1>3 DEF LandingPlan
<1>8. s \in staged  BY <1>4, <1>5, <1>7
<1>9. Blob(s) = 0
  <2>1. ASSUME NEW i \in DOMAIN frds PROVE frds[i][1] # s
    <3>1. i \in 1 .. k /\ frds[i][1] = Landing[i]  BY <1>5, <1>6 DEF Registry
    <3>2. i \in 1 .. 7 /\ k + 1 \in 1 .. 7 /\ i # k + 1  BY <1>4, <3>1
    <3> QED  BY <1>5, <3>1, <3>2, LandingNames
  <2> QED  BY <2>1, Unnamed
<1>10. PICK at \in Nat : at = AtLeast(FrdFloor)  BY <1>2, AtLeastFacts DEF FrdFloor
<1>11. at <= LandingTop(pc) /\ LandingTop(pc) \in Nat
  <2>1. cursor <= LandingTop(pc) /\ FrdFloor <= LandingTop(pc) /\ LandingTop(pc) \in Nat
    BY <1>2, <1>3, LandingTopFacts DEF LandingPlan
  <2> QED  BY <1>10, <2>1 DEF AtLeast
<1>12. /\ LandingTop(pc') = LandingTop(pc) + Frd[s] /\ LandingTop(pc') <= End
       /\ Frd[s] \in Nat
  BY <1>3, LandingTopFacts, SizeFacts
<1>13. at + Frd[s] <= LandingTop(pc') /\ at + Frd[s] <= End
  <2>1. PICK a \in Nat : a = LandingTop(pc)  BY <1>11
  <2> QED  BY <1>11, <1>12, <2>1
<1>14. ~FrdLeftOut(s)
  <2>1. Fits(at, Frd[s]) /\ ~(Len(frds) >= FrdSlots)
    <3>1. Len(Landing) <= FrdSlots  BY DEF LandingFits
    <3>4. Len(Landing) = 7 /\ FrdSlots \in Nat  BY LandingNames
    <3>2. Len(frds) < 7 /\ 7 <= FrdSlots /\ FrdSlots \in Nat  BY <1>4, <1>6, <3>1, <3>4
    <3>3. Len(frds) \in Nat  BY <1>4, <1>6
    <3> QED  BY <1>13, <3>2, <3>3 DEF Fits
  <2> SUFFICES ASSUME FrdLeftOut(s) PROVE FALSE  OBVIOUS
  <2>2. Read("sheet", FALSE)  BY <1>10, <2>1 DEF FrdLeftOut
  <2> QED  BY <2>2, ReadMissed DEF Landed
<1>15. FrdLoaded(s)  BY <1>9, <1>14 DEF FrdStage
<1>16. /\ frds' = Append(frds, <<s, at>>) /\ route' = Routed(s, k + 1)
       /\ cursor' = at + Frd[s] /\ UNCHANGED <<staged, resident>>
  BY <1>6, <1>10, <1>15 DEF FrdLoaded, FrdStage, Claimed
<1>17. Registry(frds', Landing, Clip(pc' - 11, 7)) /\ DOMAIN frds' = 1 .. k + 1
  <2>1. PICK blob \in Sheets \X Nat : blob = <<s, at>>  OBVIOUS
  <2>2. frds' = Append(frds, blob) /\ blob[1] = Landing[k + 1]  BY <1>5, <1>16, <2>1
  <2> QED  BY <1>2, <1>4, <1>5, <2>2, RegistryGrows
<1>18. \A i \in DOMAIN frds' : route'[Landing[i]] # 0
  <2>1. DOMAIN frds' = 1 .. k + 1  BY <1>17
  <2>2. route' = [route EXCEPT ![s] = k + 1]  BY <1>8, <1>16 DEF Routed, Landed
  <2>3. route \in [Sheets -> Nat] /\ k + 1 # 0  BY <1>2, <1>4 DEF TypeOK
  <2>4. \A i \in 1 .. k : route[Landing[i]] # 0
    <3>1. pc > 10 /\ (pc > 10 => \A i \in DOMAIN frds : route[Landing[i]] # 0)
      BY <1>2, <1>3 DEF LandingPlan
    <3> QED  BY <1>6, <3>1
  <2> SUFFICES ASSUME NEW i \in 1 .. k + 1 PROVE route'[Landing[i]] # 0  BY <2>1
  <2>5. Landing[i] \in Sheets  BY <1>4, LandingNames
  <2>6. CASE i = k + 1  BY <1>5, <2>2, <2>3, <2>5, <2>6
  <2>7. CASE i # k + 1
    <3>1. i \in 1 .. k  BY <2>7
    <3> QED  BY <2>2, <2>3, <2>4, <2>5, <3>1
  <2> QED  BY <2>6, <2>7
<1>19. ~(pc' > 25) /\ ~(pc' > 27)  BY <1>3
<1> QED  BY <1>7, <1>13, <1>16, <1>17, <1>18, <1>19 DEF LandingPlan

\* the registry is complete: every sheet of the landing has its blob
LEMMA LandingBlobs ==
  ASSUME TypeOK, LandingPlan, pc > 17, pc \in Nat, NEW s \in Drawn["GHZ"]
  PROVE  Blob(s) # 0 /\ route[s] # 0 /\ s \in staged
<1>1. PICK i \in 1 .. 7 : Landing[i] = s  BY LandingNames
<1>2. Registry(frds, Landing, 7)  BY DEF LandingPlan, Clip
<1>3. DOMAIN frds = 1 .. 7 /\ frds[i][1] = s  BY <1>1, <1>2 DEF Registry, TypeOK
<1>4. s \in Sheets  BY <1>1, LandingNames
<1>5. Blob(s) # 0  BY <1>3, <1>4, Named
<1> QED  BY <1>1, <1>3, <1>5 DEF LandingPlan

LEMMA FallbackLands == ASSUME Landed, NEW s \in Sheets, Fallback(s) PROVE LandingPlan'
<1>1. LandingPlan /\ TypeOK /\ pc \in Nat  BY LandedPlan DEF Fallback, faultVars
<1>2. pc \in 18 .. 24 /\ s \in Drawn["GHZ"] /\ pc' = pc + 1
  BY AtGhz, AtFacts DEF Fallback, Landed
<1>3. Blob(s) # 0  BY <1>1, <1>2, LandingBlobs
<1>4. UNCHANGED <<staged, frds, route, resident, cursor>>  BY <1>3 DEF Fallback
<1> QED  BY <1>1, <1>2, <1>4, PlanKept

LEMMA PromoteLands == ASSUME LandingFits, Landed, NEW s \in Sheets, Promote(s) PROVE LandingPlan'
<1>1. LandingPlan /\ TypeOK /\ pc \in Nat  BY LandedPlan DEF Promote, faultVars
<1>2. pc = 25 /\ s = "DISPLAY" /\ pc' = 26  BY AtGhz, AtFacts DEF Promote, Landed
<1>3. s \in staged  BY <1>1, <1>2, LandingBlobs DEF Drawn
<1>4. Fits(cursor, Raw[s])
  <2>1. cursor <= LandingTop(25) /\ LandingTop(25) + Raw["DISPLAY"] <= End
    BY <1>1, <1>2, LandingTopFacts DEF LandingPlan
  <2>2. cursor \in Nat /\ LandingTop(25) \in Nat /\ Raw["DISPLAY"] \in Nat
    BY <1>1, LandingTopFacts, SizeFacts DEF TypeOK, Sheets
  <2>3. PICK a \in Nat : a = LandingTop(25)  BY <2>2
  <2> QED  BY <1>2, <2>1, <2>2, <2>3 DEF Fits
<1>5. resident' = [resident EXCEPT ![s] = cursor]
  BY <1>3, <1>4 DEF Promote, MakeResident
<1>6. resident'["DISPLAY"] # None  BY <1>1, <1>2, <1>5 DEF TypeOK, None
<1>7. UNCHANGED <<staged, frds, route>>  BY DEF Promote
<1>8. Clip(pc' - 11, 7) = Clip(pc - 11, 7)  BY <1>2 DEF Clip
<1>9. Registry(frds', Landing, Clip(pc' - 11, 7))
  BY <1>1, <1>2, <1>7, <1>8 DEF LandingPlan, Registry
<1> QED  BY <1>1, <1>2, <1>6, <1>7, <1>9 DEF LandingPlan

LEMMA BindLands == ASSUME Landed, Arm \/ Attach PROVE LandingPlan'
<1>1. LandingPlan /\ TypeOK /\ pc \in Nat  BY LandedPlan DEF Arm, Attach, faultVars
<1>2. UNCHANGED <<staged, frds, route, resident, cursor>> /\ pc' = pc + 1
  BY AtFacts DEF Arm, Attach, Landed
<1>3. CASE Attach
  <2>1. pc \in {26, 28}  BY <1>3, AtGhz DEF Attach, Landed
  <2>2. \A s \in Sheets : bound[s] # Unbound => bound'[s] # Unbound
    <3>1. \A s \in Sheets : Blob(s) \in Nat  BY <1>1, BlobFacts
    <3> QED  BY <1>3, <3>1, NoneIsNoPlace DEF Attach
  <2>3. \A s \in Drawn["GHZ"] : s \in Sheets  BY LandingNames
  <2>4. pc > 27 => \A s \in Drawn["GHZ"] : bound'[s] # Unbound
    BY <1>1, <2>2, <2>3 DEF LandingPlan
  <2> QED  BY <1>1, <1>2, <2>1, <2>4, PlanKept
<1>4. CASE Arm
  <2>1. pc = 27  BY <1>4, AtGhz DEF Arm, Landed
  <2>2. ASSUME NEW s \in Drawn["GHZ"] PROVE bound'[s] # Unbound
    <3>1. s \in Sheets /\ s \in staged  BY <1>1, <2>1, LandingNames, LandingBlobs
    <3>2. Blob(s) \in Nat  BY <1>1, <3>1, BlobFacts
    <3>3. bound'[s] = IF bound[s] = Unbound THEN Blob(s) ELSE bound[s]
      BY <1>4, <3>1 DEF Arm, Landed
    <3> QED  BY <3>2, <3>3, NoneIsNoPlace
  <2>3. Clip(pc' - 11, 7) = Clip(pc - 11, 7)  BY <1>2, <2>1 DEF Clip
  <2>4. Registry(frds', Landing, Clip(pc' - 11, 7))
    BY <1>1, <1>2, <2>1, <2>3 DEF LandingPlan, Registry
  <2>5. pc' = 28  BY <1>2, <2>1
  <2> QED  BY <1>1, <1>2, <2>1, <2>2, <2>4, <2>5 DEF LandingPlan
<1> QED  BY <1>3, <1>4

LEMMA BackdropLands == ASSUME Landed, Windows \/ Fg \/ Sky PROVE LandingPlan'
<1>1. missed \subseteq missed'  BY MissKept DEF Windows, Fg, Sky, Read, faultVars
<1>2. LandingPlan /\ pc \in Nat  BY <1>1, LandedPlan
<1>3. UNCHANGED <<staged, frds, route, resident, cursor, bound>> /\ pc' = pc + 1
  BY AtFacts DEF Windows, Fg, Sky, storeVars, Landed
<1>4. pc \in {8, 9, 29}  BY AtGhz DEF Windows, Fg, Sky, Landed
<1>5. pc > 27 => \A s \in Drawn["GHZ"] : bound'[s] # Unbound  BY <1>2, <1>3 DEF LandingPlan
<1> QED  BY <1>2, <1>3, <1>4, <1>5, PlanKept

LEMMA FrameLands == ASSUME Landed, Frame PROVE LandingPlan'
<1>1. missed \subseteq missed'
  <2>1. \E n : Miss("scratch", n)  BY DEF Frame
  <2> QED  BY <2>1, MissKept
<1>2. LandingPlan /\ TypeOK  BY <1>1, LandedPlan
<1>3. UNCHANGED <<pc, staged, frds, resident, cursor, bound>>  BY DEF Frame
<1>4. ASSUME NEW t \in Sheets, route[t] # 0 PROVE route'[t] # 0
  BY <1>4 DEF Frame
<1>5. \A i \in DOMAIN frds : pc > 10 => route'[Landing[i]] # 0
  <2> SUFFICES ASSUME NEW i \in DOMAIN frds, pc > 10 PROVE route'[Landing[i]] # 0  OBVIOUS
  <2>1. i \in 1 .. 7
    <3>1. Len(frds) = Clip(pc - 11, 7)  BY <1>2 DEF LandingPlan, Registry
    <3>2. Clip(pc - 11, 7) \in 0 .. 7  BY <1>2 DEF Clip, TypeOK
    <3>3. DOMAIN frds = 1 .. Len(frds)  BY <1>2 DEF TypeOK
    <3> QED  BY <3>1, <3>2, <3>3
  <2> QED  BY <1>2, <1>4, <2>1, LandingNames DEF LandingPlan
<1>6. pc > 10 => Registry(frds', Landing, Clip(pc' - 11, 7))
  BY <1>2, <1>3 DEF LandingPlan, Registry
<1> QED  BY <1>2, <1>3, <1>5, <1>6 DEF LandingPlan

LEMMA StepLands == LandingFits /\ IInv /\ Started /\ LandingStore /\ [Next]_vars => LandingStore'
<1> SUFFICES ASSUME LandingFits, IInv, Started, LandingStore, [Next]_vars,
                    leg' = "GHZ", "sheet" \notin missed'
             PROVE  LandingPlan'
  BY DEF LandingStore
<1>1. CASE NextLeg
  <2>1. pc' = 1  BY <1>1 DEF NextLeg
  <2> QED  BY <2>1 DEF LandingPlan
<1>2. CASE ~NextLeg
  <2>0. leg = "GHZ" /\ missed \subseteq missed'  BY <1>2, SameLeg
  <2>1. Landed  BY <2>0 DEF Landed
  <2>2. ASSUME NEW s \in Sheets, SheetStep(s) PROVE LandingPlan'
    BY <2>1, <2>2, StageLands, PromoteLands, FallbackLands, FrdLands DEF SheetStep
  <2>3. CASE Reclaim \/ Arm \/ Attach \/ Windows \/ Fg \/ Sky \/ Frame
    BY <2>1, <2>3, ReclaimLands, BindLands, BackdropLands, FrameLands
  <2>4. CASE Floor  BY <2>0, <2>4, AtGhz DEF Floor
  <2>5. CASE UNCHANGED vars
    <3>1. LandingPlan  BY <2>0, <2>1, LandedPlan
    <3> QED  BY <2>5, <3>1 DEF vars, storeVars, LandingPlan, Registry
  <2> QED  BY <1>2, <2>2, <2>3, <2>4, <2>5 DEF Next
<1> QED  BY <1>1, <1>2

(* If the landing's own reads succeed, none of its draws inflates: its seam   *)
(* (arm, reclaim, blobs, letters) leaves every sheet staged, loaded, bound and *)
(* routed, whatever the legs before left behind.  The sizes must fit.        *)
THEOREM LandingTheorem == LandingFits /\ Spec => []LandingServed
<1> SUFFICES ASSUME LandingFits PROVE Spec => []LandingServed  OBVIOUS
<1>1. Init => LandingStore  BY DEF Init, LandingStore
<1>2. IInv /\ Started /\ LandingStore /\ [Next]_vars => LandingStore'  BY StepLands
<1>3. IInv /\ Started /\ LandingStore => LandingServed
  <2> SUFFICES ASSUME IInv, Started, LandingStore, leg = "GHZ", Plays, "sheet" \notin missed
               PROVE  /\ \A s \in Drawn["GHZ"] : s \in DrawnNow /\ Serving(s) # 0
                      /\ resident["DISPLAY"] # None
    BY DEF LandingServed
  <2>1. LandingPlan /\ TypeOK /\ pc \in Nat  BY DEF LandingStore, IInv, TypeOK
  <2>2. pc > 29  BY SeamIs, GhzOps DEF Plays
  <2>3. resident["DISPLAY"] # None  BY <2>1, <2>2 DEF LandingPlan
  <2>4. ASSUME NEW s \in Drawn["GHZ"] PROVE s \in DrawnNow /\ Serving(s) # 0
    <3>1. route[s] # 0 /\ bound[s] # Unbound
      BY <2>1, <2>2, LandingBlobs DEF LandingPlan
    <3>2. s \in Sheets  BY LandingNames
    <3> QED  BY <3>1, <3>2 DEF DrawnNow, Serving
  <2> QED  BY <2>3, <2>4
<1> QED  BY <1>1, <1>2, <1>3, Inductive, StartedAlways, PTL DEF Spec

-------------------------------------------------------------------------------
(* The pixels.  What a scene draws lies where nobody writes: the handles are  *)
(* of this scene's sheets (Scened), the extents lie where the floors put them *)
(* (Places), the backdrop's files are in before the landing fills the store   *)
(* (Backdrop), and the cutscene stays below its sky (CutsceneStore).          *)

Scened == \A s \in Sheets : bound[s] # Unbound => s \in Drawn[leg]

PlacedRight(e) ==
  /\ e[1] = "frd" => e[3] >= FrdFloor
  /\ leg \in {"Logos", "Title"} => e[2] \in TitleSheets
  /\ leg = "AIZ" => e[2] \in TitleSheets \/ e[3] >= AizFloor
Places ==
  /\ \A e \in Live : PlacedRight(e)
  /\ leg = "AIZ" /\ pc > 5 => cursor >= AizFloor

Backdrop ==
  /\ fg => leg = "GHZ"
  /\ leg = "GHZ" /\ "scratch" \notin missed => (pc > 8 => fg) /\ (pc > 9 => sky)

CutsceneTop(p) ==
  FrdFloor + If(p > 7, Raw["PLR"]) + If(p > 8, Raw["HBH"]) + If(p > 9, Frd["GHC"])
  + If(p > 10, Frd["RUBY"]) + If(p > 11, Frd["ITEMS"]) + If(p > 12, Frd["DISPLAY"])
CutscenePlan ==
  cursor <= CutsceneTop(pc) /\ Registry(frds, CutsceneFrds, Clip(pc - 9, 4))
CutsceneStore == leg = "Cutscene" /\ pc > 6 /\ "sheet" \notin missed => CutscenePlan

(* Unspoilt: residents at the start of the store lie under the scanlines, and  *)
(* of the title's residents the jungle draws none.                          *)
Scanned(e) == e[1] = "res" /\ e[3] < Scanlines[2]
Outlived(e) == leg = "AIZ" /\ e[2] \in TitleSheets
Watched ==
  \/ leg \in {"Logos", "Title", "AIZ"}
  \/ leg = "Cutscene" /\ pc > 6 /\ "sheet" \notin missed
  \/ leg = "GHZ" /\ pc > 10 /\ "scratch" \notin missed
Unspoilt == Watched => \A e \in Live : e \in cart \/ Scanned(e) \/ Outlived(e)

-------------------------------------------------------------------------------
(* What a step does to the extents.                                           *)

\* an extent of s is placed behind all the others
Grows(s, e) ==
  /\ e \in Extents /\ e[2] = s /\ cursor <= e[3] /\ (e[1] = "frd" => e[3] >= FrdFloor)
  /\ Live' \subseteq Live \cup {e} /\ cart' = Placed(cart, e)
Same == Live' = Live /\ cart' = cart

LEMMA MakeResidentGrows ==
  ASSUME TypeOK, NEW s \in Sheets, MakeResident(s), UNCHANGED frds
  PROVE  cursor <= cursor' /\ (Same \/ \E e : Grows(s, e))
<1>0. cursor \in Nat /\ Raw[s] \in Nat  BY SizeFacts DEF TypeOK
<1>1. CASE s \in staged /\ Fits(cursor, Raw[s])
  <2> DEFINE e == <<"res", s, cursor>>
  <2>1. /\ resident' = [resident EXCEPT ![s] = cursor] /\ cart' = Placed(cart, e)
        /\ cursor' = cursor + Raw[s]
    BY <1>1 DEF MakeResident, Claimed
  <2>2. e \in Extents /\ e[2] = s /\ e[3] = cursor /\ e[1] = "res"  BY <1>0, ExtentFacts
  <2>3. Live' \subseteq Live \cup {e}  BY <2>1 DEF Live, TypeOK
  <2> HIDE DEF e
  <2>4. Grows(s, e)  BY <1>0, <2>1, <2>2, <2>3 DEF Grows
  <2> QED  BY <1>0, <2>1, <2>4
<1>2. CASE ~(s \in staged /\ Fits(cursor, Raw[s]))
  <2>1. UNCHANGED <<resident, cart, cursor>>  BY <1>2 DEF MakeResident
  <2> QED  BY <1>0, <2>1 DEF Same, Live
<1> QED  BY <1>1, <1>2

LEMMA FrdGrows ==
  ASSUME TypeOK, NEW s \in Sheets, FrdStage(s)
  PROVE  cursor <= cursor' /\ (Same \/ \E e : Grows(s, e))
<1>0. cursor \in Nat /\ Frd[s] \in Nat /\ UNCHANGED resident
  BY SizeFacts DEF TypeOK, FrdStage
<1>1. CASE FrdFound(s)  BY <1>0, <1>1 DEF FrdFound, Same, Live
<1>2. CASE FrdLeftOut(s)
  <2>1. cursor <= cursor'  BY <1>2, AtLeastFacts DEF FrdLeftOut, FrdFloor
  <2> QED  BY <1>0, <1>2, <2>1 DEF FrdLeftOut, Same, Live
<1>3. CASE FrdLoaded(s)
  <2>1. PICK at \in Nat : at = AtLeast(FrdFloor)  BY AtLeastFacts DEF FrdFloor
  <2>2. cursor <= at /\ at >= FrdFloor  BY <1>0, <2>1 DEF AtLeast, FrdFloor
  <2> DEFINE e == <<"frd", s, at>>
  <2>3. PICK blob \in Sheets \X Nat : blob = <<s, at>>  OBVIOUS
  <2>4. frds' = Append(frds, blob) /\ cart' = Placed(cart, e) /\ cursor' = at + Frd[s]
    BY <1>3, <2>1, <2>3 DEF FrdLoaded, Claimed
  <2>5. e \in Extents /\ e[2] = s /\ e[3] = at  BY ExtentFacts
  <2>6. /\ DOMAIN frds' = DOMAIN frds \cup {Len(frds) + 1} /\ frds'[Len(frds) + 1] = blob
        /\ \A i \in DOMAIN frds : frds'[i] = frds[i]
    <3>1. blob \in Sheets \X Nat /\ frds' = Append(frds, blob)  BY <2>3, <2>4
    <3> QED  BY <3>1, AppendFacts
  <2>7. Live' \subseteq Live \cup {e}  BY <1>0, <2>3, <2>6 DEF Live
  <2> HIDE DEF e
  <2>8. Grows(s, e)  BY <2>2, <2>4, <2>5, <2>7 DEF Grows
  <2>9. cursor <= cursor'  BY <1>0, <2>2, <2>4
  <2> QED  BY <2>8, <2>9
<1> QED  BY <1>1, <1>2, <1>3 DEF FrdStage

LEMMA StoreGrows ==
  ASSUME TypeOK, NEW s \in Sheets, Promote(s) \/ Fallback(s) \/ FrdStage(s)
  PROVE  cursor <= cursor' /\ (Same \/ \E e : Grows(s, e))
<1>1. CASE FrdStage(s)  BY <1>1, FrdGrows
<1>2. CASE Promote(s) \/ Fallback(s)
  <2>1. UNCHANGED frds  BY <1>2 DEF Promote, Fallback
  <2>2. CASE MakeResident(s)  BY <2>1, <2>2, MakeResidentGrows
  <2>3. CASE UNCHANGED <<resident, cart, cursor>>  BY <2>1, <2>3 DEF Same, Live, TypeOK
  <2> QED  BY <1>2, <2>2, <2>3 DEF Promote, Fallback
<1> QED  BY <1>1, <1>2

\* what is placed later writes over nothing that is live
LEMMA GrowsKeeps ==
  ASSUME IInv, NEW s, NEW e, Grows(s, e), NEW f \in Live, f \in cart
  PROVE  f \in cart'
<1>1. f \in Extents /\ f[3] + SizeOf(f) <= cursor  BY LiveType DEF IInv, StoreDisjoint
<1>2. cursor \in Nat /\ f[3] + SizeOf(f) \in Nat /\ e[3] \in Nat /\ cursor <= e[3]
  BY <1>1, ExtentFacts DEF IInv, TypeOK, Grows
<1>3. f[3] + SizeOf(f) <= e[3]
  <2>1. PICK top \in Nat : top = f[3] + SizeOf(f)  BY <1>2
  <2> QED  BY <1>1, <1>2, <2>1
<1> QED  BY <1>3 DEF Grows, Placed, Over

\* a window below or behind an extent does not touch it
LEMMA Clear ==
  ASSUME NEW c, NEW w, NEW e \in c, e[3] + SizeOf(e) <= w[1] \/ w[1] + w[2] <= e[3]
  PROVE  e \in Over(c, w)
  BY DEF Over

LEMMA LiveKept ==
  ASSUME UNCHANGED <<resident, frds>> PROVE Live' = Live
  BY DEF Live

-------------------------------------------------------------------------------
(* Scened and Backdrop.                                                       *)

LEMMA StepScened == IInv /\ Started /\ Scened /\ [Next]_vars => Scened'
<1> SUFFICES ASSUME IInv, Started, Scened, [Next]_vars PROVE Scened'  OBVIOUS
<1>1. ASSUME UNCHANGED <<bound, leg>> PROVE Scened'  BY <1>1 DEF Scened
<1>2. ASSUME NEW s \in Sheets, SheetStep(s) PROVE Scened'
  BY <1>1, <1>2 DEF SheetStep, Stage, Promote, Fallback, FrdStage, storeVars
<1>3. CASE Floor \/ Windows \/ Fg \/ Sky \/ Frame \/ UNCHANGED vars
  BY <1>1, <1>3 DEF Floor, Windows, Fg, Sky, Frame, vars, storeVars
<1>4. CASE Reclaim  BY <1>4, NoneIsNoPlace DEF Reclaim, Scened
<1>5. CASE Arm  BY <1>5 DEF Arm, Scened
<1>6. CASE Attach  BY <1>6 DEF Attach, Scened
<1>7. CASE NextLeg  BY <1>7 DEF NextLeg, Scened
<1> QED  BY <1>2, <1>3, <1>4, <1>5, <1>6, <1>7 DEF Next

LEMMA ReadFails ==
  ASSUME NEW what, NEW ok \in BOOLEAN, Read(what, ok), what \notin missed' PROVE ok
  BY ReadMissed

LEMMA FgOnlyGhz ==
  ASSUME TypeOK, Started, NEW op \in {"fg", "sky"}, NEW s, At(op, s) PROVE leg = "GHZ"
  BY AtLogos, AtTitle, AtAiz, AtCutscene DEF TypeOK, Legs

LEMMA StepBackdrop == IInv /\ Started /\ Backdrop /\ [Next]_vars => Backdrop'
<1> SUFFICES ASSUME IInv, Started, Backdrop, [Next]_vars PROVE Backdrop'  OBVIOUS
<1>0. TypeOK /\ pc \in Nat  BY DEF IInv, Started
<1>1. ASSUME ~NextLeg, UNCHANGED skyVars,
         pc' = pc \/ (pc' = pc + 1 /\ (leg = "GHZ" => pc \notin {8, 9}))
      PROVE  Backdrop'
  BY <1>0, <1>1, SameLeg DEF Backdrop, skyVars
<1>2. CASE NextLeg
  <2>1. leg # "GHZ" /\ pc' = 1 /\ fg' = fg  BY <1>2 DEF NextLeg, skyVars
  <2> QED  BY <2>1 DEF Backdrop
<1>3. ASSUME ~NextLeg, NEW op, op \notin {"fg", "sky"}, NEW s, At(op, s), UNCHANGED skyVars
      PROVE  Backdrop'
  <2>1. pc' = pc + 1  BY <1>3, AtFacts
  <2>2. leg = "GHZ" => pc \notin {8, 9}  BY <1>3, AtGhz
  <2> QED  BY <1>1, <1>3, <2>1, <2>2
<1>4. ASSUME ~NextLeg, NEW s \in Sheets, SheetStep(s) PROVE Backdrop'
  BY <1>3, <1>4 DEF SheetStep, Stage, Promote, Fallback, FrdStage
<1>5. CASE ~NextLeg /\ (Reclaim \/ Floor \/ Arm \/ Attach \/ Windows)
  BY <1>3, <1>5 DEF Reclaim, Floor, Arm, Attach, Windows
<1>6. CASE ~NextLeg /\ Fg
  <2>1. leg = "GHZ" /\ pc \in {8, 29} /\ pc' = pc + 1
    BY <1>0, <1>6, FgOnlyGhz, AtGhz, AtFacts DEF Fg
  <2>2. leg' = leg /\ missed \subseteq missed'  BY <1>6, SameLeg
  <2>3. "scratch" \notin missed' => fg'
    BY <1>6, ReadFails DEF Fg
  <2>4. sky' = sky  BY <1>6 DEF Fg
  <2> QED  BY <2>1, <2>2, <2>3, <2>4 DEF Backdrop
<1>7. CASE ~NextLeg /\ Sky
  <2>1. leg = "GHZ" /\ pc = 9 /\ pc' = 10
    BY <1>0, <1>7, FgOnlyGhz, AtGhz, AtFacts DEF Sky
  <2>2. leg' = leg /\ missed \subseteq missed'  BY <1>7, SameLeg
  <2>3. fg' = fg  BY <1>7 DEF Sky
  <2>4. "scratch" \notin missed' => fg  BY <2>1, <2>2 DEF Backdrop
  <2>5. "scratch" \notin missed' => sky'
    BY <1>0, <1>7, <2>4, ReadFails DEF Sky, TypeOK
  <2> QED  BY <2>1, <2>2, <2>3, <2>4, <2>5 DEF Backdrop
<1>8. CASE ~NextLeg /\ Frame
  <2>1. leg' = leg /\ missed \subseteq missed' /\ pc' = pc  BY <1>8, SameLeg DEF Frame
  <2>2. leg # "GHZ" => fg' = fg  BY <1>8 DEF Frame
  <2>3. fg => fg'  BY <1>0, <1>8 DEF Frame, TypeOK
  <2>4. sky => sky'  BY <1>0, <1>8 DEF Frame, TypeOK
  <2> QED  BY <2>1, <2>2, <2>3, <2>4 DEF Backdrop
<1>9. CASE ~NextLeg /\ UNCHANGED vars  BY <1>1, <1>9 DEF vars
<1> QED  BY <1>2, <1>4, <1>5, <1>6, <1>7, <1>8, <1>9 DEF Next

-------------------------------------------------------------------------------
(* Places: in the logos and the title only their own sheets are promoted, and  *)
(* what the jungle's seam adds goes behind its floor.                        *)

LEMMA StepPlaces == IInv /\ Started /\ Places /\ [Next]_vars => Places'
<1> SUFFICES ASSUME IInv, Started, Places, [Next]_vars PROVE Places'  OBVIOUS
<1>0. TypeOK /\ pc \in Nat /\ cursor \in Nat /\ AizFloor \in Nat
  BY DEF IInv, Started, TypeOK, AizFloor
<1>1. ASSUME ~NextLeg, Live' = Live, cursor' \in Nat, cursor <= cursor',
             leg = "AIZ" /\ pc' > 5 => pc > 5 \/ cursor' >= AizFloor
      PROVE  Places'
  <2>1. leg' = leg  BY <1>1, SameLeg
  <2>2. \A e \in Live' : PlacedRight(e)'  BY <1>1, <2>1 DEF Places, PlacedRight
  <2>3. leg' = "AIZ" /\ pc' > 5 => cursor' >= AizFloor  BY <1>0, <1>1, <2>1 DEF Places
  <2> QED  BY <2>2, <2>3 DEF Places
<1>2. CASE NextLeg
  <2>1. leg' = Following(leg) /\ pc' = 1 /\ Live' = Live  BY <1>2, LiveKept DEF NextLeg
  <2>2. /\ leg' \in {"Logos", "Title"} => leg = "Logos"
        /\ leg' = "AIZ" => leg = "Title"
    BY <1>0, <2>1 DEF Following, TypeOK, Legs
  <2>3. \A e \in Live' : PlacedRight(e)'  BY <2>1, <2>2 DEF Places, PlacedRight
  <2> QED  BY <2>1, <2>3 DEF Places
<1>3. ASSUME ~NextLeg, NEW op, NEW s, At(op, s), op # "floor" PROVE leg = "AIZ" /\ pc' > 5 => pc > 5
  <2>1. pc' = pc + 1  BY <1>3, AtFacts
  <2>2. leg = "AIZ" => pc # 5  BY <1>3, AtAiz
  <2> QED  BY <1>0, <2>1, <2>2
<1>4. ASSUME ~NextLeg, NEW s \in Sheets, Promote(s) \/ Fallback(s) \/ FrdStage(s) PROVE Places'
  <2>1. PICK op \in {"promote", "fallback", "frd"} : At(op, s)
    BY <1>4 DEF Promote, Fallback, FrdStage
  <2>2. cursor <= cursor' /\ (Same \/ \E e : Grows(s, e))  BY <1>0, <1>4, StoreGrows
  <2>3. cursor' \in Nat  BY <1>4, PromoteIInv, FrdStageIInv DEF IInv, TypeOK
  <2>4. leg = "AIZ" /\ pc' > 5 => pc > 5  BY <1>3, <1>4, <2>1
  <2>5. CASE Same  BY <1>1, <1>4, <2>2, <2>3, <2>4, <2>5 DEF Same
  <2>6. ASSUME NEW e, Grows(s, e) PROVE Places'
    <3>1. leg' = leg  BY <1>4, SameLeg
    <3>2. leg \in {"Logos", "Title"} => s \in TitleSheets  BY <2>1, AtLogos, AtTitle
    <3>3. leg = "AIZ" => cursor >= AizFloor  BY <2>1, AtAiz DEF Places
    <3>4. e[2] = s /\ cursor <= e[3] /\ e[3] \in Nat /\ (e[1] = "frd" => e[3] >= FrdFloor)
      BY <2>6, ExtentFacts DEF Grows
    <3>5. leg = "AIZ" => e[3] >= AizFloor  BY <1>0, <3>3, <3>4
    <3>6. PlacedRight(e)'  BY <3>1, <3>2, <3>4, <3>5 DEF PlacedRight
    <3>7. \A f \in Live : PlacedRight(f)'  BY <3>1 DEF Places, PlacedRight
    <3>8. \A f \in Live' : PlacedRight(f)'
      <4>1. Live' \subseteq Live \cup {e}  BY <2>6 DEF Grows
      <4> QED  BY <3>6, <3>7, <4>1
    <3>9. leg' = "AIZ" /\ pc' > 5 => cursor' >= AizFloor
      BY <1>0, <2>2, <2>3, <2>4, <3>1 DEF Places
    <3> QED  BY <3>8, <3>9 DEF Places
  <2> QED  BY <2>2, <2>5, <2>6
<1>5. ASSUME ~NextLeg, NEW s \in Sheets, Stage(s) PROVE Places'
  <2>1. leg = "AIZ" /\ pc' > 5 => pc > 5  BY <1>3, <1>5 DEF Stage
  <2>2. cursor' = cursor /\ Live' = Live  BY <1>5, LiveKept DEF Stage, storeVars
  <2> QED  BY <1>0, <1>1, <1>5, <2>1, <2>2
<1>6. CASE ~NextLeg /\ (Arm \/ Attach \/ Windows \/ Fg \/ Sky)
  <2>1. leg = "AIZ" /\ pc' > 5 => pc > 5  BY <1>3, <1>6 DEF Arm, Attach, Windows, Fg, Sky
  <2>2. cursor' = cursor /\ Live' = Live
    BY <1>6, LiveKept DEF Arm, Attach, Windows, Fg, Sky, storeVars
  <2> QED  BY <1>0, <1>1, <1>6, <2>1, <2>2
<1>7. CASE ~NextLeg /\ Reclaim
  <2>1. Live' = {}  BY <1>7 DEF Reclaim, Live
  <2>2. leg' # "AIZ"  BY <1>7, SameLeg, AtAiz DEF Reclaim
  <2> QED  BY <2>1, <2>2 DEF Places
<1>8. CASE ~NextLeg /\ Floor
  <2>1. cursor' = AtLeast(AizFloor) /\ Live' = Live  BY <1>8, LiveKept DEF Floor
  <2>2. cursor' \in Nat /\ cursor <= cursor' /\ cursor' >= AizFloor
    BY <1>0, <2>1 DEF AtLeast
  <2> QED  BY <1>1, <1>8, <2>1, <2>2
<1>9. CASE ~NextLeg /\ (Frame \/ UNCHANGED vars)
  <2>1. cursor' = cursor /\ Live' = Live /\ pc' = pc
    BY <1>9, LiveKept DEF Frame, vars, storeVars
  <2> QED  BY <1>0, <1>1, <1>9, <2>1
<1> QED  BY <1>2, <1>4, <1>5, <1>6, <1>7, <1>8, <1>9 DEF Next, SheetStep

-------------------------------------------------------------------------------
(* The cutscene, as long as its own reads succeed.                             *)

LEMMA CutsceneNames ==
  /\ \A i \in 1 .. 4 : CutsceneFrds[i] \in Sheets
  /\ \A i, j \in 1 .. 4 : i # j => CutsceneFrds[i] # CutsceneFrds[j]
  /\ Len(CutsceneFrds) = 4
<1>1. Len(CutsceneFrds) = 4  BY DEF CutsceneFrds
<1>2. \A i \in 1 .. 4 : CutsceneFrds[i] \in Sheets  BY DEF CutsceneFrds, Sheets
<1>3. \A i, j \in 1 .. 4 : i # j => CutsceneFrds[i] # CutsceneFrds[j]  BY DEF CutsceneFrds
<1> QED  BY <1>1, <1>2, <1>3

LEMMA CutsceneTopFacts ==
  /\ \A p \in Nat : CutsceneTop(p) \in Nat /\ FrdFloor <= CutsceneTop(p)
                    /\ (CutsceneFits => CutsceneTop(p) <= CutsceneSky[1])
  /\ CutsceneTop(8) = CutsceneTop(7) + Raw["PLR"]
  /\ CutsceneTop(9) = CutsceneTop(8) + Raw["HBH"]
  /\ \A p \in 9 .. 12 : CutsceneTop(p + 1) = CutsceneTop(p) + Frd[CutsceneFrds[p - 8]]
  /\ \A p \in 13 .. 18 : CutsceneTop(p) = CutsceneTop(13)
<1>0. /\ Raw["PLR"] \in Nat /\ Raw["HBH"] \in Nat /\ Frd["GHC"] \in Nat
      /\ Frd["RUBY"] \in Nat /\ Frd["ITEMS"] \in Nat /\ Frd["DISPLAY"] \in Nat
      /\ FrdFloor \in Nat
  BY SizeFacts DEF Sheets, FrdFloor
<1>1. \A p \in Nat : CutsceneTop(p) \in Nat /\ FrdFloor <= CutsceneTop(p)
  BY <1>0 DEF CutsceneTop, If
<1>2. CutsceneFits => \A p \in Nat : CutsceneTop(p) <= CutsceneSky[1]
  <2>1. PICK top \in Nat : top = CutsceneSky[1]  BY DEF CutsceneSky
  <2>2. CutsceneFits => FrdFloor + Raw["PLR"] + Raw["HBH"] + Frd["GHC"] + Frd["RUBY"]
                         + Frd["ITEMS"] + Frd["DISPLAY"] <= top
    BY <2>1 DEF CutsceneFits
  <2>3. CutsceneFits => \A p \in Nat : CutsceneTop(p) <= top
    BY <1>0, <2>2 DEF CutsceneTop, If
  <2> QED  BY <2>1, <2>3
<1>3. CutsceneTop(8) = CutsceneTop(7) + Raw["PLR"]  BY <1>0 DEF CutsceneTop, If
<1>4. CutsceneTop(9) = CutsceneTop(8) + Raw["HBH"]  BY <1>0 DEF CutsceneTop, If
<1>5. \A p \in 9 .. 12 : CutsceneTop(p + 1) = CutsceneTop(p) + Frd[CutsceneFrds[p - 8]]
  <2>1. /\ CutsceneFrds[1] = "GHC" /\ CutsceneFrds[2] = "RUBY"
        /\ CutsceneFrds[3] = "ITEMS" /\ CutsceneFrds[4] = "DISPLAY"
    BY DEF CutsceneFrds
  <2>2. CutsceneTop(10) = CutsceneTop(9) + Frd["GHC"]  BY <1>0 DEF CutsceneTop, If
  <2>3. CutsceneTop(11) = CutsceneTop(10) + Frd["RUBY"]  BY <1>0 DEF CutsceneTop, If
  <2>4. CutsceneTop(12) = CutsceneTop(11) + Frd["ITEMS"]  BY <1>0 DEF CutsceneTop, If
  <2>5. CutsceneTop(13) = CutsceneTop(12) + Frd["DISPLAY"]  BY <1>0 DEF CutsceneTop, If
  <2> QED  BY <2>1, <2>2, <2>3, <2>4, <2>5
<1>6. \A p \in 13 .. 18 : CutsceneTop(p) = CutsceneTop(13)  BY <1>0 DEF CutsceneTop, If
<1> QED  BY <1>1, <1>2, <1>3, <1>4, <1>5, <1>6

Cut == /\ IInv /\ Started /\ CutsceneStore /\ leg = "Cutscene"
       /\ "sheet" \notin missed' /\ missed \subseteq missed'

LEMMA CutPlan == ASSUME Cut, pc > 6 PROVE CutscenePlan
  BY DEF Cut, CutsceneStore

LEMMA ReclaimCut == ASSUME Cut, Reclaim PROVE CutscenePlan'
<1>1. pc = 6 /\ pc' = 7  BY AtCutscene, AtFacts DEF Reclaim, Cut
<1>2. frds' = <<>> /\ cursor' = 0  BY DEF Reclaim, CursorAfterReset, Rewound
<1>3. Registry(frds', CutsceneFrds, Clip(pc' - 9, 4))  BY <1>1, <1>2 DEF Registry, Clip
<1>4. cursor' <= CutsceneTop(pc')
  <2>1. CutsceneTop(7) \in Nat  BY CutsceneTopFacts
  <2> QED  BY <1>1, <1>2, <2>1
<1> QED  BY <1>3, <1>4 DEF CutscenePlan

LEMMA PromoteCut == ASSUME Cut, NEW s \in Sheets, Promote(s) PROVE CutscenePlan'
<1>1. (pc = 7 /\ s = "PLR") \/ (pc = 8 /\ s = "HBH")  BY AtCutscene DEF Promote, Cut
<1>2. pc' = pc + 1 /\ pc > 6  BY <1>1, AtFacts DEF Promote, Cut
<1>3. CutscenePlan /\ cursor \in Nat  BY <1>2, CutPlan DEF Cut, IInv, TypeOK
<1>4. UNCHANGED frds /\ (cursor' = cursor \/ cursor' = cursor + Raw[s])
  BY DEF Promote, MakeResident, Claimed
<1>5. CutsceneTop(pc') = CutsceneTop(pc) + Raw[s] /\ CutsceneTop(pc) \in Nat /\ Raw[s] \in Nat
  BY <1>1, <1>2, CutsceneTopFacts, SizeFacts
<1>6. cursor' <= CutsceneTop(pc')
  <2>1. PICK a \in Nat : a = CutsceneTop(pc)  BY <1>5
  <2>2. PICK b \in Nat : b = Raw[s]  BY <1>5
  <2>3. cursor <= a  BY <1>3, <2>1 DEF CutscenePlan
  <2> QED  BY <1>3, <1>4, <1>5, <2>1, <2>2, <2>3
<1>7. Clip(pc - 9, 4) = 0 /\ Clip(pc' - 9, 4) = 0  BY <1>1, <1>2 DEF Clip
<1>8. Registry(frds', CutsceneFrds, Clip(pc' - 9, 4))
  BY <1>3, <1>4, <1>7 DEF CutscenePlan, Registry
<1> QED  BY <1>6, <1>8 DEF CutscenePlan

LEMMA FrdCut == ASSUME CutsceneFits, Cut, NEW s \in Sheets, FrdStage(s) PROVE CutscenePlan'
<1>1. pc \in 9 .. 12 /\ s = CutsceneFrds[pc - 8] /\ pc' = pc + 1
  BY AtCutscene, AtFacts DEF FrdStage, Cut
<1>2. CutscenePlan /\ TypeOK  BY <1>1, CutPlan DEF Cut, IInv
<1>3. PICK k \in 0 .. 3 : k = pc - 9  BY <1>1
<1>4. Clip(pc - 9, 4) = k /\ Clip(pc' - 9, 4) = k + 1  BY <1>1, <1>3 DEF Clip
<1>5. Registry(frds, CutsceneFrds, k) /\ s = CutsceneFrds[k + 1]
  <2>1. pc - 8 = k + 1  BY <1>1, <1>3
  <2> QED  BY <1>1, <1>2, <1>4, <2>1 DEF CutscenePlan
<1>6. DOMAIN frds = 1 .. k /\ Len(frds) = k  BY <1>2, <1>5 DEF Registry, TypeOK
<1>7. Blob(s) = 0
  <2>1. ASSUME NEW i \in DOMAIN frds PROVE frds[i][1] # s
    <3>1. i \in 1 .. k /\ frds[i][1] = CutsceneFrds[i]  BY <1>5, <1>6 DEF Registry
    <3>2. i \in 1 .. 4 /\ k + 1 \in 1 .. 4 /\ i # k + 1  BY <1>3, <3>1
    <3> QED  BY <1>5, <3>1, <3>2, CutsceneNames
  <2> QED  BY <2>1, Unnamed
<1>8. PICK at \in Nat : at = AtLeast(FrdFloor)  BY <1>2, AtLeastFacts DEF FrdFloor
<1>9. at <= CutsceneTop(pc) /\ CutsceneTop(pc) \in Nat
  <2>1. /\ cursor <= CutsceneTop(pc) /\ FrdFloor <= CutsceneTop(pc)
        /\ CutsceneTop(pc) \in Nat
    BY <1>1, <1>2, CutsceneTopFacts DEF CutscenePlan
  <2> QED  BY <1>8, <2>1 DEF AtLeast
<1>10. CutsceneTop(pc') = CutsceneTop(pc) + Frd[s] /\ CutsceneTop(pc') <= 128 /\ Frd[s] \in Nat
  <2>1. CutsceneSky[1] = 128  BY DEF CutsceneSky
  <2> QED  BY <1>1, <2>1, CutsceneTopFacts, SizeFacts
<1>11. at + Frd[s] <= CutsceneTop(pc') /\ at + Frd[s] <= End
  <2>1. PICK a \in Nat : a = CutsceneTop(pc)  BY <1>9
  <2>2. 128 <= End /\ End \in Nat  BY DEF AizFloor
  <2> QED  BY <1>9, <1>10, <2>1, <2>2
<1>12. ~FrdLeftOut(s)
  <2>1. Fits(at, Frd[s]) /\ ~(Len(frds) >= FrdSlots)
    <3>1. 4 <= FrdSlots /\ FrdSlots \in Nat  BY CutsceneNames DEF CutsceneFits
    <3> QED  BY <1>3, <1>6, <1>11, <3>1 DEF Fits
  <2> SUFFICES ASSUME FrdLeftOut(s) PROVE FALSE  OBVIOUS
  <2>2. Read("sheet", FALSE)  BY <1>8, <2>1 DEF FrdLeftOut
  <2> QED  BY <2>2, ReadMissed DEF Cut
<1>13. FrdLoaded(s)  BY <1>7, <1>12 DEF FrdStage
<1>14. PICK blob \in Sheets \X Nat : blob = <<s, at>>  OBVIOUS
<1>15. frds' = Append(frds, blob) /\ cursor' = at + Frd[s] /\ blob[1] = CutsceneFrds[k + 1]
  BY <1>5, <1>8, <1>13, <1>14 DEF FrdLoaded, Claimed
<1>16. Registry(frds', CutsceneFrds, k + 1)
  <2>1. k \in Nat  BY <1>3
  <2> QED  BY <1>2, <1>5, <1>15, <2>1, RegistryGrows
<1> QED  BY <1>4, <1>11, <1>15, <1>16 DEF CutscenePlan

\* behind the last blob nothing is placed any more
LEMMA PlanRests ==
  ASSUME CutscenePlan, pc \in 13 .. 17, pc' = pc + 1, UNCHANGED <<frds, cursor>>
  PROVE  CutscenePlan'
<1>1. Clip(pc - 9, 4) = 4 /\ Clip(pc' - 9, 4) = 4  BY DEF Clip
<1>2. CutsceneTop(pc') = CutsceneTop(pc)
  <2>1. pc' \in 13 .. 18 /\ pc \in 13 .. 18  OBVIOUS
  <2> QED  BY <2>1, CutsceneTopFacts
<1> QED  BY <1>1, <1>2 DEF CutscenePlan, Registry

LEMMA FallbackCut == ASSUME Cut, NEW s \in Sheets, Fallback(s) PROVE CutscenePlan'
<1>1. pc \in 13 .. 16 /\ s = CutsceneFrds[pc - 12] /\ pc' = pc + 1
  BY AtCutscene, AtFacts DEF Fallback, Cut
<1>2. CutscenePlan /\ TypeOK  BY <1>1, CutPlan DEF Cut, IInv
<1>3. Registry(frds, CutsceneFrds, 4)  BY <1>1, <1>2 DEF CutscenePlan, Clip
<1>4. PICK i \in 1 .. 4 : i = pc - 12  BY <1>1
<1>5. i \in DOMAIN frds /\ frds[i][1] = s  BY <1>1, <1>2, <1>3, <1>4 DEF Registry, TypeOK
<1>6. Blob(s) # 0  BY <1>2, <1>5, Named
<1>7. UNCHANGED <<frds, cursor>>  BY <1>6 DEF Fallback
<1>8. pc \in 13 .. 17  BY <1>1
<1> QED  BY <1>1, <1>2, <1>7, <1>8, PlanRests

LEMMA StepCutscene ==
  CutsceneFits /\ IInv /\ Started /\ CutsceneStore /\ [Next]_vars => CutsceneStore'
<1> SUFFICES ASSUME CutsceneFits, IInv, Started, CutsceneStore, [Next]_vars,
                    leg' = "Cutscene", pc' > 6, "sheet" \notin missed'
             PROVE  CutscenePlan'
  BY DEF CutsceneStore
<1>1. ~NextLeg  BY DEF NextLeg
<1>2. Cut  BY <1>1, SameLeg DEF Cut
<1>3. pc \in Nat  BY DEF Started
<1>4. ASSUME NEW op, NEW s, At(op, s), op \in {"stage", "arm", "floor", "windows", "fg", "sky"}
      PROVE  FALSE
  <2>1. op \in {"stage", "arm"} /\ pc <= 5  BY <1>2, <1>4, AtCutscene DEF Cut
  <2>2. pc' = pc + 1  BY <1>4, AtFacts
  <2> QED  BY <1>3, <2>1, <2>2
<1>5. ASSUME NEW s \in Sheets, SheetStep(s) PROVE CutscenePlan'
  <2>1. ~Stage(s)  BY <1>4 DEF Stage
  <2> QED  BY <1>2, <1>5, <2>1, PromoteCut, FallbackCut, FrdCut DEF SheetStep
<1>6. CASE Reclaim  BY <1>2, <1>6, ReclaimCut
<1>7. CASE Attach
  <2>1. pc = 17 /\ pc' = pc + 1  BY <1>2, <1>7, AtCutscene, AtFacts DEF Attach, Cut
  <2>2. CutscenePlan  BY <1>2, <2>1, CutPlan
  <2>3. UNCHANGED <<frds, cursor>> /\ pc \in 13 .. 17  BY <1>7, <2>1 DEF Attach
  <2> QED  BY <2>1, <2>2, <2>3, PlanRests
<1>8. ~(Floor \/ Arm \/ Windows \/ Fg \/ Sky)  BY <1>4 DEF Floor, Arm, Windows, Fg, Sky
<1>9. CASE Frame \/ UNCHANGED vars
  <2>1. UNCHANGED <<pc, frds, cursor>>  BY <1>9 DEF Frame, vars, storeVars
  <2>2. CutscenePlan  BY <1>2, <2>1, CutPlan
  <2> QED  BY <2>1, <2>2 DEF CutscenePlan, Registry
<1> QED  BY <1>1, <1>5, <1>6, <1>7, <1>8, <1>9 DEF Next

-------------------------------------------------------------------------------
(* Unspoilt: whoever writes over the store writes where nothing live lies.     *)

\* only a rewind begins to watch
LEMMA WatchedBefore ==
  ASSUME TypeOK, Started, [Next]_vars, ~NextLeg, Watched',
         pc' = pc \/ \E op, s : op # "reclaim" /\ At(op, s)
  PROVE  Watched /\ leg' = leg /\ missed \subseteq missed'
<1>0. pc \in Nat  BY DEF Started
<1>1. leg' = leg /\ missed \subseteq missed'  BY SameLeg
<1>2. CASE pc' = pc  BY <1>1, <1>2 DEF Watched
<1>3. ASSUME NEW op, NEW s, op # "reclaim", At(op, s) PROVE Watched
  <2>1. pc' = pc + 1  BY <1>3, AtFacts
  <2>2. leg = "Cutscene" => pc # 6  BY <1>3, AtCutscene
  <2>3. leg = "GHZ" => pc # 10  BY <1>3, AtGhz
  <2>4. leg = "Cutscene" /\ pc' > 6 => pc > 6  BY <1>0, <2>1, <2>2
  <2>5. leg = "GHZ" /\ pc' > 10 => pc > 10  BY <1>0, <2>1, <2>3
  <2> QED  BY <1>1, <2>4, <2>5 DEF Watched
<1> QED  BY <1>1, <1>2, <1>3

\* no step but an allocation writes over what is watched
SparedBy(e) == e \in cart => e \in cart' \/ Scanned(e) \/ Outlived(e)

LEMMA SparedKeeps ==
  ASSUME Unspoilt, Live' = Live, leg' = leg,
         Watched' => Watched /\ \A e \in Live : SparedBy(e)
  PROVE  Unspoilt'
<1> SUFFICES ASSUME Watched', NEW e \in Live' PROVE e \in cart' \/ Scanned(e) \/ Outlived(e)'
  BY DEF Unspoilt, Scanned
<1>1. e \in cart \/ Scanned(e) \/ Outlived(e)  BY DEF Unspoilt
<1>2. Outlived(e) => Outlived(e)'  BY DEF Outlived
<1> QED  BY <1>1, <1>2 DEF SparedBy

LEMMA StoreSpares ==
  ASSUME IInv, Started, Unspoilt, [Next]_vars, ~NextLeg,
         NEW s \in Sheets, Promote(s) \/ Fallback(s) \/ FrdStage(s)
  PROVE  Unspoilt'
<1>0. TypeOK  BY DEF IInv
<1> SUFFICES ASSUME Watched' PROVE Unspoilt'  BY DEF Unspoilt
<1>1. Watched /\ leg' = leg
  <2>1. \E op, t : op # "reclaim" /\ At(op, t)  BY DEF Promote, Fallback, FrdStage
  <2> QED  BY <1>0, <2>1, WatchedBefore
<1>2. CASE Same  BY <1>1, <1>2, SparedKeeps DEF Same, SparedBy
<1>3. ASSUME NEW e, Grows(s, e) PROVE Unspoilt'
  <2>1. Live' \subseteq Live \cup {e} /\ cart' = Placed(cart, e)  BY <1>3 DEF Grows
  <2>2. e \in cart'  BY <2>1 DEF Placed
  <2>3. \A f \in Live : f \in cart => f \in cart'  BY <1>3, GrowsKeeps
  <2>4. \A f \in Live : f \in cart \/ Scanned(f) \/ Outlived(f)  BY <1>1 DEF Unspoilt
  <2>5. \A f \in Live : Outlived(f) => Outlived(f)'  BY <1>1 DEF Outlived
  <2>6. \A f \in Live' : f \in cart' \/ Scanned(f) \/ Outlived(f)'
    BY <2>1, <2>2, <2>3, <2>4, <2>5
  <2> QED  BY <2>6 DEF Unspoilt, Scanned
<1> QED  BY <1>0, <1>2, <1>3, StoreGrows

LEMMA WindowsSpares ==
  ASSUME IInv, Started, Places, Windows, NEW e \in Live PROVE SparedBy(e)
<1>0. TypeOK /\ leg \in Legs /\ At("windows", "all")  BY DEF Windows, IInv, TypeOK
<1>1. TypeOK /\ leg = "AIZ"
  <2>1. leg # "Logos"  BY <1>0, AtLogos
  <2>2. leg # "Title"  BY <1>0, AtTitle
  <2>3. leg # "Cutscene"  BY <1>0, AtCutscene
  <2>4. leg # "GHZ"  BY <1>0, AtGhz
  <2> QED  BY <1>0, <2>1, <2>2, <2>3, <2>4 DEF Legs
<1>2. CASE e[2] \in TitleSheets  BY <1>1, <1>2 DEF SparedBy, Outlived
<1>3. CASE e[3] >= AizFloor
  <2>1. e[3] \in Nat  BY <1>1, LiveType, ExtentFacts
  <2>2. AizWindows[1] + AizWindows[2] <= e[3]  BY <1>3, <2>1 DEF AizWindows, AizFloor
  <2>3. cart' = Over(cart, AizWindows)  BY DEF Windows
  <2>4. e \in cart => e \in Over(cart, AizWindows)  BY <2>2 DEF Over
  <2> QED  BY <2>3, <2>4 DEF SparedBy
<1> QED  BY <1>1, <1>2, <1>3 DEF Places, PlacedRight

\* the scanlines reach only residents at the very start of the store
LEMMA ScanlinesSpare ==
  ASSUME TypeOK, Places, NEW e \in Live, e \in cart
  PROVE  e \in Over(cart, Scanlines) \/ Scanned(e)
<1>1. e \in Extents /\ e[3] \in Nat /\ e[1] \in {"res", "frd"}
  BY LiveType, ExtentFacts DEF Extents
<1>2. e[1] = "frd" => e[3] >= 1  BY DEF Places, PlacedRight, FrdFloor
<1>3. Scanlines[1] + Scanlines[2] = 1 /\ Scanlines[2] = 1  BY DEF Scanlines
<1>4. CASE e[3] >= 1  BY <1>1, <1>3, <1>4 DEF Over
<1>5. CASE e[3] < 1  BY <1>1, <1>2, <1>3, <1>5 DEF Scanned
<1> QED  BY <1>1, <1>4, <1>5

LEMMA FrameSpares ==
  ASSUME CutsceneFits, IInv, Started, Places, Backdrop, CutsceneStore, Frame,
         Watched, "sheet" \notin missed \/ leg # "Cutscene",
         "scratch" \notin missed \/ leg # "GHZ", NEW e \in Live
  PROVE  SparedBy(e)
<1>0. TypeOK /\ pc \in Nat /\ leg \in Legs  BY DEF IInv, Started, TypeOK
<1> SUFFICES ASSUME e \in cart PROVE e \in cart' \/ Scanned(e)  BY DEF SparedBy
<1>1. e \in Over(cart, Scanlines) \/ Scanned(e)  BY <1>0, ScanlinesSpare
<1>2. CASE leg = "Logos"
  <2>1. cart' = cart  BY <1>2 DEF Frame
  <2> QED  BY <2>1
<1>3. CASE leg \in {"Title", "AIZ"}
  <2>1. cart' = Over(cart, Scanlines)  BY <1>3 DEF Frame
  <2> QED  BY <1>1, <2>1
<1>4. CASE leg = "Cutscene"
  <2>1. ~fg /\ fg' = fg  BY <1>4 DEF Frame, Backdrop
  <2>2. /\ cart' = Over(cart, Scanlines) \/ cart' = Over(Over(cart, Scanlines), CutsceneSky)
    BY <1>4, <2>1 DEF Frame
  <2>3. CutscenePlan  BY <1>4 DEF Watched, CutsceneStore
  <2>4. cursor <= 128
    <3>1. PICK a \in Nat : a = CutsceneTop(pc)  BY <1>0, CutsceneTopFacts
    <3>2. a <= 128  BY <1>0, <3>1, CutsceneTopFacts DEF CutsceneSky
    <3> QED  BY <1>0, <2>3, <3>1, <3>2 DEF CutscenePlan, TypeOK
  <2>5. e[3] + SizeOf(e) <= CutsceneSky[1]
    <3>1. e \in Extents /\ e[3] + SizeOf(e) <= cursor  BY <1>0, LiveType DEF IInv, StoreDisjoint
    <3>2. PICK n \in Nat : n = e[3] + SizeOf(e)  BY <3>1, ExtentFacts
    <3>3. n <= cursor /\ cursor \in Nat  BY <1>0, <3>1, <3>2 DEF TypeOK
    <3> QED  BY <2>4, <3>2, <3>3 DEF CutsceneSky
  <2>6. e \in Over(cart, Scanlines) => e \in Over(Over(cart, Scanlines), CutsceneSky)
    <3> DEFINE c == Over(cart, Scanlines)
    <3> HIDE DEF c
    <3>1. e \in c => e \in Over(c, CutsceneSky)  BY <2>5 DEF Over
    <3> QED  BY <3>1 DEF c
  <2> QED  BY <1>1, <2>2, <2>6
<1>5. CASE leg = "GHZ"
  <2>1. fg /\ sky  BY <1>0, <1>5 DEF Watched, Backdrop
  <2>2. cart' = Over(cart, Scanlines)  BY <1>5, <2>1 DEF Frame
  <2> QED  BY <1>1, <2>2
<1> QED  BY <1>0, <1>2, <1>3, <1>4, <1>5 DEF Legs

LEMMA StepUnspoilt ==
  CutsceneFits /\ IInv /\ Started /\ Places /\ Backdrop /\ CutsceneStore /\ Unspoilt
  /\ [Next]_vars => Unspoilt'
<1> SUFFICES ASSUME CutsceneFits, IInv, Started, Places, Backdrop, CutsceneStore, Unspoilt,
                    [Next]_vars
             PROVE  Unspoilt'
  OBVIOUS
<1>0. TypeOK /\ pc \in Nat /\ leg \in Legs  BY DEF IInv, Started, TypeOK
<1>1. ASSUME ~NextLeg, Watched', pc' = pc \/ \E op, s : op # "reclaim" /\ At(op, s)
      PROVE  Watched /\ leg' = leg /\ missed \subseteq missed'
  BY <1>0, <1>1, WatchedBefore
<1>2. ASSUME ~NextLeg, cart' = cart, Live' = Live,
             pc' = pc \/ \E op, s : op # "reclaim" /\ At(op, s)
      PROVE  Unspoilt'
  <2>1. leg' = leg  BY <1>2, SameLeg
  <2> QED  BY <1>1, <1>2, <2>1, SparedKeeps DEF SparedBy
<1>3. CASE NextLeg
  <2>1. /\ leg' = Following(leg) /\ pc' = 1 /\ Live' = Live /\ cart' = cart
    BY <1>3, LiveKept DEF NextLeg
  <2>2. Watched' => leg \in {"Logos", "Title"}
    BY <1>0, <2>1 DEF Watched, Following, Legs
  <2>3. leg \in {"Logos", "Title"} => \A e \in Live : e \in cart \/ Scanned(e)
    BY DEF Unspoilt, Watched, Outlived
  <2> QED  BY <2>1, <2>2, <2>3 DEF Unspoilt, Scanned
<1>4. ASSUME ~NextLeg, NEW s \in Sheets, Stage(s) PROVE Unspoilt'
  <2>1. At("stage", s) /\ Live' = Live  BY <1>4, LiveKept DEF Stage, storeVars
  <2>2. pc' = pc + 1 /\ leg' = leg  BY <1>4, <2>1, AtFacts, SameLeg
  <2>3. CASE leg = "Cutscene"
    <3>1. pc' \in 2 .. 5  BY <2>1, <2>2, <2>3, AtCutscene
    <3>2. ~Watched'  BY <2>2, <2>3, <3>1 DEF Watched
    <3> QED  BY <3>2 DEF Unspoilt
  <2>4. CASE leg # "Cutscene"
    <3>1. cart' = cart  BY <1>4, <2>4 DEF Stage
    <3>2. \E op, t : op # "reclaim" /\ At(op, t)  BY <2>1
    <3> QED  BY <1>2, <1>4, <2>1, <3>1, <3>2
  <2> QED  BY <2>3, <2>4
<1>5. ASSUME ~NextLeg, NEW s \in Sheets, Promote(s) \/ Fallback(s) \/ FrdStage(s) PROVE Unspoilt'
  BY <1>5, StoreSpares
<1>6. CASE ~NextLeg /\ Reclaim
  <2>1. Live' = {}  BY <1>6 DEF Reclaim, Live
  <2> QED  BY <2>1 DEF Unspoilt
<1>7. CASE ~NextLeg /\ (Floor \/ Arm \/ Attach)
  <2>1. cart' = cart /\ Live' = Live  BY <1>7, LiveKept DEF Floor, Arm, Attach
  <2>2. \E op, t : op # "reclaim" /\ At(op, t)  BY <1>7 DEF Floor, Arm, Attach
  <2> QED  BY <1>2, <1>7, <2>1, <2>2
<1>8. CASE ~NextLeg /\ Windows
  <2>1. Live' = Live /\ leg' = leg  BY <1>8, LiveKept, SameLeg DEF Windows, storeVars
  <2>2. \A e \in Live : SparedBy(e)  BY <1>8, WindowsSpares
  <2>3. \E op, t : op # "reclaim" /\ At(op, t)  BY <1>8 DEF Windows
  <2>4. Watched' => Watched  BY <1>1, <1>8, <2>3
  <2> QED  BY <2>1, <2>2, <2>4, SparedKeeps
<1>9. CASE ~NextLeg /\ Fg
  <2>1. leg = "GHZ" /\ pc \in {8, 29} /\ pc' = pc + 1 /\ leg' = leg
    BY <1>0, <1>9, FgOnlyGhz, AtGhz, AtFacts, SameLeg DEF Fg
  <2>2. Live' = Live  BY <1>9, LiveKept DEF Fg, storeVars
  <2>3. \E op, t : op # "reclaim" /\ At(op, t)  BY <1>9 DEF Fg
  <2>4. Watched' => Watched /\ cart' = cart
    <3> SUFFICES ASSUME Watched' PROVE Watched /\ cart' = cart  OBVIOUS
    <3>1. Watched  BY <1>1, <1>9, <2>3
    <3>2. pc > 8 /\ "scratch" \notin missed  BY <2>1, <3>1 DEF Watched
    <3>3. fg  BY <2>1, <3>2 DEF Backdrop
    <3> QED  BY <1>9, <3>1, <3>3 DEF Fg
  <2> QED  BY <2>1, <2>2, <2>4, SparedKeeps DEF SparedBy
<1>10. CASE ~NextLeg /\ Sky
  <2>1. leg = "GHZ" /\ pc' = 10
    BY <1>0, <1>10, FgOnlyGhz, AtGhz, AtFacts DEF Sky
  <2>2. leg' = leg  BY <1>10, SameLeg
  <2>3. ~Watched'  BY <2>1, <2>2 DEF Watched
  <2> QED  BY <2>3 DEF Unspoilt
<1>11. CASE ~NextLeg /\ Frame
  <2>1. Live' = Live /\ pc' = pc /\ leg' = leg  BY <1>11, LiveKept, SameLeg DEF Frame
  <2>2. ASSUME Watched' PROVE Watched /\ \A e \in Live : SparedBy(e)
    <3>1. Watched  BY <1>1, <1>11, <2>1, <2>2
    <3>2. "sheet" \notin missed \/ leg # "Cutscene"  BY <3>1 DEF Watched
    <3>3. "scratch" \notin missed \/ leg # "GHZ"  BY <3>1 DEF Watched
    <3> QED  BY <1>11, <3>1, <3>2, <3>3, FrameSpares
  <2> QED  BY <2>1, <2>2, SparedKeeps
<1>12. CASE ~NextLeg /\ UNCHANGED vars
  <2>1. cart' = cart /\ Live' = Live /\ pc' = pc  BY <1>12, LiveKept DEF vars, storeVars
  <2> QED  BY <1>2, <1>12, <2>1
<1> QED
  BY <1>3, <1>4, <1>5, <1>6, <1>7, <1>8, <1>9, <1>10, <1>11, <1>12 DEF Next, SheetStep

-------------------------------------------------------------------------------
PInv == Scened /\ Places /\ Backdrop /\ CutsceneStore /\ Unspoilt

LEMMA InitPInv == Init => PInv
<1> SUFFICES ASSUME Init PROVE PInv  OBVIOUS
<1>1. leg = "Logos" /\ Live = {}  BY DEF Init, Live
<1>2. Scened  BY DEF Init, Scened
<1>3. Places /\ Unspoilt  BY <1>1 DEF Places, Unspoilt
<1>4. Backdrop /\ CutsceneStore  BY <1>1 DEF Init, Backdrop, CutsceneStore
<1> QED  BY <1>2, <1>3, <1>4 DEF PInv

LEMMA SourceLive ==
  ASSUME IInv, NEW s \in DrawnNow, NEW e \in Source(s) PROVE e \in Live /\ e[2] = s
<1>0. s \in Sheets /\ bound[s] # Unbound  BY DEF DrawnNow
<1>1. CASE Serving(s) # 0
  <2>1. e = <<"frd", s, frds[Serving(s)][2]>>  BY <1>1 DEF Source
  <2>2. Serving(s) \in DOMAIN frds /\ frds[Serving(s)][1] = s
    BY <1>0, <1>1 DEF Serving, IInv, RouteOwn
  <2> QED  BY <2>1, <2>2 DEF Live
<1>2. CASE Serving(s) = 0
  <2>1. e = <<"res", s, resident[s]>> /\ resident[s] # None  BY <1>2 DEF Source
  <2> QED  BY <1>0, <2>1 DEF Live
<1> QED  BY <1>1, <1>2

\* in a scene that plays
LEMMA PlaysPast ==
  ASSUME Plays, Started
  PROVE  (leg = "Cutscene" => pc > 6) /\ (leg = "GHZ" => pc > 10)
<1>1. leg = "Cutscene" => pc > 17  BY SeamIs, CutsceneOps DEF Plays
<1>2. leg = "GHZ" => pc > 29  BY SeamIs, GhzOps DEF Plays
<1> QED  BY <1>1, <1>2 DEF Started

(* Whatever is written into the store while a scene plays - the scanlines, the *)
(* jungle's windows, the sky of the cutscene, the backdrop of the landing -    *)
(* leaves alone what its sprites are drawn from: for any sizes and any number  *)
(* of failed reads, as long as the cutscene's sheets fit below its sky.        *)
THEOREM PixelsTheorem == CutsceneFits /\ Spec => []PixelsIntact
<1> SUFFICES ASSUME CutsceneFits PROVE Spec => []PixelsIntact  OBVIOUS
<1>1. IInv /\ Started /\ PInv /\ [Next]_vars => PInv'
  BY StepScened, StepPlaces, StepBackdrop, StepCutscene, StepUnspoilt DEF PInv
<1>2. IInv /\ Started /\ PInv => PixelsIntact
  <2> SUFFICES ASSUME IInv, Started, PInv, Plays, ~(leg = "GHZ" /\ "scratch" \in missed),
                      ~(leg = "Cutscene" /\ "sheet" \in missed),
                      NEW s \in DrawnNow, NEW e \in Source(s)
               PROVE  (e[1] = "res" /\ e[3] < Scanlines[2]) \/ e \in cart
    BY DEF PixelsIntact
  <2>1. e \in Live /\ e[2] = s  BY SourceLive
  <2>2. leg \in Legs  BY DEF IInv, TypeOK
  <2>3. Watched  BY <2>2, PlaysPast DEF Watched, Legs
  <2>4. e \in cart \/ Scanned(e) \/ Outlived(e)  BY <2>1, <2>3 DEF PInv, Unspoilt
  <2>5. ~Outlived(e)
    <3> SUFFICES ASSUME leg = "AIZ", s \in TitleSheets PROVE FALSE
      BY <2>1 DEF Outlived
    <3>1. s \in Drawn["AIZ"]  BY DEF PInv, Scened, DrawnNow
    <3> QED  BY <3>1 DEF Drawn, TitleSheets
  <2> QED  BY <2>4, <2>5 DEF Scanned
<1> QED  BY <1>1, <1>2, InitPInv, Inductive, StartedAlways, PTL DEF Spec

===============================================================================
