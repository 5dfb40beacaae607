--------------------------- MODULE PackFile_proofs ----------------------------
(***************************************************************************)
(* Theorems about PackFile for any number of handles, any files, any sector *)
(* and window size.  Base is the inductive invariant of the bookkeeping; it *)
(* needs nothing of the CD.  That windows hold the file's bytes, and that    *)
(* the backend implements StdioFiles, holds when a failing GFS_Fread leaves  *)
(* the window alone (FailedPrefix = {0}); TLC shows the run where it does    *)
(* not.                                                                    *)
(***************************************************************************)
EXTENDS PackFile, FiniteSetTheorems, SequenceTheorems, TLAPS

LEMMA DivBounds ==
  ASSUME NEW o \in Nat, NEW S \in Nat \ {0}
  PROVE  /\ o \div S \in Nat
         /\ (o \div S) * S <= o
         /\ o < (o \div S) * S + S
  BY SMTT(20)

LEMMA MulLess ==
  ASSUME NEW a \in Nat, NEW b \in Nat, NEW S \in Nat \ {0}, a * S < b * S
  PROVE  a < b
  BY SMTT(20)

LEMMA MulBounds ==
  ASSUME NEW a \in Nat \ {0}, NEW b \in Nat, NEW S \in Nat \ {0}, a <= b
  PROVE  a * S \in Nat /\ b * S \in Nat /\ S <= a * S /\ a * S <= b * S
  BY SMTT(20)

\* the sector of a byte of the file is one of the file's sectors
LEMMA SectorInFile ==
  ASSUME NEW o \in Nat, NEW size \in Nat, NEW S \in Nat \ {0}, o < size
  PROVE  /\ o \div S < (size + S - 1) \div S
         /\ (size + S - 1) \div S \in Nat
<1> DEFINE q == o \div S
           k == (size + S - 1) \div S
<1>1. q \in Nat /\ q * S <= o  BY DivBounds
<1>2. k \in Nat /\ size + S - 1 < k * S + S
  <2>1. size + S - 1 \in Nat  OBVIOUS
  <2> QED  BY <2>1, DivBounds
<1>3. k * S \in Nat /\ q * S \in Nat  BY <1>1, <1>2, SMTT(20)
<1> HIDE DEF q, k
<1>4. size <= k * S  BY <1>2, <1>3
<1>5. q * S < k * S  BY <1>1, <1>3, <1>4
<1>6. q < k  BY <1>1, <1>2, <1>5, MulLess
<1> QED  BY <1>2, <1>6 DEF q, k

----------------------------------------------------------------------------
\* a read in progress belongs to a used handle and fits in the file
CallFits ==
  IF call = NoCall THEN buf = <<>>
  ELSE /\ call.handle \in Used
       /\ Len(buf) <= call.want
       /\ cursor[call.handle] + (call.want - Len(buf)) <= SizeOf[file[call.handle]]

WindowSized ==
  \A h \in Handles : winLen[h] <= WinBytes /\ (winOff[h] = -1 => winLen[h] = 0)

Base == TypeOK /\ RefsCount /\ PosTracked /\ CallFits /\ WindowSized

USE DEF NoFile, Stdio!NoFile, NoCall, Stdio!NoCall

LEMMA InitBase == Init => Base
<1> SUFFICES ASSUME Init PROVE Base  OBVIOUS
<1> USE DEF Init
<1>1. Used = {}  BY DEF Used
<1>2. WinBytes \in Nat  BY WindowAssumption, SMTT(20) DEF WinBytes
<1>3. TypeOK  BY <1>1, EmptySeq DEF TypeOK, AnyByte
<1>4. RefsCount  BY <1>1, FS_EmptySet DEF RefsCount
<1> QED  BY <1>2, <1>3, <1>4 DEF Base, PosTracked, CallFits, WindowSized

\* what a fill computes, when one is needed
LEMMA FillFacts ==
  ASSUME TypeOK, CallFits, NeedsFill
  PROVE  LET h == call.handle IN
         /\ call \in Calls /\ h \in Used /\ h \in Handles /\ file[h] \in Files
         /\ SizeOf[file[h]] \in Nat /\ cursor[h] \in Nat
         /\ cursor[h] < SizeOf[file[h]]
         /\ NeedSector \in Nat /\ NeedSector * Sector \in Nat
         /\ NeedSector * Sector <= cursor[h]
         /\ cursor[h] < NeedSector * Sector + Sector
         /\ FillSects \in Nat \ {0} /\ FillSects <= WinSects
         /\ FillSects * Sector \in Nat
         /\ Sector <= FillSects * Sector /\ FillSects * Sector <= WinBytes
<1> DEFINE h == call.handle
<1>1. call # NoCall /\ Len(buf) < call.want  BY DEF NeedsFill, Unfinished
<1>2. call \in Calls /\ h \in Used /\ h \in Handles /\ Len(buf) \in Nat
  BY <1>1, LenProperties DEF TypeOK, CallFits, Used
<1>3. file[h] \in Files  BY <1>2 DEF TypeOK, Used
<1>4. SizeOf[file[h]] \in Nat /\ cursor[h] \in Nat /\ call.want \in Nat
  BY <1>2, <1>3, FilesAssumption DEF TypeOK, Calls
<1>5. cursor[h] < SizeOf[file[h]]
  BY <1>1, <1>2, <1>4 DEF CallFits
<1>6. Sector \in Nat \ {0} /\ WinSects \in Nat \ {0} /\ SeekSects \in Nat \ {0}
      /\ SeekSects <= WinSects
  BY WindowAssumption
<1>7. /\ NeedSector \in Nat /\ NeedSector * Sector <= cursor[h]
      /\ cursor[h] < NeedSector * Sector + Sector
  BY <1>4, <1>6, DivBounds DEF NeedSector
<1>8. NeedSector * Sector \in Nat  BY <1>6, <1>7, SMTT(20)
<1>9. NeedSector < SectorsOf(file[h]) /\ SectorsOf(file[h]) \in Nat
  BY <1>4, <1>5, <1>6, SectorInFile DEF NeedSector, SectorsOf
<1>10. FillSects \in Nat \ {0} /\ FillSects <= WinSects
  BY <1>6, <1>7, <1>9 DEF FillSects, AtMost
<1>11. /\ FillSects * Sector \in Nat /\ Sector <= FillSects * Sector
       /\ FillSects * Sector <= WinBytes
  BY <1>6, <1>10, MulBounds DEF WinBytes
<1> QED  BY <1>2, <1>3, <1>4, <1>5, <1>7, <1>8, <1>10, <1>11

\* what one copy moves
LEMMA CopyFacts ==
  ASSUME TypeOK, CallFits, WindowSized, Copy
  PROVE  LET h == call.handle
             n == AtMost(call.want - Len(buf), winOff[h] + winLen[h] - cursor[h])
             chunk == [i \in 1..n |-> win[h][cursor[h] - winOff[h] + i - 1]]
         IN
         /\ call \in Calls /\ h \in Used /\ h \in Handles
         /\ n \in Nat \ {0} /\ n <= call.want - Len(buf)
         /\ \A i \in 1..n : cursor[h] - winOff[h] + i - 1 \in 0..(winLen[h] - 1)
         /\ chunk \in Seq(AnyByte) /\ Len(chunk) = n
         /\ buf' = buf \o chunk
         /\ buf' \in Seq(AnyByte) /\ Len(buf') = Len(buf) + n
         /\ cursor[h] \in Nat /\ Len(buf) \in Nat /\ call.want \in Nat
         /\ winOff[h] \in Nat /\ winLen[h] \in Nat
<1> DEFINE h == call.handle
           n == AtMost(call.want - Len(buf), winOff[h] + winLen[h] - cursor[h])
           chunk == [i \in 1..n |-> win[h][cursor[h] - winOff[h] + i - 1]]
<1>1. call # NoCall /\ Len(buf) < call.want /\ InWindow(h)
  BY DEF Copy, Unfinished
<1>2. call \in Calls /\ h \in Used /\ h \in Handles /\ Len(buf) \in Nat
      /\ buf \in Seq(AnyByte)
  BY <1>1, LenProperties DEF TypeOK, CallFits, Used
<1>3. cursor[h] \in Nat /\ call.want \in Nat /\ winLen[h] \in Nat
      /\ winOff[h] \in Nat
  BY <1>1, <1>2 DEF TypeOK, Calls, InWindow
<1>4. n \in Nat \ {0} /\ n <= call.want - Len(buf)
      /\ n <= winOff[h] + winLen[h] - cursor[h]
  BY <1>1, <1>2, <1>3 DEF AtMost, InWindow
<1>5. \A i \in 1..n : cursor[h] - winOff[h] + i - 1 \in 0..(winLen[h] - 1)
  <2> HIDE DEF n
  <2> QED  BY <1>1, <1>3, <1>4 DEF InWindow
<1>6. winLen[h] <= WinBytes /\ WinBytes \in Nat
  BY <1>2, WindowAssumption, SMTT(20) DEF WindowSized, WinBytes
<1>7. \A i \in 1..n : win[h][cursor[h] - winOff[h] + i - 1] \in AnyByte
  <2> HIDE DEF n
  <2>1. win[h] \in [0..(WinBytes - 1) -> AnyByte]  BY <1>2 DEF TypeOK
  <2> QED  BY <1>3, <1>5, <1>6, <2>1
<1>8. chunk \in Seq(AnyByte) /\ Len(chunk) = n
  <2> HIDE DEF n
  <2>1. chunk \in Seq(AnyByte)  BY <1>4, <1>7, IsASeq
  <2>2. DOMAIN chunk = 1..n  OBVIOUS
  <2> QED  BY <1>4, <2>1, <2>2, LenProperties
<1>9. buf' = buf \o chunk  BY DEF Copy
<1>10. buf' \in Seq(AnyByte) /\ Len(buf') = Len(buf) + n
  <2> HIDE DEF n, chunk
  <2> QED  BY <1>2, <1>8, <1>9, ConcatProperties
<1> QED  BY <1>2, <1>3, <1>4, <1>5, <1>8, <1>9, <1>10

----------------------------------------------------------------------------
LEMMA UsedFinite == IsFiniteSet(Used)
BY HandlesAssumption, FS_Subset DEF Used

LEMMA StepBase == Base /\ [Next]_vars => Base'
<1> SUFFICES ASSUME Base, [Next]_vars PROVE Base'  OBVIOUS
<1> USE DEF Base
<1>f. IsFiniteSet(Used) /\ Cardinality(Used) \in Nat
  BY UsedFinite, FS_CardinalityType
<1>a. ASSUME NEW h \in Handles, NEW f \in Files, Claim(h, f)
      PROVE  /\ file' \in [Handles -> Files \cup {NoFile}]
             /\ cursor' \in [Handles -> Nat]
             /\ \A g \in Used' : cursor'[g] <= SizeOf[file'[g]]
             /\ winOff' \in [Handles -> Nat \cup {-1}]
             /\ winLen' \in [Handles -> Nat]
             /\ CallFits' /\ WindowSized'
             /\ Used' = Used \cup {h} /\ h \notin Used
             /\ Cardinality(Used') = Cardinality(Used) + 1
             /\ \A g \in Used : file'[g] = file[g]
             /\ file'[h] = f
  <2> USE <1>a DEF Claim, FirstFree, WinOffAtOpen
  <2>1. /\ file' \in [Handles -> Files \cup {NoFile}]
        /\ cursor' \in [Handles -> Nat]
        /\ winOff' \in [Handles -> Nat \cup {-1}]
        /\ winLen' \in [Handles -> Nat]
    BY DEF TypeOK
  <2>2. Used' = Used \cup {h} /\ h \notin Used /\ file'[h] = f
    BY FilesAssumption DEF TypeOK, Used
  <2>3. Cardinality(Used') = Cardinality(Used) + 1
    BY <1>f, <2>2, FS_AddElement
  <2>4. \A g \in Used : file'[g] = file[g]  BY <2>2 DEF TypeOK, Used
  <2>5. \A g \in Used' : cursor'[g] <= SizeOf[file'[g]]
    BY <2>2, <2>4, FilesAssumption DEF TypeOK, Used
  <2>6. CallFits'  BY DEF CallFits
  <2>7. WindowSized'
    <3>1. WinBytes \in Nat  BY WindowAssumption, SMTT(20) DEF WinBytes
    <3> QED  BY <3>1 DEF WindowSized, TypeOK
  <2> QED  BY <2>1, <2>2, <2>3, <2>4, <2>5, <2>6, <2>7
<1>1. ASSUME NEW h \in Handles, NEW f \in Files, OpenFirst(h, f) PROVE Base'
  <2> USE <1>1 DEF OpenFirst
  <2>1. Claim(h, f)  OBVIOUS
  <2>2. Used = {}
    <3>1. Cardinality(Used) = 0  BY DEF RefsCount
    <3> QED  BY <1>f, <3>1, FS_EmptySet
  <2>3. TypeOK'  BY <1>a, <2>1 DEF TypeOK, Claim
  <2>4. RefsCount'
    <3>1. Cardinality(Used') = 1  BY <1>a, <2>1, <2>2, FS_EmptySet
    <3> QED  BY <1>a, <2>1, <2>2, <3>1, FilesAssumption DEF RefsCount
  <2>5. PosTracked'  BY DEF PosTracked
  <2> QED  BY <1>a, <2>1, <2>3, <2>4, <2>5
<1>2. ASSUME NEW h \in Handles, OpenShared(h) PROVE Base'
  <2> USE <1>2 DEF OpenShared, RefsShared
  <2>1. Used # {}
    <3>1. Cardinality(Used) # 0  BY DEF RefsCount, TypeOK
    <3> QED  BY <3>1, FS_EmptySet
  <2>2. packFile \in Files /\ Claim(h, packFile)
    BY <2>1 DEF RefsCount, TypeOK
  <2>6. /\ file' \in [Handles -> Files \cup {NoFile}]
        /\ cursor' \in [Handles -> Nat]
        /\ \A g \in Used' : cursor'[g] <= SizeOf[file'[g]]
        /\ winOff' \in [Handles -> Nat \cup {-1}]
        /\ winLen' \in [Handles -> Nat]
    BY <1>a, <2>2
  <2>7. UNCHANGED <<win, call, buf>>  BY DEF Claim
  <2>3. TypeOK'  BY <2>6, <2>7 DEF TypeOK
  <2>4. RefsCount'  BY <1>a, <2>2, FilesAssumption DEF RefsCount
  <2>5. PosTracked'  BY DEF PosTracked
  <2> QED  BY <1>a, <2>2, <2>3, <2>4, <2>5
<1>3. ASSUME NEW h \in Handles, Close(h) PROVE Base'
  <2> USE <1>3 DEF Close
  <2>1. Used' = Used \ {h} /\ h \in Used  BY DEF Used, TypeOK
  <2>2. Cardinality(Used') = Cardinality(Used) - 1
    BY <1>f, <2>1, FS_RemoveElement
  <2>3. \A g \in Used' : file'[g] = file[g]  BY <2>1 DEF TypeOK, Used
  <2>4. packRefs \in Nat /\ packRefs = Cardinality(Used)
    BY DEF TypeOK, RefsCount
  <2>5. IsFiniteSet(Used')  BY <1>f, <2>1, FS_RemoveElement
  <2>6. TypeOK'
    <3>1. file' \in [Handles -> Files \cup {NoFile}]  BY DEF TypeOK
    <3>2. \A g \in Used' : cursor'[g] <= SizeOf[file'[g]]
      BY <2>1, <2>3 DEF TypeOK
    <3>3. packFile' \in Files \cup {NoFile} /\ packRefs' \in Nat
          /\ packPos' \in Nat \cup {-1} /\ gfsPos' \in Nat
      BY <2>4 DEF TypeOK
    <3> QED  BY <3>1, <3>2, <3>3 DEF TypeOK
  <2>7. RefsCount'
    <3>1. CASE packRefs - 1 <= 0
      <4>1. Cardinality(Used') = 0  BY <1>f, <2>2, <2>4, <2>5, <3>1, FS_CardinalityType
      <4>2. Used' = {}  BY <2>5, <4>1, FS_EmptySet
      <4> QED  BY <3>1, <4>1, <4>2 DEF RefsCount
    <3>2. CASE ~(packRefs - 1 <= 0)
      <4>1. packRefs' = packRefs - 1 /\ packFile' = packFile  BY <3>2
      <4>2. Cardinality(Used') # 0  BY <2>2, <2>4, <3>2
      <4>3. Used' # {}  BY <4>2, FS_EmptySet
      <4> QED  BY <2>1, <2>2, <2>3, <2>4, <4>1, <4>3 DEF RefsCount
    <3> QED  BY <3>1, <3>2
  <2>8. PosTracked'  BY DEF PosTracked
  <2>9. CallFits' /\ WindowSized'  BY DEF CallFits, WindowSized
  <2> QED  BY <2>6, <2>7, <2>8, <2>9
<1>4. ASSUME NEW h \in Used, NEW pos \in Positions(h), Seek(h, pos) PROVE Base'
  <2> USE <1>4 DEF Seek
  <2>1. h \in Handles /\ file[h] \in Files  BY DEF Used, TypeOK
  <2>2. SizeOf[file[h]] \in Nat /\ pos \in Int
    BY <2>1, FilesAssumption DEF Positions
  <2>3. /\ Clamped(pos, SizeOf[file[h]]) \in Nat
        /\ Clamped(pos, SizeOf[file[h]]) <= SizeOf[file[h]]
    BY <2>2 DEF Clamped
  <2> HIDE DEF Clamped
  <2>4. Used' = Used  BY DEF Used
  <2>5. TypeOK'  BY <2>1, <2>3, <2>4 DEF TypeOK
  <2> QED  BY <2>4, <2>5 DEF RefsCount, PosTracked, CallFits, WindowSized
<1>5. ASSUME NEW h \in Used, NEW n \in ReadSizes, ReadBegin(h, n) PROVE Base'
  <2> USE <1>5 DEF ReadBegin, handleVars, packVars
  <2>1. h \in Handles /\ file[h] \in Files /\ cursor[h] \in Nat
        /\ cursor[h] <= SizeOf[file[h]] /\ n \in Nat
    BY WindowAssumption DEF Used, TypeOK
  <2>2. SizeOf[file[h]] \in Nat  BY <2>1, FilesAssumption
  <2>3. /\ call'.want \in Nat /\ cursor[h] + call'.want <= SizeOf[file[h]]
        /\ call' \in Calls /\ call'.handle = h
    BY <2>1, <2>2 DEF AtMost, Calls
  <2>4. Used' = Used  BY DEF Used
  <2>5. buf' \in Seq(AnyByte) /\ Len(buf') = 0  BY EmptySeq
  <2>6. TypeOK'  BY <2>3, <2>4, <2>5 DEF TypeOK
  <2>7. CallFits'  BY <2>1, <2>2, <2>3, <2>4, <2>5 DEF CallFits, Calls
  <2> QED  BY <2>4, <2>6, <2>7 DEF RefsCount, PosTracked, WindowSized
<1>6. CASE Copy
  <2> DEFINE h == call.handle
             n == Len(buf') - Len(buf)
  <2>1. /\ call \in Calls /\ h \in Used /\ h \in Handles
        /\ n \in Nat \ {0} /\ n <= call.want - Len(buf)
        /\ buf' \in Seq(AnyByte) /\ Len(buf') = Len(buf) + n
        /\ cursor[h] \in Nat /\ Len(buf) \in Nat /\ call.want \in Nat
        /\ cursor' = [cursor EXCEPT ![h] = @ + n]
    <3> DEFINE m == AtMost(call.want - Len(buf), winOff[h] + winLen[h] - cursor[h])
    <3>1. /\ call \in Calls /\ h \in Used /\ h \in Handles
          /\ m \in Nat \ {0} /\ m <= call.want - Len(buf)
          /\ buf' \in Seq(AnyByte) /\ Len(buf') = Len(buf) + m
          /\ cursor[h] \in Nat /\ Len(buf) \in Nat /\ call.want \in Nat
      BY <1>6, CopyFacts
    <3>2. cursor' = [cursor EXCEPT ![h] = @ + m]  BY <1>6 DEF Copy
    <3> HIDE DEF m, h
    <3>3. n = m  BY <3>1
    <3> QED  BY <3>1, <3>2, <3>3
  <2>2. /\ UNCHANGED <<file, winOff, winLen, win, packFile, packRefs, packPos,
                      gfsPos, call>>
        /\ call # NoCall
    BY <1>6 DEF Copy, packVars, Unfinished
  <2>3. Used' = Used  BY <2>2 DEF Used
  <2>4. SizeOf[file[h]] \in Nat  BY <2>1, FilesAssumption DEF Used, TypeOK
  <2>5. cursor[h] + (call.want - Len(buf)) <= SizeOf[file[h]]
    BY <2>2 DEF CallFits
  <2> HIDE DEF n
  <2>6. cursor'[h] = cursor[h] + n /\ cursor' \in [Handles -> Nat]
    BY <2>1 DEF TypeOK
  <2>7. \A g \in Used' : cursor'[g] <= SizeOf[file'[g]]
    <3>1. cursor'[h] <= SizeOf[file[h]]  BY <2>1, <2>4, <2>5, <2>6
    <3>2. \A g \in Used : g # h => cursor'[g] = cursor[g]
      BY <2>1 DEF TypeOK, Used
    <3> QED  BY <2>2, <2>3, <3>1, <3>2 DEF TypeOK
  <2>8. TypeOK'  BY <2>1, <2>2, <2>6, <2>7 DEF TypeOK
  <2>9. CallFits'
    BY <2>1, <2>2, <2>3, <2>4, <2>5, <2>6 DEF CallFits
  <2> QED  BY <2>2, <2>3, <2>8, <2>9 DEF RefsCount, PosTracked, WindowSized
<1>7. CASE FillSeekFails
  <2> USE <1>7 DEF FillSeekFails, PosAfterError, FailedCall, handleVars
  <2>1. call \in Calls /\ call # NoCall /\ NeedSector \in Nat
        /\ call.handle \in Handles
    BY FillFacts DEF NeedsFill, Unfinished
  <2>2. call' \in Calls /\ call'.handle = call.handle /\ call'.want = call.want
        /\ call' # NoCall
    BY <2>1, HandlesAssumption DEF Calls
  <2>3. Used' = Used  BY DEF Used
  <2>4. TypeOK'  BY <2>1, <2>2, <2>3 DEF TypeOK
  <2>5. CallFits'  BY <2>1, <2>2, <2>3 DEF CallFits
  <2> QED  BY <2>3, <2>4, <2>5 DEF RefsCount, PosTracked, WindowSized
<1>8. CASE FillReadFails
  <2> USE <1>8 DEF FillReadFails, PosAfterError, FailedCall
  <2>1. call \in Calls /\ call # NoCall /\ NeedSector \in Nat
        /\ FillSects \in Nat /\ call.handle \in Handles
    BY FillFacts DEF NeedsFill, Unfinished
  <2>2. call' \in Calls /\ call'.handle = call.handle /\ call'.want = call.want
        /\ call' # NoCall
    BY <2>1, HandlesAssumption DEF Calls
  <2>3. Used' = Used  BY DEF Used
  <2>4. win' \in [Handles -> [0..(WinBytes - 1) -> AnyByte]]
    <3>1. PICK p \in FailedPrefix : win' = [win EXCEPT ![call.handle] =
             [j \in DOMAIN @ |-> IF j < p * Sector THEN Garbage ELSE @[j]]]
      OBVIOUS
    <3> QED  BY <2>1, <3>1 DEF TypeOK, AnyByte
  <2>5. TypeOK'  BY <2>1, <2>2, <2>3, <2>4 DEF TypeOK
  <2>6. CallFits'  BY <2>1, <2>2, <2>3 DEF CallFits
  <2> QED  BY <2>3, <2>5, <2>6 DEF RefsCount, PosTracked, WindowSized
<1>9. CASE FillSucceeds
  <2> USE <1>9 DEF FillSucceeds
  <2> DEFINE h == call.handle
             n == FillSects * Sector
  <2>1. /\ call \in Calls /\ h \in Used /\ h \in Handles /\ file[h] \in Files
        /\ SizeOf[file[h]] \in Nat /\ cursor[h] \in Nat
        /\ cursor[h] < SizeOf[file[h]]
        /\ NeedSector \in Nat /\ NeedSector * Sector \in Nat
        /\ NeedSector * Sector <= cursor[h]
        /\ FillSects \in Nat /\ n \in Nat /\ n <= WinBytes
    BY FillFacts
  <2>2. packFile \in Files /\ From \in Nat /\ From = NeedSector
    BY <2>1 DEF From, Sequential, RefsCount, PosTracked, TypeOK
  <2>3. Used' = Used  BY DEF Used
  <2>4. \A j \in 0..(WinBytes - 1) : Byte(packFile, From * Sector + j) \in AnyByte
    <3>1. \A j \in 0..(WinBytes - 1) : From * Sector + j \in Nat
      BY <2>1, <2>2
    <3> QED  BY <2>2, <3>1 DEF AnyByte, Byte, Stdio!Byte
  <2>5. win' \in [Handles -> [0..(WinBytes - 1) -> AnyByte]]
    BY <2>1, <2>4 DEF TypeOK
  <2>6. /\ AtMost(n, SizeOf[file[h]] - NeedSector * Sector) \in Nat
        /\ AtMost(n, SizeOf[file[h]] - NeedSector * Sector) <= WinBytes
    <3> HIDE DEF n
    <3>1. WinBytes \in Nat  BY WindowAssumption, SMTT(20) DEF WinBytes
    <3> QED  BY <2>1, <3>1 DEF AtMost
  <2>7. TypeOK'
    <3>1. winOff' \in [Handles -> Nat \cup {-1}]  BY <2>1 DEF TypeOK
    <3>2. winLen' \in [Handles -> Nat]  BY <2>6 DEF TypeOK
    <3> QED  BY <2>1, <2>2, <2>3, <2>5, <3>1, <3>2 DEF TypeOK
  <2>8. WindowSized'
    <3>1. winOff'[h] # -1 /\ winLen'[h] <= WinBytes
      BY <2>1, <2>6 DEF TypeOK
    <3>2. \A g \in Handles : g # h => winOff'[g] = winOff[g] /\ winLen'[g] = winLen[g]
      BY DEF TypeOK
    <3>3. WinBytes' = WinBytes  BY DEF WinBytes
    <3> QED  BY <3>1, <3>2, <3>3 DEF WindowSized
  <2>9. PosTracked'
    <3>1. gfsPos' = packPos' /\ packFile' = packFile  BY <2>2
    <3> QED  BY <2>2, <3>1, FilesAssumption DEF PosTracked
  <2>10. CallFits'  BY <2>3 DEF CallFits
  <2> QED  BY <2>3, <2>7, <2>8, <2>9, <2>10 DEF RefsCount
<1>10. CASE ReadEnd
  <2> USE <1>10 DEF ReadEnd, handleVars, packVars
  <2>1. Used' = Used  BY DEF Used
  <2>2. TypeOK'  BY <2>1, EmptySeq DEF TypeOK
  <2> QED  BY <2>1, <2>2 DEF RefsCount, PosTracked, CallFits, WindowSized
<1>11. CASE UNCHANGED vars
  BY <1>11 DEF vars, TypeOK, RefsCount, PosTracked, CallFits, WindowSized, Used,
               WinBytes
<1> QED
  <2>1. \A h \in Used : h \in Handles  BY DEF Used
  <2> QED
    BY <1>1, <1>2, <1>3, <1>4, <1>5, <1>6, <1>7, <1>8, <1>9, <1>10, <1>11, <2>1
    DEF Next, ReadStep

\* The types, for any number of handles and files and whatever read fails when.
THEOREM TypeCorrect == Spec => []TypeOK
<1>1. Spec => []Base  BY InitBase, StepBase, PTL DEF Spec
<1>2. Base => TypeOK  BY DEF Base
<1> QED  BY <1>1, <1>2, PTL

\* Bookkeeping: the types; one reference per open handle; and the tracked
\* access pointer, when known, is where the CD block is - so a skipped
\* GFS_Seek never reads the wrong sectors, whatever failed before.
THEOREM BookkeepingTheorem == Spec => [](TypeOK /\ RefsCount /\ PosTracked)
<1>1. Spec => []Base  BY InitBase, StepBase, PTL DEF Spec
<1>2. Base => TypeOK /\ RefsCount /\ PosTracked  BY DEF Base
<1> QED  BY <1>1, <1>2, PTL

----------------------------------------------------------------------------
LEMMA InitWindow == Init => WindowFaithful
BY DEF Init, WindowFaithful, Used

LEMMA StepWindow ==
  ASSUME FailedPrefix = {0}, Base, WindowFaithful, [Next]_vars
  PROVE  WindowFaithful'
<1> USE DEF Base
<1>s. ASSUME UNCHANGED <<file, winOff, winLen, win>> PROVE WindowFaithful'
  BY <1>s DEF WindowFaithful, Used, WinBytes
<1>1. ASSUME NEW h \in Handles, NEW f, Claim(h, f) PROVE WindowFaithful'
  <2> USE <1>1 DEF Claim, FirstFree, WinOffAtOpen
  <2>1. winOff'[h] = -1 /\ winLen'[h] = 0  BY DEF TypeOK
  <2>2. \A g \in Handles : g # h =>
          file'[g] = file[g] /\ winOff'[g] = winOff[g] /\ winLen'[g] = winLen[g]
    BY DEF TypeOK
  <2>3. win' = win /\ WinBytes' = WinBytes /\ WinBytes \in Nat
    BY WindowAssumption, SMTT(20) DEF WinBytes
  <2>4. \A g \in Used' : g \in Handles /\ (g # h => g \in Used)
    BY <2>2 DEF Used
  <2> QED  BY <2>1, <2>2, <2>3, <2>4 DEF WindowFaithful
<1>2. ASSUME NEW h \in Handles, Close(h) PROVE WindowFaithful'
  <2> USE <1>2 DEF Close
  <2>1. \A g \in Used' : g \in Used /\ file'[g] = file[g]
    BY FilesAssumption DEF Used, TypeOK
  <2> QED  BY <2>1 DEF WindowFaithful, WinBytes
<1>3. CASE FillReadFails
  <2> USE <1>3 DEF FillReadFails
  <2>1. call.handle \in Handles  BY FillFacts
  <2>2. win' = [win EXCEPT ![call.handle] =
                 [j \in DOMAIN @ |-> IF j < 0 * Sector THEN Garbage ELSE @[j]]]
    OBVIOUS
  <2>3. 0 * Sector = 0  BY WindowAssumption
  <2>5. WinBytes \in Nat  BY WindowAssumption, SMTT(20) DEF WinBytes
  <2>4. \A h \in Handles, j \in 0..(WinBytes - 1) : win'[h][j] = win[h][j]
    <3>1. win'[call.handle] = [j \in DOMAIN win[call.handle] |->
             IF j < 0 THEN Garbage ELSE win[call.handle][j]]
      BY <2>1, <2>2, <2>3 DEF TypeOK
    <3>2. \A h \in Handles : h # call.handle => win'[h] = win[h]
      BY <2>2 DEF TypeOK
    <3>3. \A j \in 0..(WinBytes - 1) :
             j \in DOMAIN win[call.handle] /\ ~(j < 0)
      BY <2>1, <2>5 DEF TypeOK
    <3>4. \A j \in 0..(WinBytes - 1) : win'[call.handle][j] = win[call.handle][j]
      BY <3>1, <3>3
    <3> QED  BY <3>2, <3>4
  <2>6. \A h \in Used : h \in Handles /\ winLen[h] \in Nat /\ winLen[h] <= WinBytes
    BY DEF Used, TypeOK, WindowSized
  <2>7. \A h \in Used : \A j \in 0..(winLen[h] - 1) : j \in 0..(WinBytes - 1)
    BY <2>5, <2>6
  <2> QED  BY <2>4, <2>6, <2>7 DEF WindowFaithful, Used, WinBytes
<1>4. CASE FillSucceeds
  <2> USE <1>4 DEF FillSucceeds
  <2> DEFINE h == call.handle
             n == FillSects * Sector
             len == AtMost(n, SizeOf[file[h]] - NeedSector * Sector)
  <2>1. /\ h \in Used /\ h \in Handles /\ file[h] \in Files
        /\ SizeOf[file[h]] \in Nat /\ cursor[h] \in Nat
        /\ cursor[h] < SizeOf[file[h]]
        /\ NeedSector \in Nat /\ NeedSector * Sector \in Nat
        /\ NeedSector * Sector <= cursor[h]
        /\ n \in Nat /\ n <= WinBytes
    BY FillFacts
  <2>2. From = NeedSector /\ packFile = file[h]
    BY <2>1 DEF From, Sequential, RefsCount, PosTracked
  <2>3. WinBytes \in Nat  BY WindowAssumption, SMTT(20) DEF WinBytes
  <2>4. winOff'[h] = NeedSector * Sector /\ winLen'[h] = len
    BY <2>1 DEF TypeOK
  <2>5. len \in Nat /\ len <= n
    <3> HIDE DEF n
    <3> QED  BY <2>1 DEF AtMost
  <2>6. \A j \in 0..(len - 1) : win'[h][j] = Byte(file[h], winOff'[h] + j)
    <3>1. \A j \in 0..(WinBytes - 1) :
            j < n => win'[h][j] = Byte(packFile, From * Sector + j)
      BY <2>1 DEF TypeOK
    <3> HIDE DEF n, len
    <3>2. \A j \in 0..(len - 1) : j \in 0..(WinBytes - 1) /\ j < n
      BY <2>1, <2>3, <2>5
    <3> QED  BY <2>2, <2>4, <3>1, <3>2
  <2>7. \A g \in Used : g # h =>
          winOff'[g] = winOff[g] /\ winLen'[g] = winLen[g] /\ win'[g] = win[g]
    BY DEF TypeOK, Used
  <2>8. Used' = Used /\ file' = file /\ WinBytes' = WinBytes
    BY DEF Used, WinBytes
  <2>9. winOff'[h] # -1 /\ winLen'[h] <= WinBytes
    <3> HIDE DEF n, len
    <3> QED  BY <2>1, <2>3, <2>4, <2>5
  <2> HIDE DEF h, n, len
  <2>10. ASSUME NEW g \in Used
         PROVE  /\ winOff'[g] = -1 => winLen'[g] = 0
                /\ winLen'[g] <= WinBytes
                /\ \A j \in 0..(winLen'[g] - 1) :
                     win'[g][j] = Byte(file[g], winOff'[g] + j)
    <3>1. CASE g = h  BY <2>4, <2>6, <2>9, <3>1
    <3>2. CASE g # h  BY <2>7, <3>2 DEF WindowFaithful
    <3> QED  BY <3>1, <3>2
  <2> QED  BY <2>8, <2>10 DEF WindowFaithful
<1>5. ASSUME NEW h \in Used, NEW pos \in Positions(h), Seek(h, pos)
      PROVE  WindowFaithful'
  BY <1>s, <1>5 DEF Seek
<1>6. ASSUME NEW h \in Used, NEW n \in ReadSizes, ReadBegin(h, n)
      PROVE  WindowFaithful'
  BY <1>s, <1>6 DEF ReadBegin, handleVars
<1>7. Copy \/ FillSeekFails \/ ReadEnd \/ UNCHANGED vars => WindowFaithful'
  BY <1>s DEF Copy, FillSeekFails, ReadEnd, handleVars, vars
<1> QED
  BY <1>1, <1>2, <1>3, <1>4, <1>5, <1>6, <1>7
  DEF Next, ReadStep, OpenFirst, OpenShared

\* Windows hold the file's own bytes over any history of opens, shares,
\* seeks, refills and failures - the tracked pointer is what makes it so.
THEOREM WindowTheorem == FailedPrefix = {0} => (Spec => []WindowFaithful)
<1> SUFFICES ASSUME FailedPrefix = {0} PROVE Spec => []WindowFaithful
  OBVIOUS
<1>1. Base /\ WindowFaithful /\ [Next]_vars => WindowFaithful'
  BY StepWindow
<1> QED  BY <1>1, InitBase, StepBase, InitWindow, PTL DEF Spec

----------------------------------------------------------------------------
LEMMA InitMaps == Init => Stdio!Init
BY DEF Init, Stdio!Init

\* each step of the backend is a step of stdio streams or a stutter
LEMMA StepMaps ==
  ASSUME Base, WindowFaithful, [Next]_vars
  PROVE  [Stdio!Next]_(Stdio!streams)
<1> USE DEF Base, Stdio!streams
<1>a. ASSUME NEW h \in Handles, NEW f \in Files, Claim(h, f),
             \A g \in Used : file[g] = f
      PROVE  Stdio!Open(h, f)
  BY <1>a DEF Claim, FirstFree, Stdio!Open, Used
<1>1. ASSUME NEW h \in Handles, NEW f \in Files, OpenFirst(h, f)
      PROVE  Stdio!Open(h, f)
  <2>1. Used = {}
    <3>1. Cardinality(Used) = 0  BY <1>1 DEF OpenFirst, RefsCount
    <3> QED  BY <3>1, UsedFinite, FS_EmptySet
  <2> QED  BY <1>1, <1>a, <2>1 DEF OpenFirst
<1>2. ASSUME NEW h \in Handles, OpenShared(h)
      PROVE  packFile \in Files /\ Stdio!Open(h, packFile)
  <2>1. Used # {}
    <3>1. Cardinality(Used) # 0  BY <1>2 DEF OpenShared, RefsCount, TypeOK
    <3> QED  BY <3>1, FS_EmptySet
  <2>2. packFile \in Files /\ \A g \in Used : file[g] = packFile
    BY <2>1 DEF RefsCount, TypeOK
  <2> QED  BY <1>2, <1>a, <2>2 DEF OpenShared
<1>3. ASSUME NEW h \in Handles, Close(h) PROVE Stdio!Close(h)
  BY <1>3 DEF Close, Stdio!Close, Used
<1>4. ASSUME NEW h \in Used, NEW pos \in Positions(h), Seek(h, pos)
      PROVE  h \in Handles /\ Stdio!Seek(h)
  <2>1. h \in Handles /\ file[h] \in Files  BY DEF Used, TypeOK
  <2>2. SizeOf[file[h]] \in Nat /\ pos \in Int
    BY <2>1, FilesAssumption DEF Positions
  <2>3. Clamped(pos, SizeOf[file[h]]) \in 0..SizeOf[file[h]]
    BY <2>2 DEF Clamped
  <2> QED  BY <1>4, <2>1, <2>3 DEF Seek, Stdio!Seek, Used
<1>5. ASSUME NEW h \in Used, NEW n \in ReadSizes, ReadBegin(h, n)
      PROVE  h \in Handles /\ Stdio!Begin(h)
  <2>1. h \in Handles /\ file[h] \in Files /\ cursor[h] \in Nat
        /\ cursor[h] <= SizeOf[file[h]] /\ n \in Nat
    BY WindowAssumption DEF Used, TypeOK
  <2>2. SizeOf[file[h]] \in Nat  BY <2>1, FilesAssumption
  <2>3. AtMost(n, SizeOf[file[h]] - cursor[h]) \in 0..(SizeOf[file[h]] - cursor[h])
    BY <2>1, <2>2 DEF AtMost
  <2> QED
    BY <1>5, <2>1, <2>3 DEF ReadBegin, Stdio!Begin, Used, handleVars
<1>6. ASSUME Copy PROVE Stdio!Deliver
  <2> DEFINE h == call.handle
             n == AtMost(call.want - Len(buf), winOff[h] + winLen[h] - cursor[h])
             chunk == [i \in 1..n |-> win[h][cursor[h] - winOff[h] + i - 1]]
  <2>1. /\ h \in Used /\ n \in Nat \ {0} /\ n <= call.want - Len(buf)
        /\ \A i \in 1..n : cursor[h] - winOff[h] + i - 1 \in 0..(winLen[h] - 1)
        /\ buf' = buf \o chunk
        /\ cursor[h] \in Nat /\ Len(buf) \in Nat /\ call.want \in Nat
        /\ winOff[h] \in Nat /\ winLen[h] \in Nat
    BY <1>6, CopyFacts
  <2>2. cursor' = [cursor EXCEPT ![call.handle] = @ + n]
        /\ UNCHANGED <<file, call>> /\ call # NoCall
    BY <1>6 DEF Copy, Unfinished
  <2>3. chunk = Stdio!Bytes(file[h], cursor[h], n)
    <3> HIDE DEF n, h
    <3>1. \A i \in 1..n :
            win[h][cursor[h] - winOff[h] + i - 1]
              = Byte(file[h], winOff[h] + (cursor[h] - winOff[h] + i - 1))
      BY <2>1 DEF WindowFaithful
    <3>2. \A i \in 1..n :
            winOff[h] + (cursor[h] - winOff[h] + i - 1) = cursor[h] + i - 1
      BY <2>1
    <3> QED  BY <3>1, <3>2 DEF Stdio!Bytes, Byte
  <2>4. n \in 1..(call.want - Len(buf))
    <3> HIDE DEF n
    <3> QED  BY <2>1
  <2> HIDE DEF n, chunk
  <2>5. /\ buf' = buf \o Stdio!Bytes(file[call.handle], cursor[call.handle], n)
        /\ cursor' = [cursor EXCEPT ![call.handle] = @ + n]
    BY <2>1, <2>2, <2>3
  <2> QED  BY <2>2, <2>4, <2>5 DEF Stdio!Deliver
<1>7. ASSUME FillSeekFails \/ FillReadFails PROVE Stdio!DeviceFails
  BY <1>7 DEF FillSeekFails, FillReadFails, Stdio!DeviceFails, FailedCall,
              NeedsFill, Unfinished, handleVars
<1>8. CASE FillSucceeds
  BY <1>8 DEF FillSucceeds
<1>9. ASSUME ReadEnd PROVE Stdio!Return
  <2>1. Len(buf) = call.want \/ call.failed
    <3>1. call \in Calls /\ Len(buf) \in Nat /\ Len(buf) <= call.want
          /\ (call.failed \/ ~(Len(buf) < call.want))
      BY <1>9, LenProperties DEF ReadEnd, Unfinished, CallFits, TypeOK
    <3> QED  BY <3>1 DEF Calls
  <2> QED  BY <1>9, <2>1 DEF ReadEnd, Stdio!Return, handleVars
<1>10. CASE UNCHANGED vars
  BY <1>10 DEF vars
<1> QED
  BY <1>1, <1>2, <1>3, <1>4, <1>5, <1>6, <1>7, <1>8, <1>9, <1>10
  DEF Next, ReadStep, Stdio!Next

\* The backend implements independent stdio streams over the pack, for any
\* number of handles sharing the one GFS open: the claim of the shared-handle
\* design note in p6_gfs.c.
THEOREM StdioTheorem == FailedPrefix = {0} => (Spec => RefinesStdio)
<1> SUFFICES ASSUME FailedPrefix = {0} PROVE Spec => RefinesStdio
  OBVIOUS
<1>1. Base /\ WindowFaithful /\ [Next]_vars => WindowFaithful'
  BY StepWindow
<1>2. Base /\ WindowFaithful /\ [Next]_vars => [Stdio!Next]_(Stdio!streams)
  BY StepMaps
<1> QED
  BY <1>1, <1>2, InitBase, StepBase, InitWindow, InitMaps, PTL
  DEF Spec, RefinesStdio, Stdio!Spec
==============================================================================
