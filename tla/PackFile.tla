------------------------------- MODULE PackFile -------------------------------
(***************************************************************************)
(* The CD backend of the engine's file layer (p6_gfs.c): a fixed number of  *)
(* virtual handles over ONE underlying GFS handle, counted by references,   *)
(* each with a window of whole sectors in the cartridge RAM.  A window is    *)
(* refilled by a seek and a read of the shared GFS handle; the seek is      *)
(* skipped when the tracked access pointer is at the wanted sector already. *)
(*                                                                         *)
(* A call of Saturn_fRead is the steps ReadBegin, then Copy and Fill in     *)
(* turn, then ReadEnd: a CD command can fail at each fill.  Nothing else     *)
(* runs in between, the reads busy-poll.  Calls that only return an error   *)
(* (a write mode, a name that is not on the disc, no free handle, another   *)
(* file while one is open, a failing GFS_Open) change no state and are not  *)
(* steps.                                                                  *)
(***************************************************************************)
EXTENDS Integers, Sequences, FiniteSets

CONSTANTS
  Handles,       \* indices of s_handles, P6_GFS_NHANDLES of them
  Files,         \* the fids on the disc
  SizeOf,        \* their sizes in bytes
  Sector,        \* P6_GFS_SECTOR
  WinSects,      \* P6_GFS_WIN_SECTS: sectors of a sequential refill
  SeekSects,     \* P6_GFS_SEEK_SECTS: sectors of a refill after a seek
  FailedPrefix,  \* sectors a failing GFS_Fread may have written already
  ReadSizes      \* the lengths reads ask for

ASSUME HandlesAssumption == IsFiniteSet(Handles) /\ Handles \subseteq Nat
ASSUME FilesAssumption == SizeOf \in [Files -> Nat] /\ "closed" \notin Files
ASSUME WindowAssumption ==
  /\ Sector \in Nat \ {0}
  /\ SeekSects \in Nat \ {0} /\ WinSects \in Nat /\ SeekSects <= WinSects
  /\ FailedPrefix \subseteq Nat /\ ReadSizes \subseteq Nat

VARIABLES
  file,        \* Saturn_FileIO.used, .gfs and .size: the file of a used handle
  cursor,      \* Saturn_FileIO.cursor
  winOff,      \* Saturn_FileIO.win_off, -1 = invalid
  winLen,      \* Saturn_FileIO.win_len
  win,         \* the bytes at Saturn_FileIO.win
  packFile,    \* s_pack_fid (and s_pack_gfs, s_pack_size)
  packRefs,    \* s_pack_refs
  packPos,     \* s_pack_gfs_pos: the tracked access pointer, -1 = unknown
  gfsPos,      \* the access pointer of the GFS handle itself, in sectors
  call,        \* the Saturn_fRead in progress: handle, want, a fill failed
  buf          \* what it has copied to its destination (done = Len(buf))

handleVars == <<file, cursor, winOff, winLen, win>>
packVars == <<packFile, packRefs, packPos, gfsPos>>
vars == <<file, cursor, winOff, winLen, win,
          packFile, packRefs, packPos, gfsPos, call, buf>>

Stdio == INSTANCE StdioFiles WITH
           Handles <- Handles, Files <- Files, SizeOf <- SizeOf,
           file <- file, cursor <- cursor, call <- call, buf <- buf
NoFile == Stdio!NoFile
NoCall == Stdio!NoCall
Byte(f, o) == Stdio!Byte(f, o)
Garbage == <<"garbage">>

WinBytes == WinSects * Sector
AnyByte == Files \X Nat \cup {Garbage}
Calls == [handle : Handles, want : Nat, failed : BOOLEAN]
Used == {h \in Handles : file[h] # NoFile}

TypeOK ==
  /\ file \in [Handles -> Files \cup {NoFile}]
  /\ cursor \in [Handles -> Nat]
  /\ \A h \in Used : cursor[h] <= SizeOf[file[h]]
  /\ winOff \in [Handles -> Nat \cup {-1}]
  /\ winLen \in [Handles -> Nat]
  /\ win \in [Handles -> [0..(WinBytes - 1) -> AnyByte]]
  /\ packFile \in Files \cup {NoFile} /\ packRefs \in Nat
  /\ packPos \in Nat \cup {-1} /\ gfsPos \in Nat
  /\ call \in Calls \cup {NoCall} /\ buf \in Seq(AnyByte)

Init ==
  /\ file = [h \in Handles |-> NoFile]
  /\ cursor = [h \in Handles |-> 0]
  /\ winOff = [h \in Handles |-> -1]
  /\ winLen = [h \in Handles |-> 0]
  /\ win = [h \in Handles |-> [j \in 0..(WinBytes - 1) |-> Garbage]]
  /\ packFile = NoFile /\ packRefs = 0 /\ packPos = -1 /\ gfsPos = 0
  /\ call = NoCall /\ buf = <<>>

----------------------------------------------------------------------------
(* Saturn_fOpen, Saturn_fClose, Saturn_fSeek.                              *)

FirstFree(h) == file[h] = NoFile /\ \A g \in Handles : g < h => file[g] # NoFile

WinOffKept(h) == winOff[h]                       \* faulty: not reset
WinOffAtOpen(h) == -1

\* a virtual handle: a cursor and an empty window of its own
Claim(h, f) ==
  /\ call = NoCall /\ FirstFree(h)
  /\ file' = [file EXCEPT ![h] = f]
  /\ cursor' = [cursor EXCEPT ![h] = 0]
  /\ winOff' = [winOff EXCEPT ![h] = WinOffAtOpen(h)]
  /\ winLen' = [winLen EXCEPT ![h] = IF WinOffAtOpen(h) = -1 THEN 0 ELSE @]
  /\ UNCHANGED <<win, call, buf>>

\* nothing is open: GFS_Open succeeds, the pointer starts out unknown
OpenFirst(h, f) ==
  /\ packRefs = 0
  /\ Claim(h, f)
  /\ packFile' = f /\ packRefs' = 1 /\ packPos' = -1 /\ gfsPos' = 0

RefsShared == packRefs + 1

\* the file is open already: its GFS handle is shared
OpenShared(h) ==
  /\ packRefs > 0
  /\ Claim(h, packFile)
  /\ packRefs' = RefsShared
  /\ UNCHANGED <<packFile, packPos, gfsPos>>

Close(h) ==
  /\ call = NoCall /\ h \in Used
  /\ file' = [file EXCEPT ![h] = NoFile]
  /\ IF packRefs - 1 <= 0
       THEN packFile' = NoFile /\ packRefs' = 0 /\ packPos' = -1 /\ gfsPos' = 0
       ELSE packRefs' = packRefs - 1 /\ UNCHANGED <<packFile, packPos, gfsPos>>
  /\ UNCHANGED <<cursor, winOff, winLen, win, call, buf>>

Unclamped(pos, size) == IF pos < 0 THEN 0 ELSE pos   \* faulty: no upper clamp
Clamped(pos, size) == IF pos < 0 THEN 0 ELSE IF pos > size THEN size ELSE pos

\* any whence and offset: pos is their sum
Seek(h, pos) ==
  /\ call = NoCall /\ h \in Used
  /\ cursor' = [cursor EXCEPT ![h] = Clamped(pos, SizeOf[file[h]])]
  /\ UNCHANGED <<file, winOff, winLen, win, packFile, packRefs, packPos,
                 gfsPos, call, buf>>

----------------------------------------------------------------------------
(* Saturn_fRead.                                                           *)

AtMost(a, b) == IF a <= b THEN a ELSE b

ReadBegin(h, n) ==
  /\ call = NoCall /\ h \in Used
  /\ call' = [handle |-> h, failed |-> FALSE,
              want |-> AtMost(n, SizeOf[file[h]] - cursor[h])]
  /\ buf' = <<>>
  /\ UNCHANGED <<handleVars, packVars>>

Unfinished == call # NoCall /\ ~call.failed /\ Len(buf) < call.want

InWindow(h) ==
  /\ winOff[h] >= 0
  /\ winOff[h] <= cursor[h] /\ cursor[h] < winOff[h] + winLen[h]

\* the memcpy out of the window
Copy ==
  LET h == call.handle
      n == AtMost(call.want - Len(buf), winOff[h] + winLen[h] - cursor[h])
  IN  /\ Unfinished /\ InWindow(h)
      /\ buf' = buf \o [i \in 1..n |-> win[h][cursor[h] - winOff[h] + i - 1]]
      /\ cursor' = [cursor EXCEPT ![h] = @ + n]
      /\ UNCHANGED <<file, winOff, winLen, win, packVars, call>>

(* p6_window_fill.  avail_sects is positive here: the cursor of an          *)
(* unfinished read is before the end of the file.                          *)
NeedSector == cursor[call.handle] \div Sector
Sequential == NeedSector = packPos
SectorsOf(f) == (SizeOf[f] + Sector - 1) \div Sector
FillSects ==
  AtMost(IF Sequential THEN WinSects ELSE SeekSects,
         SectorsOf(file[call.handle]) - NeedSector)

NeedsFill == Unfinished /\ ~InWindow(call.handle)

FailureRetried == call                           \* faulty: the loop goes on
FailedCall == [call EXCEPT !.failed = TRUE]
PosKeptOnError == packPos                        \* faulty: not forgotten
PosAfterError == -1

\* GFS_Seek fails
FillSeekFails ==
  /\ NeedsFill /\ ~Sequential
  /\ packPos' = PosAfterError
  /\ gfsPos' \in {gfsPos, NeedSector}
  /\ call' = FailedCall
  /\ UNCHANGED <<handleVars, packFile, packRefs, buf>>

\* GFS_Fread fails, after it wrote some sectors: the window stays as it was
\* declared
FillReadFails ==
  /\ NeedsFill
  /\ packPos' = PosAfterError
  /\ gfsPos' \in {NeedSector, NeedSector + FillSects}
  /\ \E p \in FailedPrefix : p < FillSects /\
       win' = [win EXCEPT ![call.handle] =
                 [j \in DOMAIN @ |-> IF j < p * Sector THEN Garbage ELSE @[j]]]
  /\ call' = FailedCall
  /\ UNCHANGED <<file, cursor, winOff, winLen, packFile, packRefs, buf>>

\* GFS_Fread reads from where the GFS handle really is
From == IF Sequential THEN gfsPos ELSE NeedSector
FillSucceeds ==
  LET h == call.handle
      n == FillSects * Sector
  IN  /\ NeedsFill
      /\ win' = [win EXCEPT ![h] =
           [j \in DOMAIN @ |->
              IF j < n THEN Byte(packFile, From * Sector + j) ELSE @[j]]]
      /\ gfsPos' = From + FillSects
      /\ packPos' = NeedSector + FillSects
      /\ winOff' = [winOff EXCEPT ![h] = NeedSector * Sector]
      /\ winLen' = [winLen EXCEPT ![h] =
                      AtMost(n, SizeOf[file[h]] - NeedSector * Sector)]
      /\ UNCHANGED <<file, cursor, packFile, packRefs, call, buf>>

ReadEnd ==
  /\ call # NoCall /\ ~Unfinished
  /\ call' = NoCall /\ buf' = <<>>
  /\ UNCHANGED <<handleVars, packVars>>

ReadStep == Copy \/ FillSeekFails \/ FillReadFails \/ FillSucceeds \/ ReadEnd

----------------------------------------------------------------------------
\* every position, and one beyond each end
Positions(h) == -1..(SizeOf[file[h]] + 1)

Next ==
  \/ \E h \in Handles :
       \/ OpenShared(h) \/ Close(h)
       \/ \E f \in Files : OpenFirst(h, f)
  \/ \E h \in Used :
       \/ \E pos \in Positions(h) : Seek(h, pos)
       \/ \E n \in ReadSizes : ReadBegin(h, n)
  \/ ReadStep

Spec == Init /\ [][Next]_vars

\* the loop of Saturn_fRead runs; GFS may fail but returns
FairSpec == Spec /\ WF_vars(ReadStep)

----------------------------------------------------------------------------
(* Properties.                                                             *)

\* Skipping GFS_Seek is sound: a known tracked pointer is where the GFS
\* handle is, after any interleaving of two handles' refills, failures,
\* closes and opens.
PosTracked == packPos # -1 => packFile # NoFile /\ gfsPos = packPos

\* The GFS handle is open exactly while some handle uses it, all used handles
\* share its file, and the count is theirs.
RefsCount ==
  /\ packRefs = Cardinality(Used)
  /\ packFile # NoFile <=> Used # {}
  /\ \A h \in Used : file[h] = packFile

\* Inside its declared window every used handle holds the bytes of its file.
WindowFaithful ==
  \A h \in Used :
    /\ winOff[h] = -1 => winLen[h] = 0
    /\ winLen[h] <= WinBytes
    /\ \A j \in 0..(winLen[h] - 1) : win[h][j] = Byte(file[h], winOff[h] + j)

\* The backend implements stdio streams over the pack: reads deliver the
\* file's bytes from the cursor on, and are short only on a CD failure.
RefinesStdio == Stdio!Spec

\* Every Saturn_fRead returns, whatever the CD answers.
ReadReturns == (call # NoCall) ~> (call = NoCall)
==============================================================================
