------------------------------ MODULE StdioFiles ------------------------------
(***************************************************************************)
(* What the engine expects of fOpen, fSeek, fRead and fClose on the disc:   *)
(* the semantics of several read-only stdio streams over one file.  Every   *)
(* handle has a cursor of its own; a read delivers the bytes of the file    *)
(* from the cursor on, in order, and stops early only at the end of the     *)
(* file or when the device failed.  PackFile implements this module.        *)
(***************************************************************************)
EXTENDS Integers, Sequences

CONSTANTS
  Handles,     \* the handles of the backend, numbered in scan order
  Files,       \* the files on the disc
  SizeOf       \* their sizes in bytes

VARIABLES
  file,        \* the file each handle is open on
  cursor,      \* the position of each handle
  call,        \* the read in progress
  buf          \* the bytes it has delivered so far

NoFile == "closed"
NoCall == [handle |-> -1, want |-> 0, failed |-> FALSE]
streams == <<file, cursor, call, buf>>

Byte(f, o) == <<f, o>>
Bytes(f, o, n) == [i \in 1..n |-> Byte(f, o + i - 1)]

Init ==
  /\ file = [h \in Handles |-> NoFile]
  /\ cursor = [h \in Handles |-> 0]
  /\ call = NoCall /\ buf = <<>>

\* one file at a time, through as many handles as there are
Open(h, f) ==
  /\ call = NoCall /\ file[h] = NoFile
  /\ \A g \in Handles : file[g] \in {NoFile, f}
  /\ file' = [file EXCEPT ![h] = f]
  /\ cursor' = [cursor EXCEPT ![h] = 0]
  /\ UNCHANGED <<call, buf>>

Close(h) ==
  /\ call = NoCall /\ file[h] # NoFile
  /\ file' = [file EXCEPT ![h] = NoFile]
  /\ UNCHANGED <<cursor, call, buf>>

Seek(h) ==
  /\ call = NoCall /\ file[h] # NoFile
  /\ \E o \in 0..SizeOf[file[h]] : cursor' = [cursor EXCEPT ![h] = o]
  /\ UNCHANGED <<file, call, buf>>

Begin(h) ==
  /\ call = NoCall /\ file[h] # NoFile
  /\ \E n \in 0..(SizeOf[file[h]] - cursor[h]) :
       call' = [handle |-> h, want |-> n, failed |-> FALSE]
  /\ buf' = <<>>
  /\ UNCHANGED <<file, cursor>>

Deliver ==
  /\ call # NoCall
  /\ \E n \in 1..(call.want - Len(buf)) :
       /\ buf' = buf \o Bytes(file[call.handle], cursor[call.handle], n)
       /\ cursor' = [cursor EXCEPT ![call.handle] = @ + n]
  /\ UNCHANGED <<file, call>>

DeviceFails ==
  /\ call # NoCall
  /\ call' = [call EXCEPT !.failed = TRUE]
  /\ UNCHANGED <<file, cursor, buf>>

Return ==
  /\ call # NoCall
  /\ Len(buf) = call.want \/ call.failed
  /\ call' = NoCall /\ buf' = <<>>
  /\ UNCHANGED <<file, cursor>>

Next ==
  \/ \E h \in Handles :
       Close(h) \/ Seek(h) \/ Begin(h) \/ \E f \in Files : Open(h, f)
  \/ Deliver \/ DeviceFails \/ Return

Spec == Init /\ [][Next]_streams
==============================================================================
