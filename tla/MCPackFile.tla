------------------------------ MODULE MCPackFile ------------------------------
(* Two handles; a file of two sectors and one byte, and a file of one byte:  *)
(* windows end in a partial sector, a sequential refill is longer than one   *)
(* after a seek, and both are clamped at the end of the file.                *)
EXTENDS PackFile, TLC

MCSizeOf == [f \in Files |-> IF f = "DATA.RSDK" THEN 5 ELSE 1]
==============================================================================
