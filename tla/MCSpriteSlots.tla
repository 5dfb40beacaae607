---------------------------- MODULE MCSpriteSlots ----------------------------
(* One bucket of two slots for three rectangles, so that a frame can overflow *)
(* it; one handle that a seam binds to either of two sheets.                 *)
EXTENDS SpriteSlots

CONSTANTS r1, r2, r3, bucket

MCBucketOf == [r \in Rects |-> bucket]
MCSlotBucket == [s \in Slots |-> bucket]
==============================================================================
