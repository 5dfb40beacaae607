----------------------------- MODULE MCSheetStore -----------------------------
(* The sizes of the disc's files, in cells of 4 KB rounded up (TSONIC counts  *)
(* the rest of the title, ZONE the shields, the global and the zone's objects, *)
(* EXPLOS the animals).                                                      *)
EXTENDS SheetStore, TLC

MCRaw == ("LOGOS" :> 32 @@ "TLOGO" :> 64 @@ "TSONIC" :> 272 @@ "AIZOBJ" :> 64
          @@ "HBH" :> 60 @@ "PLR" :> 10 @@ "SONIC" :> 64 @@ "SONIC23" :> 128
          @@ "TAILS" :> 64 @@ "RUBY" :> 8 @@ "GHC" :> 64 @@ "ITEMS" :> 8
          @@ "DISPLAY" :> 16 @@ "ZONE" :> 112 @@ "EXPLOS" :> 72)
MCFrd == ("SONIC" :> 64 @@ "SONIC23" :> 98 @@ "TAILS" :> 64 @@ "RUBY" :> 4
          @@ "GHC" :> 6 @@ "ITEMS" :> 8 @@ "DISPLAY" :> 16 @@ "ZONE" :> 99
          @@ "EXPLOS" :> 45 @@ "AIZOBJ" :> 27
          @@ [s \in {"LOGOS", "TLOGO", "TSONIC", "HBH", "PLR"} |-> 1])

(* What the theorems about the drawn pixels and the landing assume.          *)
ASSUME DiscFits == LandingFits /\ CutsceneFits
===============================================================================
