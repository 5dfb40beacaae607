---------------------------- MODULE MCLayoutWindow ----------------------------
(* Two zones; FG Low is resident and FG High is inflated band by band; two   *)
(* windows of two rows each cover part of a layer of two by three tiles,     *)
(* whose bands cut the windows.                                            *)
EXTENDS LayoutWindow, TLC

MCProbes == {<<1, 0>>, <<1, 1>>, <<0, 2>>, <<0, 0>>}
MCBreakable == {<<1, 1>>}
==============================================================================
