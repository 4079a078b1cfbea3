----------------------------- MODULE DesktopMC -----------------------------
(***************************************************************************)
(* A screen of four by three with two windows beside each other, the left  *)
(* one half below the panel, and surfaces of one pixel or two.             *)
(***************************************************************************)
EXTENDS Desktop

MCWindows == <<[x |-> 0, y |-> 0, width |-> 2, height |-> 1],
               [x |-> 2, y |-> 0, width |-> 2, height |-> 1]>>
MCSurfaceSizes == {[width |-> 1, height |-> 1], [width |-> 2, height |-> 1]}
MCCascade == [x |-> 3, y |-> 2, dx |-> 1, dy |-> 0, length |-> 6]
MCStartPointer == <<1, 0>>
MCMoves == {<<1, 0>>}
=============================================================================
