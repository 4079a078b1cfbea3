--------------------------- MODULE SupervisionMC ---------------------------
(***************************************************************************)
(* Supervision of six systems: plain, with a real root, with a display     *)
(* server too, and with horust and no service, two, or three of which one  *)
(* has no command.                                                         *)
(***************************************************************************)
EXTENDS Supervision

Plain == [realRoot |-> FALSE, horust |-> FALSE, display |-> FALSE, services |-> <<>>]
MCSetups ==
  {Plain, [Plain EXCEPT !.realRoot = TRUE], [Plain EXCEPT !.display = TRUE, !.realRoot = TRUE],
   [Plain EXCEPT !.horust = TRUE], [Plain EXCEPT !.horust = TRUE, !.services = <<"run", "run">>],
   [Plain EXCEPT !.horust = TRUE, !.realRoot = TRUE, !.services = <<"run", "", "run">>]}
=============================================================================
