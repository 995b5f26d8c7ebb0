------------------------------ MODULE MCHordes ------------------------------
(***************************************************************************)
(* The hordes that the runs start.                                          *)
(***************************************************************************)
EXTENDS Hordes

\* What the New Gremlin dialog asks for when the fields whose boxes are checked have numbers
\* above zero in them; -1 stands for a box that is not checked.
Horde(last, switch, max) ==
  [fStartNumber |-> last, fStopNumber |-> 0, fSwitchDepth |-> switch, fMaxDepth |-> max]

DialogInfos ==
  {Horde(2, 1, 2), Horde(1, 1, 3), Horde(1, 2, 3), Horde(1, 2, 2), Horde(1, -1, 2),
   Horde(1, 2, -1), Horde(0, 1, 2), Horde(0, -1, -1)}
=============================================================================
