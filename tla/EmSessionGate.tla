---------------------------- MODULE EmSessionGate ----------------------------
(***************************************************************************)
(* What EmSession promises its clients.  The emulated CPU is a gate that    *)
(* one thread at a time is inside of.  The UI thread holds the gate with    *)
(* stoppers: the CPU thread is outside when a stopper is granted and stays  *)
(* outside until the last one is released; only then may the UI thread      *)
(* itself go in, to call a ROM routine.                                     *)
(***************************************************************************)
EXTENDS Naturals

VARIABLES
  inside,  \* the thread that uses the emulated CPU, or "nobody"
  held     \* the stoppers the UI thread owns

gate == <<inside, held>>

Init == inside = "nobody" /\ held = 0

CPUEnters ==
  /\ inside = "nobody" /\ held = 0
  /\ inside' = "cpu" /\ UNCHANGED held

UIEnters ==
  /\ inside = "nobody" /\ held > 0
  /\ inside' = "ui" /\ UNCHANGED held

Leaves == inside # "nobody" /\ inside' = "nobody" /\ UNCHANGED held

Grant == inside = "nobody" /\ held' = held + 1 /\ UNCHANGED inside

Release == inside = "nobody" /\ held > 0 /\ held' = held - 1 /\ UNCHANGED inside

Next == CPUEnters \/ UIEnters \/ Leaves \/ Grant \/ Release

Spec == Init /\ [][Next]_gate
=============================================================================
