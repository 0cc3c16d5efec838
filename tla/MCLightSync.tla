---------------------------- MODULE MCLightSync ----------------------------
(* Three periods of six slots.  Finality is one slot behind, but stalls in *)
(* two chains; few sign at the end of a period, or around it.              *)
EXTENDS LightSync

Steady == [a \in Slot |-> IF a = 0 THEN 0 ELSE a - 1]
Stalling(at) == [Steady EXCEPT ![at] = at - 2]

MCChains ==
  {[fin |-> Steady, quiet |-> q] : q \in {{5}, {6, 7}, {11, 12}}}
    \cup {[fin |-> Stalling(a), quiet |-> {}] : a \in {7, 12}}

(* ErrorHasCause is expected to hold here, and is proved of such constants. *)
ASSUME MCFavourable == Favourable
=============================================================================
