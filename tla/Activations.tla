---------------------------- MODULE Activations ----------------------------
(***************************************************************************)
(* The order in which procedures and subroutines end.  Above the terminal  *)
(* the interpreter keeps the files that are open and, above all of them,   *)
(* the CALLed subroutines: CALL begins a subroutine on top, but "@" begins *)
(* a file below the subroutines that run, whose ends come first.           *)
(***************************************************************************)
EXTENDS Naturals, Sequences, SequencesExt

VARIABLE active   \* the activations, from the terminal up

BeginSubroutine == active' = Append(active, "subroutine")

BeginFile ==
  \E i \in 2..Len(active) + 1 :
    /\ \A j \in 2..Len(active) : active[j] = IF j < i THEN "file" ELSE "subroutine"
    /\ active' = InsertAt(active, i, "file")

EndNewest == Len(active) > 1 /\ active' = Front(active)
Leave == active' = << >>

Init == active = <<"terminal">>
Next == BeginSubroutine \/ BeginFile \/ EndNewest \/ Leave
Spec == Init /\ [][Next]_active
=============================================================================
