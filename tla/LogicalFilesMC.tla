--------------------------- MODULE LogicalFilesMC ---------------------------
(* Instances of LogicalFiles. *)
EXTENDS LogicalFiles, TLC

CONSTANTS in, out, sys, a

TwoFileNames == {in, out}
OneFileName == {in}
SystemName == {sys}
OneFile == {a}
NewRecord == {"new"}
AnyContent == {"old", "new", "gap"}

AnyDisk == {(a :> <<"old", "old">>)}

\* Every combination but those that mean, or are refused, the same as one of these.
AnyQualifiers == {{}, {"WRITE"}, {"APPEND"}, {"READ", "WRITE"}, {"READ", "APPEND"}, {"WRITE", "APPEND"}}

Alike == Permutations({in, out})

\* What the state holds when its use is undefined does not matter, nor where a
\* stream was when it was closed.
Defined ==
  IF undefined THEN << >>
  ELSE <<LOGICAL_TABLE, disk, seen,
         [s \in DOMAIN dclfile |-> IF dclfile[s] = NULL \/ ~dclfile[s].closed THEN dclfile[s]
                                   ELSE <<dclfile[s].file, dclfile[s].by>>]>>
=============================================================================
