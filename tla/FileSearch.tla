----------------------------- MODULE FileSearch -----------------------------
(***************************************************************************)
(* F$SEARCH (f_search): a search goes on from call to call, one for each   *)
(* stream, until its specification changes or no file is left.             *)
(***************************************************************************)
EXTENDS Integers, Sequences, FiniteSets

CONSTANTS
  Streams,      \* 0 is the stream of a call that names none
  Patterns,     \* file specifications
  Matches       \* specification -> the files on the disk that it selects

\* The empty specification would go on with a search that is closed.
ASSUME PatternsAssumption == "" \notin Patterns /\ DOMAIN Matches = Patterns
ASSUME FilesAssumption == \A spec \in Patterns : IsFiniteSet(Matches[spec])

VARIABLES
  search,       \* stream -> its filespec, and what its handle has not delivered
  value,        \* of the function: a name, or ""
  seen,         \* observation only: stream -> what was delivered since its search began
  asked         \* observation only: the specification of the last call

searchVars == <<search, value, seen, asked>>

Unused == [filespec |-> "", left |-> {}]

ContinuedAnywhere(s, spec) ==
  LET same == {t \in Streams : search[t].filespec = spec}
  IN IF same = {} THEN Matches[spec] ELSE search[CHOOSE t \in same : TRUE].left

\* What a stream goes on with: the search before is left open when the specification changes.
Continued(s, spec) == IF search[s].filespec = spec THEN search[s].left ELSE Matches[spec]
SeenBefore(s, spec) == IF search[s].filespec = spec THEN seen[s] ELSE << >>

f_search(s, spec) ==
  /\ asked' = spec
  /\ \/ \E f \in Continued(s, spec) :
          /\ search' = [search EXCEPT ![s] = [filespec |-> spec, left |-> Continued(s, spec) \ {f}]]
          /\ value' = f
          /\ seen' = [seen EXCEPT ![s] = Append(SeenBefore(s, spec), f)]
     \/ /\ Continued(s, spec) = {}
        /\ search' = [search EXCEPT ![s] = Unused]
        /\ value' = ""
        /\ seen' = [seen EXCEPT ![s] = << >>]

SearchInit ==
  /\ search = [s \in Streams |-> Unused]
  /\ value = ""
  /\ seen = [s \in Streams |-> << >>]
  /\ asked = ""

\* lexicals.hlp:1009: a search returns the files of its specification, each once, and then "",
\* whatever the other streams search for in between.
SearchComplete ==
  [][\A s \in Streams :
       search[s] # Unused /\ search[s].filespec = asked' /\ search'[s] = Unused =>
         /\ Len(seen[s]) = Cardinality(Matches[search[s].filespec])
         /\ {seen[s][i] : i \in DOMAIN seen[s]} = Matches[search[s].filespec]]_searchVars
=============================================================================
