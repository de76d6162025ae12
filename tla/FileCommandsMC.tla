--------------------------- MODULE FileCommandsMC ---------------------------
(* An instance of FileCommands, on Unix: "*.*" does not find S. *)
EXTENDS FileCommands, TLC

SomeFiles == {"A", "D", "S"}
SomeTypes == {"T", "B", ""}
WithType == {n \in SomeFiles \X SomeTypes : n[2] # ""}
A == <<"A", "T">>
D == <<"D", "T">>
S == <<"S", "">>

TwoWays == "rel" :> << >> @@ "abs" :> <<S>>
F(piece, date) == [data |-> <<piece>>, date |-> date]

Flat == [dirs |-> {<< >>, <<S>>}, files |-> <<A>> :> F(1, 1) @@ <<D>> :> F(2, 2) @@ <<S, A>> :> F(3, 2)]
Tree == [dirs |-> {<< >>, <<D>>, <<D, D>>, <<S>>},
         files |-> <<A>> :> F(1, 1) @@ <<D, A>> :> F(2, 1) @@ <<D, D, A>> :> F(3, 2)]

SomeDisks == {Flat, Tree}

Rel(dir, file, type) == [way |-> "rel", dir |-> dir, file |-> file, type |-> type]
Abs(dir, file, type) == [way |-> "abs", dir |-> dir, file |-> file, type |-> type]
All == Rel(<< >>, "*", "*")
AllT == Rel(<< >>, "*", "T")
Make(verb, from, to, quals) == [verb |-> verb, from |-> from, to |-> to, quals |-> quals, dates |-> Dates]
Old(c) == [c EXCEPT !.dates = {1}]

SomeCommands ==
  {Make("DELETE", <<All>>, All, {"SUBDIR"}),
   Make("DELETE", <<All>>, All, {"CONFIRM", "ERASE"}),
   Old(Make("DELETE", <<Rel(<< >>, "S", "")>>, All, {})),
   Make("COPY", <<Rel(<<D>>, "*", "*")>>, Rel(<< >>, "S", ""), {"SUBDIR"}),
   Make("COPY", <<Rel(<<D>>, "*", "*"), All>>, Rel(<<S>>, "", "B"), {"SUBDIR", "CONFIRM"}),
   Make("COPY", <<Abs(<< >>, "*", "T")>>, Abs(<<S>>, "", ""), {"SUBDIR", "NEW"}),
   Make("COPY", <<AllT>>, Abs(<< >>, "D", "T"), {}),
   Make("COPY", <<All>>, Rel(<< >>, "A", ""), {}),
   Make("COPY", <<AllT>>, Rel(<< >>, "*", "B"), {"CONFIRM", "NOREPLACE"}),
   Make("RENAME", <<AllT>>, Rel(<< >>, "D", "T"), {"CONFIRM"}),
   Make("RENAME", <<Rel(<<D>>, "*", "T"), AllT>>, Rel(<< >>, "S", ""), {}),
   Make("APPEND", <<All>>, Rel(<< >>, "*", "B"), {}),
   Old(Make("APPEND", <<AllT>>, Rel(<< >>, "A", "T"), {"CONFIRM"})),
   Make("TYPE", <<All, Rel(<<S>>, "*", "*")>>, All, {"CONFIRM"}),
   Make("PRINT", <<AllT>>, All, {"CONFIRM", "SETUP"}),
   Old(Make("SETFILE", <<Rel(<< >>, "A", "T")>>, All, {"SUBDIR", "CONFIRM"}))}
=============================================================================
