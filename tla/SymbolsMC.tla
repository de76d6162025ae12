----------------------------- MODULE SymbolsMC ------------------------------
(* An instance of Symbols. *)
EXTENDS Symbols, TLC

SomeNames == {"S", "SH"}
TheirPrefixes == {<<n, n>> : n \in SomeNames} \cup {<<"S", "SH">>}
\* Every name here begins with "S": "*" would select what "S" selects.
SomePatterns == SomeNames
OneParameter == <<"SH">>
FewSymbols == 0 :> 1 @@ 1 :> 1 @@ 2 :> 2
SomeValues == {"", "v"}
=============================================================================
