---------------------------- MODULE LineEditorMC ----------------------------
(***************************************************************************)
(* A small terminal: lines of three characters where the program has 256.  *)
(***************************************************************************)
EXTENDS LineEditor

MCLength == [confirm |-> 2, inquire |-> 3]
MCChars == [commands |-> {"a", "-"}, confirm |-> {"a", " "}, inquire |-> {"a", "c"}]
MCMaxLines == [commands |-> 3, confirm |-> 1, inquire |-> 2]
MCFiles == {<<"a", "a">>}
MCLeftovers == {<<"b">>}
Key1(echo, erase, terminate) == [value |-> <<"b">>, echo |-> echo, erase |-> erase, terminate |-> terminate]
MCKeyDefs == {Key1(TRUE, FALSE, FALSE), Key1(FALSE, TRUE, TRUE)}
MCRecallText == <<"a">>
=============================================================================
