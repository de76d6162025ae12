---------------------------- MODULE FunctionKeys ----------------------------
(***************************************************************************)
(* The texts of the function keys: DEFINE/KEY of define.c and DELETE/KEY   *)
(* of delete.c.                                                            *)
(***************************************************************************)
EXTENDS Integers, Sequences

CONSTANTS
  KeyNames,     \* the keys that are defined and deleted
  KeyDefs,      \* what they are defined as: a text and its qualifiers
  NoKey

VARIABLE keydef

Keys == 0..23
Key == KeyDefs
KeyTexts == {k.value : k \in KeyDefs}

\* The names, in the order of each command's own table.
FirstTen == <<"F1", "F2", "F3", "F4", "F5", "F6", "F7", "F8", "F9", "F10">>
ShiftedTen == <<"SF1", "SF2", "SF3", "SF4", "SF5", "SF6", "SF7", "SF8", "SF9", "SF10">>
DefineTable == FirstTen \o <<"F11", "F12">> \o ShiftedTen \o <<"SF11", "SF12">>
DeleteTable == FirstTen \o ShiftedTen \o <<"F11", "F12", "SF11", "SF12">>

dcl_search_key(table, name) == (CHOOSE i \in DOMAIN table : table[i] = name) - 1

KeysInit == keydef = [i \in Keys |-> NoKey]

\* A key that is neither echoed nor terminates the line is refused.
dcl_define_key(name, k) ==
  /\ k.echo \/ k.terminate
  /\ keydef' = [keydef EXCEPT ![dcl_search_key(DefineTable, name)] = k]

dcl_del_key(name) == keydef' = [keydef EXCEPT ![dcl_search_key(DeleteTable, name)] = NoKey]
DeleteAllKeys == keydef' = [i \in Keys |-> NoKey]

KeyCommand ==
  \/ \E name \in KeyNames, k \in Key : dcl_define_key(name, k)
  \/ \E name \in KeyNames : dcl_del_key(name)
  \/ DeleteAllKeys
=============================================================================
