---------------------------- MODULE CommandLine -----------------------------
(***************************************************************************)
(* The parameters and qualifiers of a command (cmd_parse_line): they are   *)
(* taken from its line, and mandatory parameters that are missing are      *)
(* asked for when somebody types.                                          *)
(***************************************************************************)
EXTENDS Integers, Sequences, FiniteSets

CONSTANTS
  Tables,      \* what commands take: the flags of their parameters, in order
  Qualifiers,  \* of the commands, with or without a value
  WithValue,   \* those with the flag VALUE
  Keys,        \* what is typed after '/': the qualifiers whose names begin with it
  ParamTexts,
  MaxWords     \* bound: the words of a line

ASSUME TablesAssumption == \A table \in Tables : table \in Seq(SUBSET {"MANDATORY", "EXPR"})
ASSUME KeysAssumption ==
  IsFiniteSet(Qualifiers) /\ Keys \subseteq SUBSET Qualifiers /\ WithValue \subseteq Qualifiers

VARIABLES
  phase,       \* "line", "prompt", "done"
  rp,          \* the parameters of the command: sets of flags
  words,       \* the line, its command name left out
  terminal,    \* somebody types: mode is interactive and D <= 1
  p, param,    \* the parameters found, and the values
  qual,        \* the qualifiers that are present, and their values
  retcod, SEVERITY, STATUS

lineVars == <<phase, rp, words, terminal, p, param, qual, retcod, SEVERITY, STATUS>>

\* A word that begins with '=' is the value of the qualifier before it, or a parameter.
Word == [kind: {"text"}, text: ParamTexts, equals: BOOLEAN]
Key == [kind: {"key"}, matches: Keys]
\* The text of two quotation marks, and of a parameter that is not there.
Empty == ""
Absent == "absent"
ASSUME TextsAssumption == Empty \in ParamTexts /\ Absent \notin ParamTexts

(***************************************************************************)
(* The line is taken word by word; parsing stops at the first error, at a  *)
(* parameter that is an expression and at a word too many.                 *)
(***************************************************************************)
Parsing == [at |-> 1, p |-> 0, param |-> [i \in DOMAIN rp |-> Empty],
            qual |-> [q \in Qualifiers |-> Absent], end |-> "none", SEVERITY |-> SEVERITY, STATUS |-> STATUS]

Stop(st, why, severity) == [st EXCEPT !.end = why, !.SEVERITY = severity, !.STATUS = 19]

TakeQualifierAlone(st, q) ==
  LET valued == /\ q \in WithValue
                /\ st.at + 1 \in DOMAIN words
                /\ words[st.at + 1].kind = "text" /\ words[st.at + 1].equals
  IN [st EXCEPT !.at = @ + IF valued THEN 2 ELSE 1,
                !.qual[q] = IF valued THEN words[st.at + 1].text ELSE Empty]

\* /KEY, and its value if one follows: a qualifier that is repeated without one keeps it.
TakeQualifier(st, q) ==
  LET valued == /\ q \in WithValue
                /\ st.at + 1 \in DOMAIN words
                /\ words[st.at + 1].kind = "text" /\ words[st.at + 1].equals
  IN [st EXCEPT !.at = @ + IF valued THEN 2 ELSE 1,
                !.qual[q] = IF valued THEN words[st.at + 1].text ELSE IF @ = Absent THEN Empty ELSE @]
TakeKey(st, matches) ==
  IF Cardinality(matches) # 1 THEN Stop(st, "error", 2)
  ELSE TakeQualifier(st, CHOOSE q \in matches : TRUE)

TakeText(st, word) ==
  IF st.p = Len(rp) THEN Stop(st, "extraneous", 1)
  ELSE [st EXCEPT !.at = @ + 1, !.p = @ + 1, !.param[st.p + 1] = word.text,
                  !.end = IF "EXPR" \in rp[st.p + 1] THEN "expression" ELSE @]

Take(st) ==
  LET word == words[st.at]
  IN IF word.kind = "key" THEN TakeKey(st, word.matches) ELSE TakeText(st, word)

Parsed ==
  LET after[n \in 0..Len(words)] ==
        IF n = 0 THEN Parsing
        ELSE LET st == after[n - 1]
             IN IF st.end # "none" \/ st.at \notin DOMAIN words THEN st ELSE Take(st)
  IN after[Len(words)]

(***************************************************************************)
(* Mandatory parameters.                                                   *)
(***************************************************************************)
Missing(values) == {i \in DOMAIN rp : "MANDATORY" \in rp[i] /\ values[i] = Empty}

Type(word) ==
  /\ phase = "line" /\ Len(words) < MaxWords
  /\ words' = Append(words, word)
  /\ UNCHANGED <<phase, rp, terminal, p, param, qual, retcod, SEVERITY, STATUS>>

Parse ==
  /\ phase = "line"
  /\ LET st == Parsed
         missing == st.end # "error" /\ Missing(st.param) # {}
         ask == missing /\ terminal
         refuse == missing /\ ~terminal
     IN /\ phase' = IF ask THEN "prompt" ELSE "done"
        /\ p' = st.p /\ param' = st.param /\ qual' = st.qual
        /\ retcod' = IF st.end = "error" \/ refuse THEN "DCL_ERROR" ELSE "DCL_OK"
        /\ SEVERITY' = IF refuse THEN 2 ELSE st.SEVERITY
        /\ STATUS' = IF refuse THEN 19 ELSE st.STATUS
  /\ UNCHANGED <<rp, words, terminal>>

Asked == CHOOSE i \in Missing(param) : \A j \in Missing(param) : i <= j

\* The prompt of a parameter comes again until there is an answer.
Answer(text) ==
  /\ phase = "prompt"
  /\ param' = [param EXCEPT ![Asked] = text]
  /\ phase' = IF Missing(param') = {} THEN "done" ELSE "prompt"
  /\ UNCHANGED <<rp, words, terminal, p, qual, retcod, SEVERITY, STATUS>>

\* CTRL/Y or CTRL/Z.
GiveUp ==
  /\ phase = "prompt"
  /\ phase' = "done" /\ retcod' = "DCL_ERROR"
  /\ UNCHANGED <<rp, words, terminal, p, param, qual, SEVERITY, STATUS>>

(***************************************************************************)
(* The line, told without parsing it.                                      *)
(***************************************************************************)
IsKey(k) == words[k].kind = "key"
\* The value of the qualifier before it.
IsValue(k) ==
  /\ ~IsKey(k) /\ words[k].equals
  /\ k > 1 /\ IsKey(k - 1) /\ \E q \in WithValue : words[k - 1].matches = {q}
Plain == {k \in DOMAIN words : ~IsKey(k) /\ ~IsValue(k)}
Number(k) == Cardinality({j \in Plain : j <= k})

\* The last word that counts: an expression takes the rest of the line with it, and what follows
\* a parameter too many is dropped.
Ends(k) == k \in Plain /\ (Number(k) > Len(rp) \/ (Number(k) \in DOMAIN rp /\ "EXPR" \in rp[Number(k)]))
Counts(k) == \A j \in DOMAIN words : j < k => ~Ends(j)
Names(k, q) == k \in DOMAIN words /\ Counts(k) /\ IsKey(k) /\ words[k].matches = {q}
Wrong == \E k \in DOMAIN words : Counts(k) /\ IsKey(k) /\ Cardinality(words[k].matches) # 1

\* cmd.c:120 "check and get parameters and qualifiers": in a line whose qualifiers are each the
\* only one of that name, every parameter is the text in its place, and every qualifier named is
\* present with the last value it was given; any other line is refused.
\* cmd.c:208 "check if all mandatory Params are found; if not, prompt for them if in interactive
\* mode, else abort": a command that is accepted has them, also one given as "".
LineUnderstood ==
  phase # "line" =>
    /\ phase = "done" /\ retcod = "DCL_OK" => Missing(param) = {}
    /\ Wrong => phase = "done" /\ retcod = "DCL_ERROR"
    /\ ~Wrong =>
         /\ \A k \in Plain : Counts(k) /\ Number(k) <= Len(rp) /\ words[k].text # Empty =>
                               param[Number(k)] = words[k].text
         /\ \A q \in Qualifiers :
              LET given == {k \in DOMAIN words : IsValue(k) /\ Names(k - 1, q)}
              IN /\ qual[q] = Absent <=> ~\E k \in DOMAIN words : Names(k, q)
                 /\ \A k \in given : (\A j \in given : j <= k) => qual[q] = words[k].text
=============================================================================
