-------------------------------- MODULE MCJson --------------------------------
(***************************************************************************)
(* cJSON's items and its texts, which share no state, for TLC: a behaviour *)
(* is about one of them, its subject, and the other stays as it began.     *)
(*                                                                         *)
(* Texts are of a few bytes: a number with a sign, an empty string, a      *)
(* letter, and a string that has to be escaped in each way.                *)
(***************************************************************************)
EXTENDS JsonTree, JsonText

VARIABLE subject

MCStrings == {<< >>, <<97>>, <<34, 10, 1>>}
MCNumbers == {1, -21}
\* a control byte, a space, a plus, a zero, and what has a meaning in a text
MCNoise == {1, 32, 34, 43, 44, 45, 48, 49, 58, 91, 92, 93, 97, 123, 125}

JsonInit ==
    /\ subject \in {"tree", "text"}
    /\ Init /\ TextInit
    /\ subject = "tree" => item = Null

\* The calls of the run are used up.
CallsOver == calls = MaxCalls /\ UNCHANGED vars

JsonNext ==
    /\ \/ subject = "tree" /\ (Next \/ CallsOver) /\ UNCHANGED textVars
       \/ subject = "text" /\ TextNext /\ UNCHANGED vars
    /\ UNCHANGED subject

JsonSpec == JsonInit /\ [][JsonNext]_<<subject, vars, textVars>>
=============================================================================
