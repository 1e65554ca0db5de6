---------------------------- MODULE MCSaveFormat ----------------------------
(* Four programs for SaveFormat: a plain one of two requirements, one with *)
(* an option and a gap among its items, and ones with a question mark in   *)
(* an item and in a text.                                                  *)
EXTENDS SaveFormat

MCWords == {"\n", "?", "|", " ", ";", "false", "Math", "CS", "AI", "core", "lab",
            "many", "a", "b", "c", "why", "not", "this", "that"}

TextOf(ws) == [i \in 1 .. Len(ws) |-> IF ws[i] = "1" THEN Numeral(1) ELSE Word(ws[i])]

Program(option, reqs) ==
  [faculty |-> TextOf(<<"Math">>), major |-> TextOf(<<"CS">>), option |-> TextOf(option),
   reqs |-> [i \in 1 .. Len(reqs) |-> TextOf(reqs[i])]]

MCPrograms ==
  {Program(<<>>, << <<"core", ";", "1", ";", "a", ";", "b">>,
                    <<"lab", ";", "many", ";", "c">> >>),
   Program(<<"AI">>, << <<"core", ";", "1", ";", "a", ";", ";", "b">> >>),
   Program(<<"AI">>, << <<"core", ";", "1", ";", "a", "?", "b", ";", "c">> >>),
   Program(<<>>, << <<"core", "?", ";", "1", ";", "a">> >>)}

MCComments == {<<>>, TextOf(<<"why", "?", "not">>), TextOf(<<"this", "|", "that">>)}
=============================================================================
