------------------------------- MODULE MCPicker -------------------------------
(* A small database of faculties, programs and options for Picker.         *)
EXTENDS Picker

CONSTANTS math, arts, cs, stat, hist, bioinf, none, x

\* Two programs of one faculty, one of the other; an option of one program,
\* the entry for no option at two.
MCMajors  == [f \in Faculties |-> IF f = math THEN {cs, stat} ELSE {hist}]
MCOptions == [m \in {cs, stat, hist} |->
                IF m = cs THEN {none, bioinf}
                ELSE IF m = stat THEN {none} ELSE {}]
=============================================================================
