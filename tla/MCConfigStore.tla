---------------------------- MODULE MCConfigStore ---------------------------
(* Instances of ConfigStore for TLC.                                        *)
EXTENDS ConfigStore

CONSTANTS default, edited, broken, several

\* several stands for a list of two windows, the first as in the default.
EachSays == [settings   |-> {default, edited, broken},
             windows    |-> {default, edited, several},
             categories |-> {default, edited}]
FirstWindow == [v \in Value |-> IF v = several THEN default ELSE v]

=============================================================================
