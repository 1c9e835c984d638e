------------------------------- MODULE MCRunView -------------------------------
(* Instances of RunView for TLC: two runs in one conversation, or one run   *)
(* next to another conversation.                                            *)
EXTENDS RunView

CONSTANTS a, b
MCConvos == {a, b}
MCSizes == {[convos |-> {a}, runs |-> 2], [convos |-> {a, b}, runs |-> 1]}
=============================================================================
