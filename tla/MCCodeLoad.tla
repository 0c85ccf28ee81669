------------------------------ MODULE MCCodeLoad ------------------------------
(* Code objects small enough for TLC.                                      *)
EXTENDS CodeLoadProps

MCPieces == {[size |-> 1, align |-> 1], [size |-> 3, align |-> 4]}

\* All kinds of an agent's, and one of a program's, which does not pass for code.
MCDataSections == {<<"rodata", "global_agent">>, <<"data", "global_agent">>,
                   <<"bss", "global_agent">>, <<"data", "global_program">>}

=============================================================================
