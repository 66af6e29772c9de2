--------------------------- MODULE MCProgramTables ---------------------------
(* A bounded instance of ProgramTables for TLC. *)
EXTENDS ProgramTables

MCPats == {<<32, 33>>, <<32, NoPid>>, <<32, 32>>}
MCPmts == {[es |-> {64}, ca |-> {65}], [es |-> {64, 65}, ca |-> {}]}
MCCats == {{65}, {64, 65}}
MCServices == {{1}, {1, 2}}
MCSelections == {{}, {1}, {1, 2}}
=============================================================================
