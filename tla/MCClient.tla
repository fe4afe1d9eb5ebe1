------------------------------ MODULE MCClient ------------------------------
(* Client with the kinds of line that its code tells apart; what get_code      *)
(* returns of a line that is no command brings in the commands not listed.     *)
EXTENDS Client

CONSTANTS w1, w2

MCWords == {w1, w2}
Line(op, words) == [op |-> op, args |-> words]

MCCommands == {Line("table_print", <<>>), Line("put", <<w1, w2>>), Line("getkeys", <<>>),
               Line(Unknown, <<w1>>), Line(Blank, <<>>)}

=============================================================================
