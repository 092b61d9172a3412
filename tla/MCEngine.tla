------------------------------ MODULE MCEngine ------------------------------
(* Constants of the runs of Engine: a value x, a sensor s, a formula f over  *)
(* both and a formula g over f and x.                                        *)
EXTENDS Engine

CONSTANTS x, s, f, g

MCKind == [c \in {x, s, f, g} |->
             IF c = x THEN "value" ELSE IF c = s THEN "sensor" ELSE "formula"]
MCNone == [c \in {x, s, f, g} |-> {}]
MCDeclared == [MCNone EXCEPT ![g] = {f, x}]
MCMentioned == [MCNone EXCEPT ![f] = {x, s}, ![g] = {f, x}]
MCSheets == {{x, s, f, g}}
MCTwoSheets == {{x, s, f, g}, {x, s, f}}
MCWildcard == {[all |-> TRUE, cell |-> x]}
MCOneCell == {[all |-> FALSE, cell |-> x]}
=============================================================================
