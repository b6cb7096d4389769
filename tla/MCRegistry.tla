----------------------------- MODULE MCRegistry -----------------------------
(* Two processes, so that two signers of one name, two accounts of one name,  *)
(* or one of either are created at once.                                    *)
EXTENDS Registry

MCSignerList == { <<"alice">>, <<"alice", "bob">>, <<"alice", "alice">> }

MCFounding == <<"alice">>

ProcessSymmetry == Permutations(Command)
=============================================================================
