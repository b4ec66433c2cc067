------------------------ MODULE MCPythonInterpreter ------------------------
(* Instances of PythonInterpreter for TLC. *)
EXTENDS PythonInterpreter, TLC

Symmetry == Permutations(Threads)
=============================================================================
