------------------------ MODULE MCSimulatedExchange ------------------------
(* Orders are interchangeable: the book keeps the order of their arrival. *)
EXTENDS SimulatedExchange, TLC

Symmetry == Permutations(Orders)
=============================================================================
