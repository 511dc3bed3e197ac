------------------------------ MODULE MCBakery ------------------------------
(* Instances of Bakery for TLC.  Chefs are interchangeable. *)
EXTENDS Bakery, TLC

ChefSymmetry == Permutations(Chefs)
=============================================================================
