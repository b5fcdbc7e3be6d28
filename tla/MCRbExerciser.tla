----------------------------- MODULE MCRbExerciser -----------------------------
(***************************************************************************)
(* RbExerciser for TLC on its own: with two readers, of whom two nodes an  *)
(* array are enough for one to find the other's in the tree, and with one  *)
(* reader and six nodes, the fewest with which a red-black tree has a node *)
(* of the fourth level behind a place without a parent.                    *)
(***************************************************************************)
EXTENDS RbExerciser
===============================================================================
