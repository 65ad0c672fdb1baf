--------------------------------- MODULE Texts ---------------------------------
(***************************************************************************)
(* The texts of a document that mean something: everything else an         *)
(* attribute may hold cannot be read as what is asked for.                 *)
(***************************************************************************)
CONSTANTS Time,      \* a number with a unit of time
          Watt,      \* a number with a unit of power
          VcdFile    \* a file name that ends in .vcd

=============================================================================
