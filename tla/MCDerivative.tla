------------------------------ MODULE MCDerivative ------------------------------
(***************************************************************************)
(* Derivative with two workers and two small texts: one of two sections    *)
(* with a blank line, cut at line ends, and one cut in the middle.         *)
(***************************************************************************)
EXTENDS Derivative

CONSTANTS w1, w2

MCLayouts ==
  {[len |-> 9, title |-> 2, headings |-> {0, 5}, breaks |-> {2, 4, 5, 7, 9},
    blanks |-> {4}, target |-> 4, overlap |-> 1],
   [len |-> 6, title |-> 1, headings |-> {0}, breaks |-> {1},
    blanks |-> {}, target |-> 3, overlap |-> 2]}
================================================================================
