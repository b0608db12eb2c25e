------------------------------- MODULE MCPages -------------------------------
(* Pages that write before and after a call, that have a second statement  *)
(* in a block, and that call and then try to write in a GET.               *)
EXTENDS Pages

W == <<"write">>
C == <<"call">>

MCJob == {[method |-> "POST", blocks |-> <<W, C, W>>],
          [method |-> "POST", blocks |-> <<<<"read", "write">>, W>>],
          [method |-> "GET",  blocks |-> <<C, W>>]}
=============================================================================
