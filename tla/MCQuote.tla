------------------------------ MODULE MCQuote -------------------------------
(* Model values for Quote: two messages of the same moment among four. *)
EXTENDS Quote

FourMsgs ==
    {[seq |-> 1, exec |-> 1, id |-> 1], [seq |-> 2, exec |-> 2, id |-> 2],
     [seq |-> 2, exec |-> 2, id |-> 3], [seq |-> 3, exec |-> 2, id |-> 4]}
=============================================================================
