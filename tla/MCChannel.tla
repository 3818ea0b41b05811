----------------------------- MODULE MCChannel ------------------------------
(* A public channel that may fail again while it reconnects, and a private *)
(* one that may also fail to authenticate.                                 *)
EXTENDS Channel

FewFaults == [public |-> 3, private |-> 1]
FewPings == [public |-> 0, private |-> 1]
=============================================================================
