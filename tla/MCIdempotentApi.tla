--------------------------- MODULE MCIdempotentApi ---------------------------
(* Instances of IdempotentApi for TLC.  Requests are named in the order they *)
(* come in, which loses nothing: their names mean nothing to the program.    *)
(* A request without a key touches nothing that another reads, so that one   *)
(* of them is enough, which meets the others only in the threads they leave. *)
(* A probe that nobody waits behind changes nothing.                         *)
EXTENDS IdempotentApi
CONSTANTS r1, r2, r3, k1
MCRequests == {r1, r2, r3}
NamedInOrder == (pc[r2] # "new" => pc[r1] # "new") /\ (pc[r3] # "new" => pc[r2] # "new")
KeylessApart ==
  keyOf[r2] = NoKey =>
    /\ pc[r2] # "new" => pc[r1] = "answered"
    /\ pc[r3] # "new" => pc[r2] = "answered"
SomeoneWaits == loop = "blocked" => \E r \in Requests : Open(r)
MCInit == Init /\ keyOf[r1] = k1 /\ keyOf[r3] = k1
MCSpec == MCInit /\ [][Next /\ (NamedInOrder /\ KeylessApart /\ SomeoneWaits)']_vars
MCLiveSpec == MCSpec /\ FairLoop
=============================================================================
