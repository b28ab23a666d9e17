----------------------------- MODULE MCPageClient -----------------------------
EXTENDS PageClient

(* Two even sizes that differ in shape, and an odd one. *)
TestFrames == {[id |-> 1, width |-> 2, height |-> 4],
               [id |-> 2, width |-> 6, height |-> 2],
               [id |-> 3, width |-> 3, height |-> 5]}
=============================================================================
