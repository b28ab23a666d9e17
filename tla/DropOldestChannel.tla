--------------------------- MODULE DropOldestChannel ---------------------------
(***************************************************************************)
(* What a proxy session promises of the packets it is given: a FIFO that   *)
(* may lose packets, but only eldest ones, and only when more than         *)
(* Capacity of them wait behind the packet that is being written.          *)
(*                                                                         *)
(*   in   the packets accepted, in the order in which they were accepted   *)
(*   out  the packets handed to the socket, in the order of the writes     *)
(*   at   the position in `in' of the newest packet of `out'               *)
(***************************************************************************)
EXTENDS Naturals, Sequences

CONSTANTS Packet,     (* what is sent                                      *)
          Capacity    (* how many packets may wait behind the current one  *)

VARIABLES in, out, at

vars == <<in, out, at>>

Init == /\ in = <<>>
        /\ out = <<>>
        /\ at = 0

(* A packet is accepted while another is being written: it waits. *)
Put(p) == /\ in' = Append(in, p)
          /\ UNCHANGED <<out, at>>

(* A packet is accepted while nothing waits: it is written at once. *)
PutAndWrite(p) == /\ at = Len(in)
                  /\ in' = Append(in, p)
                  /\ out' = Append(out, p)
                  /\ at' = Len(in')

(***************************************************************************)
(* The next packet is written: the one after the previous one, unless more *)
(* than Capacity wait; then the eldest of the Capacity newest.             *)
(***************************************************************************)
Write == \E i \in at + 1 .. Len(in) :
            /\ Len(in) - i < Capacity
            /\ i = at + 1 \/ Len(in) - i = Capacity - 1
            /\ at' = i
            /\ out' = Append(out, in[i])
            /\ UNCHANGED in

Next == \/ \E p \in Packet : Put(p) \/ PutAndWrite(p)
        \/ Write

Spec == Init /\ [][Next]_vars

-----------------------------------------------------------------------------
(***************************************************************************)
(* `out' is `in' with some packets left out: nothing is written twice, out *)
(* of order, or without having been accepted.                              *)
(***************************************************************************)
IsSubsequence(s, t) ==
    \E f \in [1 .. Len(s) -> 1 .. Len(t)] :
        /\ \A i, j \in 1 .. Len(s) : i < j => f[i] < f[j]
        /\ \A i \in 1 .. Len(s) : s[i] = t[f[i]]

TypeOK == /\ in \in Seq(Packet)
          /\ out \in Seq(Packet)
          /\ at \in 0 .. Len(in)

OutIsSubsequence == IsSubsequence(out, in)
=============================================================================
