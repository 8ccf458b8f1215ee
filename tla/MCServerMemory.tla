--------------------------- MODULE MCServerMemory ---------------------------
(* Server 0 of three with two threads.  Its store holds two vertices of two *)
(* words exactly; a buffer holds two vertices and a query may read three,   *)
(* into the next buffer or, from the last one, over the counter.  No fill   *)
(* or one, from profiles with a tie and with a vertex never read.           *)
EXTENDS ServerMemory

MCRemote == {<<1, 0>>, <<1, 1>>, <<2, 0>>}
Profile(a, b, c) == [v \in Vertices |-> CASE v = <<1, 0>> -> a [] v = <<1, 1>> -> b
                                          [] v = <<2, 0>> -> c [] OTHER -> 1]
MCCounts == {Profile(1, 3, 1), Profile(0, 0, 2), Profile(2, 1, 3)}
=============================================================================
