------------------------------- MODULE MCBsp --------------------------------
EXTENDS Bsp

(* Node 2 sends to node 1 and node 1 to node 0: what node 1 reports of the
   message it got may reach node 0 before what node 2 reports of it.  *)
Links == {<<2, 1>>, <<1, 0>>}

(* Node 1 passes on to node 2 what it gets from node 0. *)
Relay == {<<0, 1>>, <<1, 2>>}
=============================================================================
