----------------------------- MODULE MCRequests -----------------------------
(* Model-checking texts for Requests. *)
EXTENDS Requests

AllStrokes ==
  {<<"P", "R", "O", "C", " ">>, <<"P", "r", "o", "c", " ">>, <<"d", "a", "t", "a", " ">>,
   <<"D", "A", "T", "A", "=">>, <<"R", "U", "N", ";">>, <<"L", "E">>, <<"T">>, <<"S", "e">>,
   <<"%">>, <<" ">>, <<";">>, <<"\n">>, <<"(">>, <<"e acute">>}
=============================================================================
