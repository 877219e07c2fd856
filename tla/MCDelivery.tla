----------------------------- MODULE MCDelivery -----------------------------
(* Small instances of Delivery for TLC. *)
EXTENDS Delivery

MCFrames == {<< <<"a">>, <<"b", "c">> >>, << <<>>, <<"d">>, <<"e">> >>}
=============================================================================
