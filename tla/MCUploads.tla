----------------------------- MODULE MCUploads ------------------------------
(***************************************************************************)
(* One upload whose length is declared after it was created, for a key that *)
(* has another object, with two callbacks that a restarted process may have *)
(* in the other order.                                                      *)
(***************************************************************************)
EXTENDS Uploads

MCCallbacks == {<<"first", "second">>, <<"second", "first">>}

\* The requests are interchangeable while none is there: the next one to come is always the same.
First == CHOOSE r \in Requests : TRUE
FirstComesFirst == phase[First] = "idle" => \A r \in Requests \ {First} : phase[r] = "idle" => phase'[r] = "idle"

MCInit == UploadInit /\ ~sized /\ obj = "other" /\ registered = <<"first", "second">>
MCSpec == MCInit /\ [][UploadNext /\ FirstComesFirst]_uploadVars /\ UploadFair
=============================================================================
