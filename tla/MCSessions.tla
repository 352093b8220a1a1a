----------------------------- MODULE MCSessions -----------------------------
(***************************************************************************)
(* Sessions for TLC: packets of one pair of addresses, in both directions. *)
(***************************************************************************)
EXTENDS Sessions

MCFlows == {<<"a", "b">>, <<"b", "a">>}
MCOneFlow == {<<"a", "b">>}

============================================================================
