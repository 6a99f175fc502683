----------------------------- MODULE MCIniFast -----------------------------
(***************************************************************************)
(* Names that are empty, that differ in case only, and of which one begins *)
(* another; up to four sections of them, in every order.                   *)
(***************************************************************************)
EXTENDS IniFast

MCRank == [c \in Chars |-> IF c \in {"a", "A"} THEN 1 ELSE 2]
MCNames == {<<>>, <<"a">>, <<"A">>, <<"a", "b">>, <<"b">>}
MCQueries == {<<>>, <<"A">>, <<"a", "b">>, <<"b">>, <<"b", "a">>}
=============================================================================
