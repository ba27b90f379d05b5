---------------------------- MODULE MCBatchCheck ----------------------------
(* A small instance of BatchCheck: a tenant whose name continues another's, *)
(* a key that contains the separator, and one key in two spellings.         *)
EXTENDS BatchCheck

Letters == {"a", "A", "b", ":"}
Names   == {<<"a">>, <<"b">>, <<"a", ":", "a">>}
Words   == {<<"a">>, <<"A">>, <<"a", ":", "a">>}

CaseFold == [s \in Names \cup Words |-> IF s = <<"A">> THEN <<"a">> ELSE s]
=============================================================================
