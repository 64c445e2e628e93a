----------------------------- MODULE MCRegistry -----------------------------
(* The instances of Registry that TLC checks.                              *)
EXTENDS Registry

\* A key on the top level, a key below it, and one below that.
KeyChain == {<< >>, <<"a">>, <<"a", "b">>, <<"a", "b", "c">>}

\* Two keys of which one is below the other.
KeyPair == {<< >>, <<"a">>, <<"a", "b">>}
=============================================================================
