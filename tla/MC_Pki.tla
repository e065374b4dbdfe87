------------------------------- MODULE MC_Pki -------------------------------
(* Pki on small instances: what an operator deletes to have it reissued is  *)
(* a leaf pair, the JWK, or the whole directory.                            *)
EXTENDS Pki

PairFiles(p) == {<<p, "crt">>, <<p, "key">>}
JwsFiles     == {<<"jws", "key">>}
Sensible     == {PairFiles("server"), PairFiles("client"), JwsFiles,
                 (Pairs \X Parts) \cup JwsFiles}
=============================================================================
