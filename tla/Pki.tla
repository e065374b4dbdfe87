-------------------------------- MODULE Pki --------------------------------
(***************************************************************************)
(* internal/pki: Ensure fills the keys directory that the broker and EDM   *)
(* read.  The directory outlives the process, so what matters is what a    *)
(* call finds after one that failed or was killed half way: os.WriteFile   *)
(* creates or truncates the file first and fills it afterwards.  A key     *)
(* pair is a number; a certificate names the pair it certifies and the     *)
(* pair that signed it.                                                    *)
(***************************************************************************)
EXTENDS Integers

CONSTANTS
    NodeNames,    \* values of --mqtt-node-name
    NoName,       \* the empty node name
    Removable,    \* groups of files an operator may delete between two calls
    MaxRuns       \* bound on the calls of Ensure

Leaves == {"server", "client"}
Pairs  == {"ca"} \cup Leaves
Parts  == {"crt", "key"}

ASSUME PkiAssumption ==
    /\ MaxRuns \in Nat
    /\ Removable \subseteq SUBSET ((Pairs \X Parts) \cup {<<"jws", "key">>})

\* Whoever deletes a certificate deletes its key as well, and with the CA all that
\* it signed.
ASSUME OperatorAssumption ==
    \A group \in Removable, p \in Pairs :
        (\E f \in Parts : <<p, f>> \in group) =>
            /\ \A f \in Parts : <<p, f>> \in group
            /\ p = "ca" => \A q \in Leaves, f \in Parts : <<q, f>> \in group

VARIABLES
    disk,     \* the PEM files: [Pairs -> [Parts -> content]]
    jws,      \* jws.key: [st, kid]
    runs,     \* calls of Ensure so far
    node,     \* the node name of the call in progress
    pc,       \* where Ensure is
    pair,     \* the pair it works on
    ca,       \* the CA in hand: the pair its certificate certifies, its key
    fresh     \* the youngest key pair; the one in hand while writing

vars == <<disk, jws, runs, node, pc, pair, ca, fresh>>

Absent  == [st |-> "absent", key |-> 0, by |-> 0]
Torn    == [st |-> "torn",   key |-> 0, by |-> 0]
Content == [st : {"absent", "torn", "whole"}, key : Nat, by : Nat]

DefaultName == "edm-loadgen"

Idle == {"idle", "ok", "failed"}

\* mutant: the client pair is forgotten, the JWK taken for a pair
NextOfForgetsClient(p) == CASE p = "ca" -> "server" [] p = "server" -> "jwk"

NextOf(p) == CASE p = "ca" -> "server" [] p = "server" -> "client"

Init ==
    /\ disk = [p \in Pairs |-> [f \in Parts |-> Absent]]
    /\ jws = [st |-> "absent", kid |-> NoName]
    /\ runs = 0 /\ node = NoName /\ pc = "idle" /\ pair = "ca"
    /\ ca = [cert |-> 0, key |-> 0] /\ fresh = 0

\* exists: os.Stat succeeds, whatever the file holds.
Exists(p, f) == disk[p][f].st # "absent"
Both(p)      == Exists(p, "crt") /\ Exists(p, "key")
Whole(p)     == \A f \in Parts : disk[p][f].st = "whole"

\* The pair is settled: on to the next one, or to the JWK.
Advance ==
    IF pair = "client" THEN pc' = "jwk" /\ UNCHANGED pair
                       ELSE pc' = "check" /\ pair' = NextOf(pair)

-----------------------------------------------------------------------------
(* Mutants, for the properties to catch; no part of Spec.                  *)

\* each file is checked on its own, and one that is there is not written
OpenCrtIfMissing ==
    /\ pc = "openCrt"
    /\ IF Exists(pair, "crt")
         THEN pc' = "openKey" /\ UNCHANGED disk
         ELSE pc' = "fillCrt" /\ disk' = [disk EXCEPT ![pair]["crt"] = Torn]
    /\ UNCHANGED <<jws, runs, node, pair, ca, fresh>>

\* every call issues everything anew
GenerateAlways ==
    /\ pc = "check"
    /\ fresh' = fresh + 1
    /\ ca' = IF pair = "ca" THEN [cert |-> fresh', key |-> fresh'] ELSE ca
    /\ pc' = "openCrt"
    /\ UNCHANGED <<disk, jws, runs, node, pair>>

-----------------------------------------------------------------------------
(* Ensure.                                                                 *)

Start(n) ==
    /\ pc \in Idle /\ runs < MaxRuns
    /\ runs' = runs + 1 /\ node' = n
    /\ pc' = "check" /\ pair' = "ca"
    /\ UNCHANGED <<disk, jws, ca, fresh>>

\* loadOrCreateCA with both files there: loadCertAndKey parses each, and does
\* not compare them.
LoadCA ==
    /\ pc = "check" /\ pair = "ca" /\ Both("ca") /\ Whole("ca")
    /\ ca' = [cert |-> disk["ca"]["crt"].key, key |-> disk["ca"]["key"].key]
    /\ Advance
    /\ UNCHANGED <<disk, jws, runs, node, fresh>>

LoadCAFails ==
    /\ pc = "check" /\ pair = "ca" /\ Both("ca") /\ ~Whole("ca")
    /\ pc' = "failed"
    /\ UNCHANGED <<disk, jws, runs, node, pair, ca, fresh>>

\* ensureLeaf with both files there.
KeepLeaf ==
    /\ pc = "check" /\ pair \in Leaves /\ Both(pair)
    /\ Advance
    /\ UNCHANGED <<disk, jws, runs, node, ca, fresh>>

\* One file or both missing: a new key pair, and a certificate for it, which
\* x509 refuses to sign with a key that is not the CA certificate's.
Generate ==
    /\ pc = "check" /\ ~Both(pair)
    /\ pair \in Leaves => ca.cert = ca.key
    /\ fresh' = fresh + 1
    /\ ca' = IF pair = "ca" THEN [cert |-> fresh', key |-> fresh'] ELSE ca
    /\ pc' = "openCrt"
    /\ UNCHANGED <<disk, jws, runs, node, pair>>

OpenCrt ==
    /\ pc = "openCrt"
    /\ disk' = [disk EXCEPT ![pair]["crt"] = Torn]
    /\ pc' = "fillCrt"
    /\ UNCHANGED <<jws, runs, node, pair, ca, fresh>>

FillCrt ==
    /\ pc = "fillCrt"
    /\ disk' = [disk EXCEPT ![pair]["crt"] =
                  [st |-> "whole", key |-> fresh, by |-> ca.key]]
    /\ pc' = "openKey"
    /\ UNCHANGED <<jws, runs, node, pair, ca, fresh>>

OpenKey ==
    /\ pc = "openKey"
    /\ disk' = [disk EXCEPT ![pair]["key"] = Torn]
    /\ pc' = "fillKey"
    /\ UNCHANGED <<jws, runs, node, pair, ca, fresh>>

FillKey ==
    /\ pc = "fillKey"
    /\ disk' = [disk EXCEPT ![pair]["key"] =
                  [st |-> "whole", key |-> fresh, by |-> 0]]
    /\ Advance
    /\ UNCHANGED <<jws, runs, node, ca, fresh>>

\* ensureJWK; an empty node name was replaced by the default before.
KeepJWK ==
    /\ pc = "jwk" /\ jws.st # "absent"
    /\ pc' = "ok"
    /\ UNCHANGED <<disk, jws, runs, node, pair, ca, fresh>>

OpenJWK ==
    /\ pc = "jwk" /\ jws.st = "absent"
    /\ jws' = [jws EXCEPT !.st = "torn"]
    /\ pc' = "fillJwk"
    /\ UNCHANGED <<disk, runs, node, pair, ca, fresh>>

FillJWK ==
    /\ pc = "fillJwk"
    /\ jws' = [st |-> "whole", kid |-> IF node = NoName THEN DefaultName ELSE node]
    /\ pc' = "ok"
    /\ UNCHANGED <<disk, runs, node, pair, ca, fresh>>

\* An I/O error is returned at once and a crash ends the process; both leave
\* the files as they are.
Fails ==
    /\ pc \notin Idle /\ pc' = "failed"
    /\ UNCHANGED <<disk, jws, runs, node, pair, ca, fresh>>

\* An operator deletes files to have them issued anew.
Remove(group) ==
    /\ pc \in Idle /\ runs < MaxRuns
    /\ disk' = [p \in Pairs |-> [f \in Parts |->
                  IF <<p, f>> \in group THEN Absent ELSE disk[p][f]]]
    /\ jws' = IF <<"jws", "key">> \in group THEN [st |-> "absent", kid |-> NoName] ELSE jws
    /\ pc' = "idle"
    /\ UNCHANGED <<runs, node, pair, ca, fresh>>

EnsureStep ==
    \/ LoadCA \/ LoadCAFails \/ KeepLeaf \/ Generate
    \/ OpenCrt \/ FillCrt \/ OpenKey \/ FillKey
    \/ KeepJWK \/ OpenJWK \/ FillJWK

Next ==
    \/ \E n \in NodeNames : Start(n)
    \/ EnsureStep \/ Fails
    \/ \E group \in Removable : Remove(group)

Spec == Init /\ [][Next]_vars

-----------------------------------------------------------------------------
(* Properties.                                                             *)

TypeOK ==
    /\ disk \in [Pairs -> [Parts -> Content]]
    /\ jws \in [st : {"absent", "torn", "whole"}, kid : NodeNames \cup {NoName, DefaultName}]
    /\ runs \in Nat /\ node \in NodeNames \cup {NoName}
    /\ pc \in Idle \cup {"check", "openCrt", "fillCrt", "openKey", "fillKey",
                         "jwk", "fillJwk"}
    /\ pair \in Pairs /\ ca \in [cert : Nat, key : Nat] /\ fresh \in Nat

\* The certificate of p is about the key beside it.
Matched(p) == disk[p]["crt"].key = disk[p]["key"].key

\* Whatever earlier calls left behind, once Ensure returns without an error no
\* file is missing, the CA on disk is whole, and every leaf whose two files are
\* whole has the key of its certificate and is signed by that CA: EDM can verify
\* the broker.
Chained ==
    pc = "ok" =>
        /\ (\A p \in Pairs : Both(p)) /\ jws.st # "absent"
        /\ Whole("ca") /\ Matched("ca")
        /\ \A p \in Leaves : Whole(p) =>
              Matched(p) /\ disk[p]["crt"].by = disk["ca"]["crt"].key

\* A pair that is whole is never written again, and a JWK that is there never
\* changes, however often Ensure runs (pki_test.go:28-36).
KeepsWhole ==
    [][EnsureStep => /\ \A p \in Pairs : Whole(p) => disk'[p] = disk[p]
                     /\ jws.st = "whole" => jws' = jws]_vars

\* The comment on Ensure: "Missing files are generated; existing files are
\* kept".
KeepsExisting ==
    [][EnsureStep => \A p \in Pairs, f \in Parts :
          disk[p][f].st = "whole" => disk'[p][f] = disk[p][f]]_vars

\* The test of Ensure holds every file it returns to be non-empty.
FilesWhole ==
    pc = "ok" => (\A p \in Pairs : Whole(p)) /\ jws.st = "whole"

\* The comment in startMQTT: "We set the kid to NodeName via pki.Ensure, so the
\* broker matches the same prefix here".
KidIsNodeName == pc = "ok" /\ jws.st = "whole" => jws.kid = node
=============================================================================
