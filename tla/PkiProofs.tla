----------------------------- MODULE PkiProofs -----------------------------
(***************************************************************************)
(* Theorems about Pki, for any number of calls of Ensure, each killed      *)
(* anywhere, any node names, and deletions between the calls that take a   *)
(* certificate together with its key, and the CA with all that it signed.  *)
(***************************************************************************)
EXTENDS Pki, TLAPS

Active == {"check", "openCrt", "fillCrt", "openKey", "fillKey", "jwk", "fillJwk"}
Writing == {"openCrt", "fillCrt", "openKey", "fillKey"}

\* A key is written after its certificate: it never stands alone.
KeyAfterCrt == \A p \in Pairs : Exists(p, "key") => Exists(p, "crt")

\* The CA's two files belong together.
CaSound == Whole("ca") => Matched("ca")

\* What there is of a leaf was signed by the CA that is there.
LeafSound(p) == /\ Exists(p, "crt") => Whole("ca")
                /\ disk[p]["crt"].st = "whole" => disk[p]["crt"].by = disk["ca"]["crt"].key
                /\ Whole(p) => Matched(p)
LeavesSound == \A p \in Leaves : LeafSound(p)

\* The pair that is being written has no whole key yet, and what is written of it
\* is what was generated.
WritingSound ==
    /\ pc \in {"openCrt", "fillCrt", "openKey"} => ~Exists(pair, "key")
    /\ pc \in {"openKey", "fillKey"} => disk[pair]["crt"] = [st |-> "whole", key |-> fresh, by |-> ca.key]
    /\ pc = "fillKey" => disk[pair]["key"] = Torn
    /\ pc \in Writing => ca.cert = ca.key /\ (pair = "ca" => ca.key = fresh)
    /\ pc = "fillJwk" => jws.st = "torn"

\* The CA in hand is the one on disk once its turn is over, and the pairs come in
\* their order.
Past == (pc \in Active /\ pair # "ca") \/ pc = "ok"
Order ==
    /\ Past => Whole("ca") /\ ca.key = disk["ca"]["crt"].key
    /\ pc \in Active /\ pair = "client" => Both("server")
    /\ pc \in {"jwk", "fillJwk", "ok"} => pair = "client" /\ \A p \in Pairs : Both(p)
    /\ pc = "ok" => jws.st # "absent"

PkiInv == /\ TypeOK /\ KeyAfterCrt /\ CaSound /\ LeavesSound
          /\ WritingSound /\ Order

-----------------------------------------------------------------------------
LEMMA PkiInit == Init => PkiInv
<1> SUFFICES ASSUME Init PROVE PkiInv
  OBVIOUS
<1> USE DEF Init, Absent
<1>1. TypeOK
  BY PkiAssumption DEF TypeOK, Pairs, Leaves, Parts, Content, Idle
<1>2. \A p \in Pairs, f \in Parts : disk[p][f] = Absent
  OBVIOUS
<1>3. \A p \in Pairs : ~Exists(p, "crt") /\ ~Exists(p, "key") /\ ~Whole(p)
  BY <1>2 DEF Exists, Whole, Parts
<1>4. KeyAfterCrt /\ CaSound
  BY <1>3 DEF KeyAfterCrt, CaSound, Pairs
<1>5. LeavesSound
  BY <1>2, <1>3 DEF LeavesSound, LeafSound, Pairs, Parts
<1>6. WritingSound /\ Order
  BY DEF WritingSound, Order, Past, Active, Writing
<1> QED
  BY <1>1, <1>4, <1>5, <1>6 DEF PkiInv

\* os.WriteFile touches one file.
LEMMA Written ==
    ASSUME TypeOK, NEW g \in Parts, NEW c \in Content,
           disk' = [disk EXCEPT ![pair][g] = c]
    PROVE  /\ disk' \in [Pairs -> [Parts -> Content]]
           /\ disk'[pair][g] = c
           /\ \A p \in Pairs, f \in Parts : p # pair \/ f # g => disk'[p][f] = disk[p][f]
<1>1. disk' = [disk EXCEPT ![pair] = [disk[pair] EXCEPT ![g] = c]]
  OBVIOUS
<1>2. disk \in [Pairs -> [Parts -> Content]] /\ pair \in Pairs
  BY DEF TypeOK
<1>3. [disk[pair] EXCEPT ![g] = c] \in [Parts -> Content]
  BY <1>2
<1> QED
  BY <1>1, <1>2, <1>3

\* What is written is content.
LEMMA Contents ==
    /\ Absent \in Content /\ Torn \in Content
    /\ \A k, b \in Nat : [st |-> "whole", key |-> k, by |-> b] \in Content
BY DEF Absent, Torn, Content

-----------------------------------------------------------------------------
(* The calls and what happens between them.                                *)

LEMMA StartKeeps == ASSUME PkiInv, NEW n \in NodeNames, Start(n) PROVE PkiInv'
<1> USE DEF PkiInv, Start
<1>1. TypeOK'
  BY DEF TypeOK, Idle, Pairs
<1>2. KeyAfterCrt' /\ CaSound' /\ LeavesSound'
  BY DEF KeyAfterCrt, CaSound, LeavesSound, LeafSound, Exists, Whole, Matched
<1>3. WritingSound' /\ Order'
  BY DEF WritingSound, Writing, Order, Past, Active
<1> QED
  BY <1>1, <1>2, <1>3

LEMMA FailsKeeps == ASSUME PkiInv, Fails PROVE PkiInv'
<1> USE DEF PkiInv, Fails
<1>1. TypeOK'
  BY DEF TypeOK, Idle
<1>2. KeyAfterCrt' /\ CaSound' /\ LeavesSound'
  BY DEF KeyAfterCrt, CaSound, LeavesSound, LeafSound, Exists, Whole, Matched
<1>3. WritingSound' /\ Order'
  BY DEF WritingSound, Writing, Order, Past, Active
<1> QED
  BY <1>1, <1>2, <1>3

\* What is deleted is deleted in pairs, and the CA not alone.
LEMMA RemoveKeeps == ASSUME PkiInv, NEW group \in Removable, Remove(group) PROVE PkiInv'
<1>1. \A p \in Pairs, f \in Parts :
         disk'[p][f] = IF <<p, f>> \in group THEN Absent ELSE disk[p][f]
  BY DEF Remove
<1>2. \A p \in Pairs : \/ \A f \in Parts : disk'[p][f] = Absent
                       \/ \A f \in Parts : disk'[p][f] = disk[p][f]
  BY <1>1, OperatorAssumption
<1>3. \/ \A f \in Parts : disk'["ca"][f] = disk["ca"][f]
      \/ \A p \in Pairs, f \in Parts : disk'[p][f] = Absent
  BY <1>1, OperatorAssumption DEF Pairs
<1>4. pc' = "idle" /\ UNCHANGED <<runs, node, pair, ca, fresh>>
  BY DEF Remove
<1>5. TypeOK'
  <2>1. disk' \in [Pairs -> [Parts -> Content]]
    BY Contents DEF PkiInv, TypeOK, Remove
  <2>2. jws' \in [st : {"absent", "torn", "whole"}, kid : NodeNames \cup {NoName, DefaultName}]
    BY DEF PkiInv, TypeOK, Remove
  <2> QED
    BY <1>4, <2>1, <2>2 DEF PkiInv, TypeOK, Idle
<1>6. KeyAfterCrt'
  BY <1>2 DEF PkiInv, KeyAfterCrt, Exists, Parts, Absent
<1>7. CaSound'
  BY <1>2 DEF PkiInv, CaSound, Whole, Matched, Parts, Pairs, Absent
<1>8. LeavesSound'
  <2> SUFFICES ASSUME NEW p \in Leaves PROVE LeafSound(p)'
    BY DEF LeavesSound
  <2>1. CASE \A f \in Parts : disk'[p][f] = Absent
    BY <2>1 DEF LeafSound, Exists, Whole, Parts, Absent
  <2>2. CASE (\A f \in Parts : disk'[p][f] = disk[p][f]) /\ (\A f \in Parts : disk'["ca"][f] = disk["ca"][f])
    BY <2>2 DEF PkiInv, LeavesSound, LeafSound, Exists, Whole, Matched, Parts
  <2> QED
    BY <1>2, <1>3, <2>1, <2>2 DEF Pairs
<1>9. WritingSound' /\ Order'
  BY <1>4 DEF WritingSound, Writing, Order, Past, Active
<1> QED
  BY <1>5, <1>6, <1>7, <1>8, <1>9 DEF PkiInv

-----------------------------------------------------------------------------
(* Ensure.                                                                 *)

\* The steps that leave the certificates and keys alone.
Reading == LoadCA \/ LoadCAFails \/ KeepLeaf \/ Generate \/ KeepJWK \/ OpenJWK \/ FillJWK

LEMMA ReadingKeeps == ASSUME PkiInv, Reading PROVE PkiInv'
<1> USE DEF PkiInv
<1>1. disk' = disk
  BY DEF Reading, LoadCA, LoadCAFails, KeepLeaf, Generate, KeepJWK, OpenJWK, FillJWK
<1>2. KeyAfterCrt' /\ CaSound' /\ LeavesSound'
  BY <1>1 DEF KeyAfterCrt, CaSound, LeavesSound, LeafSound, Exists, Whole, Matched
<1>3. TypeOK'
  <2>1. CASE LoadCA
    BY <2>1 DEF LoadCA, Advance, NextOf, TypeOK, Content, Pairs, Leaves, Parts
  <2>2. CASE LoadCAFails \/ KeepLeaf
    BY <2>2 DEF LoadCAFails, KeepLeaf, Advance, NextOf, TypeOK, Pairs, Leaves, Idle
  <2>3. CASE Generate
    BY <2>3 DEF Generate, TypeOK
  <2>4. CASE KeepJWK \/ OpenJWK \/ FillJWK
    BY <2>4 DEF KeepJWK, OpenJWK, FillJWK, TypeOK, Idle
  <2> QED
    BY <2>1, <2>2, <2>3, <2>4 DEF Reading
<1>4. WritingSound'
  <2>1. CASE Generate
    BY <2>1 DEF Generate, WritingSound, Writing, KeyAfterCrt, Both, Exists, TypeOK, Leaves, Pairs
  <2>2. CASE LoadCA \/ LoadCAFails \/ KeepLeaf
    BY <2>2 DEF LoadCA, LoadCAFails, KeepLeaf, Advance, WritingSound, Writing
  <2>3. CASE KeepJWK \/ OpenJWK \/ FillJWK
    BY <2>3 DEF KeepJWK, OpenJWK, FillJWK, WritingSound, Writing, TypeOK
  <2> QED
    BY <2>1, <2>2, <2>3 DEF Reading
<1>5. Order'
  <2>1. CASE LoadCA
    BY <2>1 DEF LoadCA, Advance, NextOf, Order, Past, Active, Both, Exists, Whole, CaSound, Matched
  <2>2. CASE LoadCAFails
    BY <2>2 DEF LoadCAFails, Order, Past, Active
  <2>3. CASE KeepLeaf
    <3>1. Whole("ca")' /\ ca'.key = disk'["ca"]["crt"].key
      BY <1>1, <2>3 DEF KeepLeaf, Order, Past, Active, Leaves, Whole
    <3>2. pair = "server" => pc' = "check" /\ pair' = "client" /\ Both("server")'
      BY <1>1, <2>3 DEF KeepLeaf, Advance, NextOf, Both, Exists
    <3>3. pair = "client" => pc' = "jwk" /\ pair' = "client" /\ \A p \in Leaves : Both(p)'
      BY <1>1, <2>3 DEF KeepLeaf, Advance, Order, Active, Both, Exists, Leaves
    <3>4. Both("ca")'
      BY <3>1 DEF Both, Exists, Whole, Parts
    <3> QED
      BY <2>3, <3>1, <3>2, <3>3, <3>4 DEF KeepLeaf, Order, Past, Active, Leaves, Pairs
  <2>4. CASE Generate
    BY <1>1, <2>4 DEF Generate, Order, Past, Active, Both, Exists, Whole
  <2>5. CASE KeepJWK \/ OpenJWK \/ FillJWK
    BY <1>1, <2>5 DEF KeepJWK, OpenJWK, FillJWK, Order, Past, Active, Both, Exists, Whole, TypeOK
  <2> QED
    BY <2>1, <2>2, <2>3, <2>4, <2>5 DEF Reading
<1> QED
  BY <1>2, <1>3, <1>4, <1>5

LEMMA OpenCrtKeeps == ASSUME PkiInv, OpenCrt PROVE PkiInv'
<1>1. /\ pc = "openCrt" /\ pc' = "fillCrt"
      /\ UNCHANGED <<jws, runs, node, pair, ca, fresh>>
      /\ disk' \in [Pairs -> [Parts -> Content]]
      /\ disk'[pair]["crt"] = Torn
      /\ \A p \in Pairs, f \in Parts : p # pair \/ f # "crt" => disk'[p][f] = disk[p][f]
  BY Written, Contents DEF PkiInv, OpenCrt, Parts
<1>2. ~Exists(pair, "key") /\ pair \in Pairs
  BY <1>1 DEF PkiInv, WritingSound, TypeOK
<1>3. TypeOK'
  BY <1>1 DEF PkiInv, TypeOK
<1>4. KeyAfterCrt'
  BY <1>1 DEF PkiInv, KeyAfterCrt, Exists, Parts, Torn
<1>5. CaSound'
  BY <1>1 DEF PkiInv, CaSound, Whole, Matched, Pairs, Parts, Torn
<1>6. LeavesSound'
  <2> SUFFICES ASSUME NEW p \in Leaves PROVE LeafSound(p)'
    BY DEF LeavesSound
  <2>1. LeafSound(p)
    BY DEF PkiInv, LeavesSound
  <2>2. CASE pair = "ca"
    BY <1>1, <1>2, <2>1, <2>2 DEF LeafSound, Exists, Whole, Matched, Leaves, Pairs, Parts
  <2>3. CASE pair # "ca"
    <3>1. Whole("ca")' /\ disk'["ca"]["crt"] = disk["ca"]["crt"]
      BY <1>1, <2>3 DEF PkiInv, Order, Past, Active, Whole, Pairs, Parts
    <3> QED
      BY <1>1, <2>1, <2>3, <3>1 DEF LeafSound, Exists, Whole, Matched, Leaves, Pairs, Parts, Torn
  <2> QED
    BY <2>2, <2>3
<1>7. WritingSound'
  BY <1>1, <1>2 DEF PkiInv, WritingSound, Writing, Exists, Parts
<1>8. Order'
  BY <1>1, <1>2 DEF PkiInv, Order, Past, Active, Whole, Both, Exists, Pairs, Leaves, Parts
<1> QED
  BY <1>3, <1>4, <1>5, <1>6, <1>7, <1>8 DEF PkiInv

LEMMA FillCrtKeeps == ASSUME PkiInv, FillCrt PROVE PkiInv'
<1>0. [st |-> "whole", key |-> fresh, by |-> ca.key] \in Content
  BY Contents DEF PkiInv, TypeOK
<1>1. /\ pc = "fillCrt" /\ pc' = "openKey"
      /\ UNCHANGED <<jws, runs, node, pair, ca, fresh>>
      /\ disk' \in [Pairs -> [Parts -> Content]]
      /\ disk'[pair]["crt"] = [st |-> "whole", key |-> fresh, by |-> ca.key]
      /\ \A p \in Pairs, f \in Parts : p # pair \/ f # "crt" => disk'[p][f] = disk[p][f]
  BY <1>0, Written DEF PkiInv, FillCrt, Parts
<1>2. ~Exists(pair, "key") /\ pair \in Pairs
  BY <1>1 DEF PkiInv, WritingSound, TypeOK
<1>3. TypeOK'
  BY <1>1 DEF PkiInv, TypeOK
<1>4. KeyAfterCrt'
  BY <1>1 DEF PkiInv, KeyAfterCrt, Exists, Parts
<1>5. CaSound'
  BY <1>1, <1>2 DEF PkiInv, CaSound, Whole, Matched, Exists, Pairs, Parts
<1>6. LeavesSound'
  <2> SUFFICES ASSUME NEW p \in Leaves PROVE LeafSound(p)'
    BY DEF LeavesSound
  <2>1. LeafSound(p)
    BY DEF PkiInv, LeavesSound
  <2>2. CASE pair = "ca"
    BY <1>1, <1>2, <2>1, <2>2 DEF PkiInv, TypeOK, LeafSound, Exists, Whole, Matched, Leaves, Pairs, Parts, Content
  <2>3. CASE pair # "ca"
    <3>1. Whole("ca")' /\ disk'["ca"]["crt"] = disk["ca"]["crt"] /\ ca.key = disk["ca"]["crt"].key
      BY <1>1, <2>3 DEF PkiInv, Order, Past, Active, Whole, Pairs, Parts
    <3> QED
      BY <1>1, <1>2, <2>1, <2>3, <3>1 DEF LeafSound, Exists, Whole, Matched, Leaves, Pairs, Parts
  <2> QED
    BY <2>2, <2>3
<1>7. WritingSound'
  BY <1>1, <1>2 DEF PkiInv, WritingSound, Writing, Exists, Parts
<1>8. Order'
  BY <1>1, <1>2 DEF PkiInv, Order, Past, Active, Whole, Both, Exists, Pairs, Leaves, Parts
<1> QED
  BY <1>3, <1>4, <1>5, <1>6, <1>7, <1>8 DEF PkiInv

LEMMA OpenKeyKeeps == ASSUME PkiInv, OpenKey PROVE PkiInv'
<1>1. /\ pc = "openKey" /\ pc' = "fillKey"
      /\ UNCHANGED <<jws, runs, node, pair, ca, fresh>>
      /\ disk' \in [Pairs -> [Parts -> Content]]
      /\ disk'[pair]["key"] = Torn
      /\ \A p \in Pairs, f \in Parts : p # pair \/ f # "key" => disk'[p][f] = disk[p][f]
  BY Written, Contents DEF PkiInv, OpenKey, Parts
<1>2. pair \in Pairs /\ disk[pair]["crt"] = [st |-> "whole", key |-> fresh, by |-> ca.key]
  BY <1>1 DEF PkiInv, WritingSound, TypeOK
<1>3. TypeOK'
  BY <1>1 DEF PkiInv, TypeOK
<1>4. KeyAfterCrt'
  BY <1>1, <1>2 DEF PkiInv, KeyAfterCrt, Exists, Parts
<1>5. CaSound'
  BY <1>1 DEF PkiInv, CaSound, Whole, Matched, Pairs, Parts, Torn
<1>6. LeavesSound'
  <2> SUFFICES ASSUME NEW p \in Leaves PROVE LeafSound(p)'
    BY DEF LeavesSound
  <2>1. LeafSound(p)
    BY DEF PkiInv, LeavesSound
  <2>2. CASE pair = "ca"
    <3>1. ~Whole("ca")
      BY <1>1, <2>2 DEF PkiInv, WritingSound, Whole, Exists, Parts
    <3> QED
      BY <1>1, <2>1, <2>2, <3>1 DEF PkiInv, TypeOK, LeafSound, Exists, Whole, Matched, Leaves, Pairs, Parts, Content
  <2>3. CASE pair # "ca"
    BY <1>1, <2>1, <2>3 DEF LeafSound, Exists, Whole, Matched, Leaves, Pairs, Parts, Torn
  <2> QED
    BY <2>2, <2>3
<1>7. WritingSound'
  BY <1>1, <1>2 DEF PkiInv, WritingSound, Writing, Exists, Parts
<1>8. Order'
  BY <1>1, <1>2 DEF PkiInv, Order, Past, Active, Whole, Both, Exists, Pairs, Leaves, Parts
<1> QED
  BY <1>3, <1>4, <1>5, <1>6, <1>7, <1>8 DEF PkiInv

LEMMA FillKeyKeeps == ASSUME PkiInv, FillKey PROVE PkiInv'
<1>0. [st |-> "whole", key |-> fresh, by |-> 0] \in Content
  BY Contents DEF PkiInv, TypeOK
<1>1. /\ pc = "fillKey" /\ Advance
      /\ UNCHANGED <<jws, runs, node, ca, fresh>>
      /\ disk' \in [Pairs -> [Parts -> Content]]
      /\ disk'[pair]["key"] = [st |-> "whole", key |-> fresh, by |-> 0]
      /\ \A p \in Pairs, f \in Parts : p # pair \/ f # "key" => disk'[p][f] = disk[p][f]
  BY <1>0, Written DEF PkiInv, FillKey, Parts
<1>2. /\ pair \in Pairs /\ disk[pair]["crt"] = [st |-> "whole", key |-> fresh, by |-> ca.key]
      /\ pair = "ca" => ca.key = fresh
      /\ disk[pair]["key"].st = "torn"
  BY <1>1 DEF PkiInv, WritingSound, Writing, TypeOK, Torn
<1>3. TypeOK'
  BY <1>1 DEF PkiInv, TypeOK, Advance, NextOf, Pairs, Leaves
<1>4. KeyAfterCrt'
  BY <1>1, <1>2 DEF PkiInv, KeyAfterCrt, Exists, Parts
<1>5. CaSound'
  BY <1>1, <1>2 DEF PkiInv, CaSound, Whole, Matched, Pairs, Parts
<1>6. LeavesSound'
  <2> SUFFICES ASSUME NEW p \in Leaves PROVE LeafSound(p)'
    BY DEF LeavesSound
  <2>1. LeafSound(p)
    BY DEF PkiInv, LeavesSound
  <2>2. CASE pair = "ca"
    <3>1. ~Whole("ca")
      BY <1>2, <2>2 DEF Whole, Parts
    <3> QED
      BY <1>1, <2>1, <2>2, <3>1 DEF PkiInv, TypeOK, LeafSound, Exists, Whole, Matched, Leaves, Pairs, Parts, Content
  <2>3. CASE pair # "ca"
    BY <1>1, <1>2, <2>1, <2>3 DEF LeafSound, Exists, Whole, Matched, Leaves, Pairs, Parts
  <2> QED
    BY <2>2, <2>3
<1>7. WritingSound'
  BY <1>1 DEF Advance, WritingSound, Writing
<1>8. Order'
  <2>1. Whole("ca")' /\ ca'.key = disk'["ca"]["crt"].key
    BY <1>1, <1>2 DEF PkiInv, Order, Past, Active, Whole, Pairs, Leaves, Parts
  <2>2. Both("ca")'
    BY <1>1, <1>2, <2>1 DEF Both, Exists, Whole, Parts
  <2>3. pair = "server" => pc' = "check" /\ pair' = "client" /\ Both("server")'
    BY <1>1, <1>2 DEF Advance, NextOf, Both, Exists, Pairs, Parts
  <2>4. pair = "client" => pc' = "jwk" /\ pair' = "client" /\ Both("server")' /\ Both("client")'
    BY <1>1, <1>2 DEF PkiInv, Order, Active, Advance, Both, Exists, Pairs, Leaves, Parts
  <2>5. pair = "ca" => pc' = "check" /\ pair' = "server"
    BY <1>1 DEF Advance, NextOf
  <2> QED
    BY <1>2, <2>1, <2>2, <2>3, <2>4, <2>5 DEF Order, Past, Active, Pairs, Leaves
<1> QED
  BY <1>3, <1>4, <1>5, <1>6, <1>7, <1>8 DEF PkiInv

-----------------------------------------------------------------------------
LEMMA PkiKept == PkiInv /\ [Next]_vars => PkiInv'
<1> SUFFICES ASSUME PkiInv, [Next]_vars PROVE PkiInv'
  OBVIOUS
<1>1. CASE UNCHANGED vars
  BY <1>1 DEF vars, PkiInv, TypeOK, KeyAfterCrt, CaSound, LeavesSound, LeafSound, WritingSound,
              Order, Past, Exists, Both, Whole, Matched
<1>2. CASE EnsureStep
  BY <1>2, ReadingKeeps, OpenCrtKeeps, FillCrtKeeps, OpenKeyKeeps, FillKeyKeeps
     DEF EnsureStep, Reading
<1>3. CASE Fails \/ (\E n \in NodeNames : Start(n)) \/ (\E group \in Removable : Remove(group))
  BY <1>3, FailsKeeps, StartKeeps, RemoveKeeps
<1> QED
  BY <1>1, <1>2, <1>3 DEF Next

LEMMA PkiInvariant == Spec => []PkiInv
BY PkiInit, PkiKept, PTL DEF Spec

\* The variables of Ensure and the files keep their types.
THEOREM TypeCorrect == Spec => []TypeOK
<1>1. PkiInv => TypeOK
  BY DEF PkiInv
<1> QED
  BY <1>1, PkiInvariant, PTL

\* Once Ensure returns without an error no file is missing, the CA is whole, and
\* every leaf that is whole was signed by it: after any number of calls that were
\* killed anywhere.
THEOREM ChainHolds == Spec => []Chained
<1>1. PkiInv => Chained
  <2> SUFFICES ASSUME PkiInv, pc = "ok"
               PROVE  /\ (\A p \in Pairs : Both(p)) /\ jws.st # "absent"
                      /\ Whole("ca") /\ Matched("ca")
                      /\ \A p \in Leaves : Whole(p) =>
                            Matched(p) /\ disk[p]["crt"].by = disk["ca"]["crt"].key
    BY DEF Chained
  <2>1. (\A p \in Pairs : Both(p)) /\ jws.st # "absent"
    BY DEF PkiInv, Order
  <2>2. Whole("ca") /\ Matched("ca")
    BY DEF PkiInv, Order, Past, CaSound
  <2>3. \A p \in Leaves : Whole(p) => Matched(p) /\ disk[p]["crt"].by = disk["ca"]["crt"].key
    BY DEF PkiInv, LeavesSound, LeafSound, Whole, Parts
  <2> QED
    BY <2>1, <2>2, <2>3
<1> QED
  BY <1>1, PkiInvariant, PTL

\* No call ever writes a pair or a JWK that is whole.
THEOREM WholeIsKept == Spec => KeepsWhole
<1>1. PkiInv /\ [Next]_vars =>
        [EnsureStep => /\ \A p \in Pairs : Whole(p) => disk'[p] = disk[p]
                       /\ jws.st = "whole" => jws' = jws]_vars
  <2> SUFFICES ASSUME PkiInv, EnsureStep
               PROVE  /\ \A p \in Pairs : Whole(p) => disk'[p] = disk[p]
                      /\ jws.st = "whole" => jws' = jws
    OBVIOUS
  <2>1. CASE Reading
    BY <2>1 DEF Reading, LoadCA, LoadCAFails, KeepLeaf, Generate, KeepJWK, OpenJWK, FillJWK,
                PkiInv, WritingSound
  <2>2. CASE OpenCrt \/ FillCrt \/ OpenKey \/ FillKey
    <3>1. jws' = jws /\ pc \in Writing /\ pair \in Pairs
      BY <2>2 DEF OpenCrt, FillCrt, OpenKey, FillKey, Writing, PkiInv, TypeOK
    <3>2. ~Whole(pair)
      BY <3>1 DEF PkiInv, WritingSound, Writing, Whole, Exists, Parts, Torn
    <3>3. \A p \in Pairs : p # pair => disk'[p] = disk[p]
      BY <2>2 DEF OpenCrt, FillCrt, OpenKey, FillKey, PkiInv, TypeOK
    <3> QED
      BY <3>1, <3>2, <3>3
  <2> QED
    BY <2>1, <2>2 DEF EnsureStep, Reading
<1> QED
  BY <1>1, PkiInvariant, PTL DEF Spec, KeepsWhole
=============================================================================
