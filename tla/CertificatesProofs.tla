-------------------------- MODULE CertificatesProofs --------------------------
(***************************************************************************)
(* Proofs about Certificates: AnchorsAreReal, IssuedInPairs and            *)
(* ProofsVerify, for every set of trades and executions and any number of  *)
(* trees, attempts and faults.                                             *)
(***************************************************************************)
EXTENDS Certificates, SequenceTheorems, FiniteSetTheorems,
        WellFoundedInduction, TLAPS

\* An execution of anchorMerkleRoot, from the pending row on.
Anchoring == {"send", "confirm", "mark", "announce", "fail"}
AnchorRun == [do : Anchoring, tree : Nat, left : SUBSET Nat, row : Nat]
AnchorRow == [tree : Nat, status : {"pending", "confirmed", "failed"}]
TreeRow(L, R) == [leaves : L, root : R, anchored : BOOLEAN]

TablesOK ==
  /\ \E L, R : trees \in Seq(TreeRow(L, R))
  /\ anchors \in Seq(AnchorRow)
  /\ \A n \in DOMAIN anchors : anchors[n].tree \in DOMAIN trees
  /\ DOMAIN runs = Runner /\ runs = [r \in Runner |-> runs[r]]

RunOK(j) ==
  /\ j.do \in Anchoring =>
       /\ j \in AnchorRun
       /\ j.tree \in DOMAIN trees /\ j.left \subseteq DOMAIN trees
       /\ j.row \in DOMAIN anchors /\ anchors[j.row].tree = j.tree
  /\ j.do = "anchor" => j.left \subseteq DOMAIN trees
  /\ j.do = "index" => j.tree \in DOMAIN trees

TypeOK == TablesOK /\ \A r \in Runner : RunOK(runs[r])

\* Every attempt has a row of its own.
RowsApart ==
  \A q, r \in Runner :
    runs[q].do \in Anchoring /\ runs[r].do \in Anchoring /\ runs[q].row = runs[r].row => q = r

\* The root of a tree is where it is said to be.
Real(k) == simulated \/ trees[k].root \in chain

IsConfirmed(n, k) == anchors[n].tree = k /\ anchors[n].status = "confirmed"

RowsReal ==
  /\ \A n \in DOMAIN anchors : anchors[n].status = "confirmed" => Real(anchors[n].tree)
  /\ \A r \in Runner :
       /\ runs[r].do = "confirm" => Real(runs[r].tree)
       /\ runs[r].do \in {"mark", "announce"} => anchors[runs[r].row].status = "confirmed"

\* The row that an anchored tree owes its mark to: nobody can fail it any
\* more, but who is about to publish the event.
Final(n) == \A r \in Runner : runs[r].do \in Anchoring /\ runs[r].row = n => runs[r].do = "announce"
TreesReal ==
  \A k \in DOMAIN trees : trees[k].anchored =>
    \/ k \in unsaid /\ Real(k)
    \/ \E n \in DOMAIN anchors : IsConfirmed(n, k) /\ Final(n)

IInv == TypeOK /\ RowsApart /\ RowsReal /\ TreesReal

----------------------------------------------------------------------------
(* Small facts.                                                            *)

LEMMA GoFacts ==
  ASSUME IInv, NEW r \in Runner, NEW new, Go(r, new)
  PROVE  /\ DOMAIN runs' = Runner /\ runs' = [q \in Runner |-> runs'[q]]
         /\ runs'[r] = new
         /\ \A q \in Runner : q # r => runs'[q] = runs[q]
<1>1. DOMAIN runs = Runner /\ runs = [q \in Runner |-> runs[q]]
  BY DEF IInv, TypeOK, TablesOK
<1>2. runs' = [runs EXCEPT ![r] = new]
  BY DEF Go
<1>3. runs' = [q \in Runner |-> IF q = r THEN new ELSE runs[q]]
  BY <1>1, <1>2
<1> QED
  BY <1>3

LEMMA StepFacts ==
  ASSUME IInv, NEW r \in Runner, runs[r].do \in Anchoring, NEW do \in Anchoring, Step(r, do)
  PROVE  /\ DOMAIN runs' = Runner /\ runs' = [q \in Runner |-> runs'[q]]
         /\ runs'[r] \in AnchorRun /\ runs'[r].do = do
         /\ runs'[r].tree = runs[r].tree /\ runs'[r].left = runs[r].left
         /\ runs'[r].row = runs[r].row
         /\ \A q \in Runner : q # r => runs'[q] = runs[q]
<1> DEFINE new == [runs[r] EXCEPT !.do = do]
<1>1. runs[r] \in AnchorRun
  BY DEF IInv, TypeOK, RunOK
<1>2. /\ new \in AnchorRun /\ new.do = do
      /\ new.tree = runs[r].tree /\ new.left = runs[r].left /\ new.row = runs[r].row
  BY <1>1 DEF AnchorRun
<1>3. Go(r, new)
  BY DEF Step
<1> HIDE DEF new
<1> QED
  BY <1>2, <1>3, GoFacts

LEMMA AppendFacts ==
  ASSUME NEW S, NEW s \in Seq(S), NEW x \in S
  PROVE  /\ Append(s, x) \in Seq(S)
         /\ Len(s) \in Nat /\ DOMAIN s = 1 .. Len(s)
         /\ DOMAIN Append(s, x) = 1 .. (Len(s) + 1)
         /\ Append(s, x)[Len(s) + 1] = x
         /\ \A n \in DOMAIN s : Append(s, x)[n] = s[n]
  BY AppendProperties, LenProperties

LEMMA WiderSeq ==
  ASSUME NEW S, NEW T, S \subseteq T, NEW s \in Seq(S)
  PROVE  s \in Seq(T)
  OBVIOUS

\* Which execution does what makes no difference to a tree and a row that
\* are no execution's own.
LEMMA RunsMove ==
  ASSUME IInv, NEW r \in Runner, UNCHANGED <<trees, anchors, simulated>>,
         chain \subseteq chain', unsaid \subseteq unsaid',
         DOMAIN runs' = Runner /\ runs' = [q \in Runner |-> runs'[q]],
         \A q \in Runner : q # r => runs'[q] = runs[q],
         RunOK(runs[r])',
         runs'[r].do \in Anchoring =>
           runs[r].do \in Anchoring /\ runs'[r].row = runs[r].row
             /\ runs'[r].tree = runs[r].tree,
         runs'[r].do = "confirm" => Real(runs[r].tree)',
         runs'[r].do \in {"mark", "announce"} => anchors[runs'[r].row].status = "confirmed",
         \/ runs'[r].do \notin Anchoring
         \/ runs[r].do # "announce"
         \/ runs[r].tree \in unsaid'
  PROVE  IInv'
<1>1. \A k \in DOMAIN trees : Real(k) => Real(k)'
  BY DEF Real
<1>2. \A q \in Runner : RunOK(runs[q]) /\ RunOK(runs[q])'
  BY DEF IInv, TypeOK, RunOK
<1>3. TypeOK'
  <2>1. TablesOK'
    BY DEF IInv, TypeOK, TablesOK
  <2>2. \A q \in Runner : RunOK(runs[q])'
    BY <1>2
  <2> QED
    BY <2>1, <2>2 DEF TypeOK
<1>4. RowsApart'
  BY DEF IInv, RowsApart
<1>5. RowsReal'
  <2>1. \A n \in DOMAIN anchors : anchors[n].tree \in DOMAIN trees
    BY DEF IInv, TypeOK, TablesOK
  <2>2. \A n \in DOMAIN anchors : anchors[n].status = "confirmed" => Real(anchors[n].tree)'
    BY <1>1, <2>1 DEF IInv, RowsReal
  <2>3. \A q \in Runner : runs'[q].do = "confirm" => Real(runs[q].tree)'
    BY <1>1, <1>2 DEF IInv, RowsReal, RunOK, Anchoring
  <2>4. \A q \in Runner :
          runs'[q].do \in {"mark", "announce"} => anchors'[runs'[q].row].status = "confirmed"
    BY DEF IInv, RowsReal
  <2> QED
    BY <2>2, <2>3, <2>4 DEF RowsReal
<1>6. TreesReal'
  <2> SUFFICES ASSUME NEW k \in DOMAIN trees, trees[k].anchored,
                      ~(k \in unsaid' /\ Real(k)')
               PROVE  \E n \in DOMAIN anchors : IsConfirmed(n, k) /\ Final(n)'
    BY DEF TreesReal, IsConfirmed
  <2>1. PICK n \in DOMAIN anchors : IsConfirmed(n, k) /\ Final(n)
    BY <1>1 DEF IInv, TreesReal
  <2>2. Real(k)'
    BY <1>1, <2>1 DEF IInv, RowsReal, IsConfirmed
  <2>3. k \notin unsaid'
    BY <2>2
  <2>4. ASSUME runs'[r].do \in Anchoring, runs'[r].row = n PROVE FALSE
    <3>1. runs[r].do = "announce" /\ runs[r].row = n
      BY <2>1, <2>4 DEF Final
    <3>2. runs[r].tree = k
      BY <1>2, <2>1, <3>1 DEF RunOK, Anchoring, IsConfirmed
    <3> QED
      BY <2>3, <2>4, <3>1, <3>2
  <2>5. Final(n)'
    BY <2>1, <2>4 DEF Final
  <2> QED
    BY <2>1, <2>5
<1> QED
  BY <1>3, <1>4, <1>5, <1>6 DEF IInv

\* What is not about to anchor disturbs nothing.
LEMMA QuietKeeps ==
  ASSUME IInv, NEW r \in Runner, NEW new, Go(r, new), new.do \notin Anchoring,
         new.do = "anchor" => new.left \subseteq DOMAIN trees,
         new.do = "index" => new.tree \in DOMAIN trees,
         UNCHANGED <<trees, anchors, chain, simulated>>, unsaid \subseteq unsaid'
  PROVE  IInv'
<1>1. /\ DOMAIN runs' = Runner /\ runs' = [q \in Runner |-> runs'[q]]
      /\ runs'[r] = new
      /\ \A q \in Runner : q # r => runs'[q] = runs[q]
  BY GoFacts
<1>2. RunOK(new)'
  BY DEF RunOK
<1> QED
  BY <1>1, <1>2, RunsMove DEF Anchoring

LEMMA StillKeeps ==
  ASSUME IInv, UNCHANGED <<trees, anchors, chain, runs, unsaid, simulated>>
  PROVE  IInv'
<1>1. TypeOK'
  BY DEF IInv, TypeOK, TablesOK, RunOK
<1>2. RowsApart' /\ RowsReal'
  BY DEF IInv, RowsApart, RowsReal, Real
<1>3. TreesReal'
  BY DEF IInv, TreesReal, Real, IsConfirmed, Final
<1> QED
  BY <1>1, <1>2, <1>3 DEF IInv

----------------------------------------------------------------------------
(* The steps.                                                              *)

LEMMA Initially == CertificatesInit => IInv
<1> SUFFICES ASSUME CertificatesInit PROVE IInv
  OBVIOUS
<1>1. trees = <<>> /\ anchors = <<>> /\ runs = [r \in Runner |-> Resting]
  BY DEF CertificatesInit
<1>2. \A r \in Runner : runs[r].do = "none"
  BY <1>1 DEF Resting
<1>3. DOMAIN trees = {} /\ DOMAIN anchors = {}
  BY <1>1
<1>4. TablesOK
  <2>1. trees \in Seq(TreeRow({}, {})) /\ anchors \in Seq(AnchorRow)
    BY <1>1
  <2> QED
    BY <1>1, <1>3, <2>1 DEF TablesOK
<1>5. TypeOK
  BY <1>2, <1>4 DEF TypeOK, RunOK, Anchoring
<1>6. RowsApart /\ RowsReal /\ TreesReal
  BY <1>2, <1>3 DEF RowsApart, RowsReal, TreesReal, Anchoring
<1> QED
  BY <1>5, <1>6 DEF IInv

LEMMA InsertTreeKeeps ==
  ASSUME IInv, NEW r \in Runner, InsertTree(r)
  PROVE  IInv'
<1> DEFINE x == [leaves |-> runs[r].leaves,
                 root |-> ComputeMerkleRoot(runs[r].leaves), anchored |-> FALSE]
           new == [do |-> "index", tree |-> Len(trees) + 1, row |-> 1,
                   anchor |-> runs[r].anchor]
<1>1. trees' = Append(trees, x) /\ Go(r, new)
      /\ UNCHANGED <<anchors, chain, unsaid, simulated>>
  BY DEF InsertTree, Log, restVars
<1>2. PICK L, R : trees \in Seq(TreeRow(L, R))
  BY DEF IInv, TypeOK, TablesOK
<1>3. x \in TreeRow(L \cup {x.leaves}, R \cup {x.root}) /\ ~x.anchored
  BY DEF TreeRow
<1>4. new.do = "index" /\ new.tree = Len(trees) + 1
  OBVIOUS
<1> HIDE DEF x, new
<1>5. trees \in Seq(TreeRow(L \cup {x.leaves}, R \cup {x.root}))
  <2>1. TreeRow(L, R) \subseteq TreeRow(L \cup {x.leaves}, R \cup {x.root})
    BY DEF TreeRow
  <2> QED
    BY <1>2, <2>1, WiderSeq
<1>6. /\ trees' \in Seq(TreeRow(L \cup {x.leaves}, R \cup {x.root}))
      /\ Len(trees) \in Nat /\ DOMAIN trees = 1 .. Len(trees)
      /\ DOMAIN trees' = 1 .. (Len(trees) + 1)
      /\ trees'[Len(trees) + 1] = x
      /\ \A k \in DOMAIN trees : trees'[k] = trees[k]
  BY <1>1, <1>3, <1>5, AppendFacts
<1>7. DOMAIN trees' = DOMAIN trees \cup {Len(trees) + 1}
  BY <1>6
<1>8. /\ DOMAIN runs' = Runner /\ runs' = [q \in Runner |-> runs'[q]]
      /\ runs'[r] = new
      /\ \A q \in Runner : q # r => runs'[q] = runs[q]
  BY <1>1, GoFacts
<1>9. \A k \in DOMAIN trees : Real(k) => Real(k)'
  BY <1>1, <1>6 DEF Real
<1>10. TypeOK'
  <2>1. TablesOK'
    BY <1>1, <1>6, <1>7, <1>8 DEF IInv, TypeOK, TablesOK
  <2>2. \A q \in Runner : RunOK(runs[q])'
    BY <1>1, <1>4, <1>7, <1>8 DEF IInv, TypeOK, RunOK, Anchoring
  <2> QED
    BY <2>1, <2>2 DEF TypeOK
<1>11. RowsApart'
  BY <1>4, <1>8 DEF IInv, RowsApart, Anchoring
<1>12. RowsReal'
  <2>1. \A n \in DOMAIN anchors : anchors[n].tree \in DOMAIN trees
    BY DEF IInv, TypeOK, TablesOK
  <2>2. \A q \in Runner : runs[q].do = "confirm" => runs[q].tree \in DOMAIN trees
    BY DEF IInv, TypeOK, RunOK, Anchoring
  <2>3. \A n \in DOMAIN anchors : anchors[n].status = "confirmed" => Real(anchors[n].tree)'
    BY <1>1, <1>9, <2>1 DEF IInv, RowsReal
  <2>4. \A q \in Runner : runs'[q].do = "confirm" => Real(runs[q].tree)'
    BY <1>4, <1>8, <1>9, <2>2 DEF IInv, RowsReal
  <2>5. \A q \in Runner :
          runs'[q].do \in {"mark", "announce"} => anchors[runs'[q].row].status = "confirmed"
    BY <1>4, <1>8 DEF IInv, RowsReal
  <2> QED
    BY <1>1, <2>3, <2>4, <2>5 DEF RowsReal
<1>13. TreesReal'
  <2> SUFFICES ASSUME NEW k \in DOMAIN trees', trees'[k].anchored
               PROVE  \/ k \in unsaid /\ Real(k)'
                      \/ \E n \in DOMAIN anchors : IsConfirmed(n, k) /\ Final(n)'
    BY <1>1 DEF TreesReal, IsConfirmed
  <2>1. k \in DOMAIN trees /\ trees[k].anchored
    BY <1>3, <1>6, <1>7
  <2>2. CASE k \in unsaid /\ Real(k)
    BY <1>9, <2>1, <2>2
  <2>3. CASE \E n \in DOMAIN anchors : IsConfirmed(n, k) /\ Final(n)
    <3>1. PICK n \in DOMAIN anchors : IsConfirmed(n, k) /\ Final(n)
      BY <2>3
    <3>2. Final(n)'
      BY <1>4, <1>8, <3>1 DEF Final, Anchoring
    <3> QED
      BY <3>1, <3>2
  <2> QED
    BY <2>1, <2>2, <2>3 DEF IInv, TreesReal
<1> QED
  BY <1>10, <1>11, <1>12, <1>13 DEF IInv

LEMMA InsertAnchorKeeps ==
  ASSUME IInv, NEW r \in Runner, InsertAnchor(r)
  PROVE  IInv'
<1>1. PICK k \in runs[r].left :
        /\ Log(anchors, [tree |-> k, status |-> "pending"])
        /\ Go(r, [do |-> "send", tree |-> k, left |-> runs[r].left \ {k},
                  row |-> Len(anchors) + 1])
  BY DEF InsertAnchor
<1> DEFINE x == [tree |-> k, status |-> "pending"]
           new == [do |-> "send", tree |-> k, left |-> runs[r].left \ {k},
                   row |-> Len(anchors) + 1]
<1>2. runs[r].left \subseteq DOMAIN trees /\ anchors \in Seq(AnchorRow)
  BY DEF InsertAnchor, IInv, TypeOK, RunOK, TablesOK
<1>3. DOMAIN trees \subseteq Nat
  <2>1. PICK L, R : trees \in Seq(TreeRow(L, R))
    BY DEF IInv, TypeOK, TablesOK
  <2> QED
    BY <2>1
<1>4. x \in AnchorRow /\ x.tree = k /\ x.status = "pending"
  BY <1>2, <1>3 DEF AnchorRow
<1>5. anchors' = Append(anchors, x) /\ UNCHANGED <<trees, chain, unsaid, simulated>>
  BY <1>1 DEF Log, InsertAnchor, restVars
<1>6. /\ anchors' \in Seq(AnchorRow)
      /\ Len(anchors) \in Nat /\ DOMAIN anchors = 1 .. Len(anchors)
      /\ DOMAIN anchors' = 1 .. (Len(anchors) + 1)
      /\ anchors'[Len(anchors) + 1] = x
      /\ \A n \in DOMAIN anchors : anchors'[n] = anchors[n]
  BY <1>2, <1>4, <1>5, AppendFacts
<1>7. DOMAIN anchors' = DOMAIN anchors \cup {Len(anchors) + 1}
      /\ Len(anchors) + 1 \notin DOMAIN anchors
  BY <1>6
<1>8. /\ new \in AnchorRun /\ new.do = "send" /\ new.tree = k
      /\ new.left \subseteq DOMAIN trees /\ new.row = Len(anchors) + 1
  BY <1>2, <1>3, <1>6 DEF AnchorRun, Anchoring
<1>9. Go(r, new)
  BY <1>1
<1> HIDE DEF x, new
<1>10. /\ DOMAIN runs' = Runner /\ runs' = [q \in Runner |-> runs'[q]]
       /\ runs'[r] = new
       /\ \A q \in Runner : q # r => runs'[q] = runs[q]
  BY <1>9, GoFacts
<1>11. \A n : Real(n)' <=> Real(n)
  BY <1>5 DEF Real
<1>12. TypeOK'
  <2>1. TablesOK'
    BY <1>2, <1>4, <1>5, <1>6, <1>7, <1>10 DEF IInv, TypeOK, TablesOK
  <2>2. \A q \in Runner : RunOK(runs[q])'
    BY <1>2, <1>4, <1>5, <1>6, <1>7, <1>8, <1>10 DEF IInv, TypeOK, RunOK
  <2> QED
    BY <2>1, <2>2 DEF TypeOK
<1>13. \A q \in Runner : runs[q].do \in Anchoring => runs[q].row \in DOMAIN anchors
  BY DEF IInv, TypeOK, RunOK
<1>14. RowsApart'
  BY <1>7, <1>8, <1>10, <1>13 DEF IInv, RowsApart
<1>15. RowsReal'
  <2>1. \A n \in DOMAIN anchors' :
          anchors'[n].status = "confirmed" => Real(anchors[n].tree)'
    BY <1>4, <1>6, <1>7, <1>11 DEF IInv, RowsReal
  <2>2. \A q \in Runner : runs'[q].do = "confirm" => Real(runs[q].tree)'
    BY <1>8, <1>10, <1>11 DEF IInv, RowsReal
  <2>3. \A q \in Runner :
          runs'[q].do \in {"mark", "announce"} => anchors'[runs'[q].row].status = "confirmed"
    BY <1>6, <1>8, <1>10, <1>13 DEF IInv, RowsReal, Anchoring
  <2> QED
    BY <2>1, <2>2, <2>3 DEF RowsReal
<1>16. TreesReal'
  <2> SUFFICES ASSUME NEW t \in DOMAIN trees, trees[t].anchored
               PROVE  \/ t \in unsaid /\ Real(t)
                      \/ \E n \in DOMAIN anchors' : IsConfirmed(n, t)' /\ Final(n)'
    BY <1>5, <1>11 DEF TreesReal
  <2>1. CASE \E n \in DOMAIN anchors : IsConfirmed(n, t) /\ Final(n)
    <3>1. PICK n \in DOMAIN anchors : IsConfirmed(n, t) /\ Final(n)
      BY <2>1
    <3>2. Final(n)'
      BY <1>7, <1>8, <1>10, <3>1 DEF Final
    <3>3. IsConfirmed(n, t)' /\ n \in DOMAIN anchors'
      BY <1>6, <1>7, <3>1 DEF IsConfirmed
    <3> QED
      BY <3>2, <3>3
  <2> QED
    BY <2>1 DEF IInv, TreesReal
<1> QED
  BY <1>12, <1>14, <1>15, <1>16 DEF IInv

LEMMA SendKeeps ==
  ASSUME IInv, NEW r \in Runner, SendRoot(r)
  PROVE  IInv'
<1>1. runs[r].do = "send" /\ runs[r].do \in Anchoring
      /\ UNCHANGED <<trees, anchors, unsaid, simulated>>
  BY DEF SendRoot, Anchoring, restVars
<1>2. PICK do \in {"confirm", "fail"} :
        /\ Step(r, do) /\ chain \subseteq chain'
        /\ do = "confirm" => simulated \/ trees[TreeOf(r)].root \in chain'
  BY DEF SendRoot
<1>3. do \in Anchoring
  BY DEF Anchoring
<1>4. /\ DOMAIN runs' = Runner /\ runs' = [q \in Runner |-> runs'[q]]
      /\ runs'[r] \in AnchorRun /\ runs'[r].do = do
      /\ runs'[r].tree = runs[r].tree /\ runs'[r].left = runs[r].left
      /\ runs'[r].row = runs[r].row
      /\ \A q \in Runner : q # r => runs'[q] = runs[q]
  BY <1>1, <1>2, <1>3, StepFacts
<1>5. RunOK(runs[r])'
  BY <1>1, <1>4 DEF IInv, TypeOK, RunOK
<1>6. do = "confirm" => Real(runs[r].tree)'
  BY <1>1, <1>2, <1>4 DEF Real, TreeOf
<1> QED
  BY <1>1, <1>2, <1>4, <1>5, <1>6, RunsMove

LEMMA FaultKeeps ==
  ASSUME IInv, NEW r \in Runner, Fault(r)
  PROVE  IInv'
<1>1. UNCHANGED <<trees, anchors, simulated>>
  BY DEF Fault
<1>2. CASE runs[r].do \in {"send", "confirm", "mark", "announce"}
  <2>1. /\ Step(r, "fail") /\ chain \subseteq chain' /\ unsaid \subseteq unsaid'
        /\ runs[r].do = "announce" => runs[r].tree \in unsaid'
    BY <1>2 DEF Fault, TreeOf
  <2>2. runs[r].do \in Anchoring /\ "fail" \in Anchoring
    BY <1>2 DEF Anchoring
  <2>3. /\ DOMAIN runs' = Runner /\ runs' = [q \in Runner |-> runs'[q]]
        /\ runs'[r] \in AnchorRun /\ runs'[r].do = "fail"
        /\ runs'[r].tree = runs[r].tree /\ runs'[r].left = runs[r].left
        /\ runs'[r].row = runs[r].row
        /\ \A q \in Runner : q # r => runs'[q] = runs[q]
    BY <2>1, <2>2, StepFacts
  <2>4. RunOK(runs[r])'
    BY <1>1, <2>2, <2>3 DEF IInv, TypeOK, RunOK
  <2> QED
    BY <1>1, <2>1, <2>2, <2>3, <2>4, RunsMove
<1>3. CASE runs[r].do \notin {"send", "confirm", "mark", "announce"}
  <2>1. UNCHANGED <<chain, unsaid>>
    BY <1>3 DEF Fault
  <2>2. runs[r].do \in {"anchor", "fail"} => runs[r].left \subseteq DOMAIN trees
    BY DEF IInv, TypeOK, RunOK, Anchoring
  <2>3. \A left : left \subseteq DOMAIN trees =>
          /\ NextOf(left).do \notin Anchoring /\ NextOf(left).do # "index"
          /\ NextOf(left).do = "anchor" => NextOf(left).left \subseteq DOMAIN trees
    BY DEF NextOf, Resting, Anchoring
  <2>4. CASE Go(r, Resting)
    BY <1>1, <2>1, <2>4, QuietKeeps DEF Resting, Anchoring
  <2>5. CASE \E left : left \subseteq DOMAIN trees /\ Go(r, NextOf(left))
    <3>1. PICK left : left \subseteq DOMAIN trees /\ Go(r, NextOf(left))
      BY <2>5
    <3> QED
      BY <1>1, <2>1, <2>3, <3>1, QuietKeeps
  <2>6. Go(r, Resting) \/ \E left : left \subseteq DOMAIN trees /\ Go(r, NextOf(left))
    BY <1>3, <2>2 DEF Fault
  <2> QED
    BY <2>4, <2>5, <2>6
<1> QED
  BY <1>2, <1>3

\* A row that is set, and the step of the execution it belongs to.
LEMMA SetFacts ==
  ASSUME IInv, NEW r \in Runner, runs[r].do \in Anchoring,
         NEW status \in {"confirmed", "failed"}, SetAnchor(r, status)
  PROVE  /\ anchors' \in Seq(AnchorRow) /\ DOMAIN anchors' = DOMAIN anchors
         /\ runs[r].row \in DOMAIN anchors
         /\ anchors'[runs[r].row].tree = runs[r].tree
         /\ anchors'[runs[r].row].status = status
         /\ \A n \in DOMAIN anchors : anchors'[n].tree = anchors[n].tree
         /\ \A n \in DOMAIN anchors : n # runs[r].row => anchors'[n] = anchors[n]
<1>1. anchors \in Seq(AnchorRow) /\ runs[r].row \in DOMAIN anchors
      /\ anchors[runs[r].row].tree = runs[r].tree
  BY DEF IInv, TypeOK, TablesOK, RunOK
<1> DEFINE n == runs[r].row
           x == [anchors[n] EXCEPT !.status = status]
<1>2. anchors[n] \in AnchorRow
  BY <1>1
<1>3. x \in AnchorRow /\ x.tree = anchors[n].tree /\ x.status = status
  BY <1>2 DEF AnchorRow
<1>4. anchors' = [anchors EXCEPT ![n] = x]
  BY DEF SetAnchor
<1> HIDE DEF n, x
<1>5. n \in DOMAIN anchors /\ n = runs[r].row
  BY <1>1 DEF n
<1>6. anchors' \in Seq(AnchorRow) /\ DOMAIN anchors' = DOMAIN anchors
  BY <1>1, <1>3, <1>4, <1>5, ExceptSeq
<1>7. anchors'[n] = x /\ \A m \in DOMAIN anchors : m # n => anchors'[m] = anchors[m]
  BY <1>1, <1>4, <1>5
<1> QED
  BY <1>1, <1>3, <1>5, <1>6, <1>7

LEMMA ConfirmKeeps ==
  ASSUME IInv, NEW r \in Runner, ConfirmAnchor(r)
  PROVE  IInv'
<1>1. /\ runs[r].do = "confirm" /\ runs[r].do \in Anchoring /\ "mark" \in Anchoring
      /\ SetAnchor(r, "confirmed") /\ Step(r, "mark")
      /\ UNCHANGED <<trees, chain, unsaid, simulated>>
  BY DEF ConfirmAnchor, Anchoring, restVars
<1>2. /\ anchors' \in Seq(AnchorRow) /\ DOMAIN anchors' = DOMAIN anchors
      /\ runs[r].row \in DOMAIN anchors
      /\ anchors'[runs[r].row].tree = runs[r].tree
      /\ anchors'[runs[r].row].status = "confirmed"
      /\ \A n \in DOMAIN anchors : anchors'[n].tree = anchors[n].tree
      /\ \A n \in DOMAIN anchors : n # runs[r].row => anchors'[n] = anchors[n]
  BY <1>1, SetFacts
<1>3. /\ DOMAIN runs' = Runner /\ runs' = [q \in Runner |-> runs'[q]]
      /\ runs'[r] \in AnchorRun /\ runs'[r].do = "mark"
      /\ runs'[r].tree = runs[r].tree /\ runs'[r].left = runs[r].left
      /\ runs'[r].row = runs[r].row
      /\ \A q \in Runner : q # r => runs'[q] = runs[q]
  BY <1>1, StepFacts
<1>4. \A k : Real(k)' <=> Real(k)
  BY <1>1 DEF Real
<1>5. Real(runs[r].tree)
  BY <1>1 DEF IInv, RowsReal
<1>6. TypeOK'
  <2>1. TablesOK'
    BY <1>1, <1>2, <1>3 DEF IInv, TypeOK, TablesOK
  <2>2. \A q \in Runner : RunOK(runs[q])'
    BY <1>1, <1>2, <1>3 DEF IInv, TypeOK, RunOK
  <2> QED
    BY <2>1, <2>2 DEF TypeOK
<1>7. RowsApart'
  BY <1>1, <1>3 DEF IInv, RowsApart
<1>8. RowsReal'
  <2>1. \A n \in DOMAIN anchors :
          anchors'[n].status = "confirmed" => Real(anchors[n].tree)'
    BY <1>2, <1>4, <1>5 DEF IInv, RowsReal
  <2>2. \A q \in Runner : runs'[q].do = "confirm" => Real(runs[q].tree)'
    BY <1>3, <1>4 DEF IInv, RowsReal
  <2>3. \A q \in Runner : runs[q].do \in {"mark", "announce"} => runs[q].row \in DOMAIN anchors
    BY DEF IInv, TypeOK, RunOK, Anchoring
  <2>4. \A q \in Runner :
          runs'[q].do \in {"mark", "announce"} => anchors'[runs'[q].row].status = "confirmed"
    BY <1>2, <1>3, <2>3 DEF IInv, RowsReal
  <2> QED
    BY <1>2, <2>1, <2>2, <2>4 DEF RowsReal
<1>9. TreesReal'
  <2> SUFFICES ASSUME NEW k \in DOMAIN trees, trees[k].anchored
               PROVE  \/ k \in unsaid /\ Real(k)
                      \/ \E n \in DOMAIN anchors : IsConfirmed(n, k)' /\ Final(n)'
    BY <1>1, <1>2, <1>4 DEF TreesReal
  <2>1. CASE \E n \in DOMAIN anchors : IsConfirmed(n, k) /\ Final(n)
    <3>1. PICK n \in DOMAIN anchors : IsConfirmed(n, k) /\ Final(n)
      BY <2>1
    <3>2. n # runs[r].row
      BY <1>1, <3>1 DEF Final
    <3>3. IsConfirmed(n, k)' /\ Final(n)'
      BY <1>2, <1>3, <3>1, <3>2 DEF IsConfirmed, Final
    <3> QED
      BY <3>3
  <2> QED
    BY <2>1 DEF IInv, TreesReal
<1> QED
  BY <1>6, <1>7, <1>8, <1>9 DEF IInv

LEMMA FailKeeps ==
  ASSUME IInv, NEW r \in Runner, FailAnchor(r)
  PROVE  IInv'
<1> DEFINE new == NextOf(runs[r].left)
<1>1. /\ runs[r].do = "fail" /\ runs[r].do \in Anchoring
      /\ SetAnchor(r, "failed") /\ Go(r, new)
      /\ UNCHANGED <<trees, chain, unsaid, simulated>>
  BY DEF FailAnchor, Anchoring, restVars
<1>2. /\ anchors' \in Seq(AnchorRow) /\ DOMAIN anchors' = DOMAIN anchors
      /\ runs[r].row \in DOMAIN anchors
      /\ anchors'[runs[r].row].tree = runs[r].tree
      /\ anchors'[runs[r].row].status = "failed"
      /\ \A n \in DOMAIN anchors : anchors'[n].tree = anchors[n].tree
      /\ \A n \in DOMAIN anchors : n # runs[r].row => anchors'[n] = anchors[n]
  BY <1>1, SetFacts
<1>3. runs[r].left \subseteq DOMAIN trees
  BY <1>1 DEF IInv, TypeOK, RunOK
<1>4. /\ new.do \in {"none", "anchor"}
      /\ new.do = "anchor" => new.left \subseteq DOMAIN trees
  BY <1>3 DEF NextOf, Resting
<1> HIDE DEF new
<1>5. /\ DOMAIN runs' = Runner /\ runs' = [q \in Runner |-> runs'[q]]
      /\ runs'[r] = new
      /\ \A q \in Runner : q # r => runs'[q] = runs[q]
  BY <1>1, GoFacts
<1>6. \A k : Real(k)' <=> Real(k)
  BY <1>1 DEF Real
<1>7. TypeOK'
  <2>1. TablesOK'
    BY <1>1, <1>2, <1>5 DEF IInv, TypeOK, TablesOK
  <2>2. \A q \in Runner : RunOK(runs[q])'
    BY <1>1, <1>2, <1>4, <1>5 DEF IInv, TypeOK, RunOK, Anchoring
  <2> QED
    BY <2>1, <2>2 DEF TypeOK
<1>8. RowsApart'
  BY <1>4, <1>5 DEF IInv, RowsApart, Anchoring
<1>9. RowsReal'
  <2>1. \A n \in DOMAIN anchors :
          anchors'[n].status = "confirmed" => Real(anchors[n].tree)'
    BY <1>2, <1>6 DEF IInv, RowsReal
  <2>2. \A q \in Runner : runs'[q].do = "confirm" => Real(runs[q].tree)'
    BY <1>4, <1>5, <1>6 DEF IInv, RowsReal
  <2>3. \A q \in Runner : q # r /\ runs[q].do \in {"mark", "announce"} =>
          runs[q].row \in DOMAIN anchors /\ runs[q].row # runs[r].row
    BY <1>1 DEF IInv, TypeOK, RunOK, RowsApart, Anchoring
  <2>4. \A q \in Runner :
          runs'[q].do \in {"mark", "announce"} => anchors'[runs'[q].row].status = "confirmed"
    BY <1>2, <1>4, <1>5, <2>3 DEF IInv, RowsReal
  <2> QED
    BY <1>2, <2>1, <2>2, <2>4 DEF RowsReal
<1>10. TreesReal'
  <2> SUFFICES ASSUME NEW k \in DOMAIN trees, trees[k].anchored
               PROVE  \/ k \in unsaid /\ Real(k)
                      \/ \E n \in DOMAIN anchors : IsConfirmed(n, k)' /\ Final(n)'
    BY <1>1, <1>2, <1>6 DEF TreesReal
  <2>1. CASE \E n \in DOMAIN anchors : IsConfirmed(n, k) /\ Final(n)
    <3>1. PICK n \in DOMAIN anchors : IsConfirmed(n, k) /\ Final(n)
      BY <2>1
    <3>2. n # runs[r].row
      BY <1>1, <3>1 DEF Final
    <3>3. IsConfirmed(n, k)' /\ Final(n)'
      BY <1>2, <1>4, <1>5, <3>1, <3>2 DEF IsConfirmed, Final, Anchoring
    <3> QED
      BY <3>3
  <2> QED
    BY <2>1 DEF IInv, TreesReal
<1> QED
  BY <1>7, <1>8, <1>9, <1>10 DEF IInv

LEMMA MarkKeeps ==
  ASSUME IInv, NEW r \in Runner, MarkAnchored(r)
  PROVE  IInv'
<1> DEFINE t == runs[r].tree
           x == [trees[t] EXCEPT !.anchored = TRUE]
<1>1. /\ runs[r].do = "mark" /\ runs[r].do \in Anchoring /\ "announce" \in Anchoring
      /\ trees' = [trees EXCEPT ![t] = x] /\ Step(r, "announce")
      /\ UNCHANGED <<anchors, chain, unsaid, simulated>>
  BY DEF MarkAnchored, Anchoring, TreeOf, restVars
<1>2. PICK L, R : trees \in Seq(TreeRow(L, R))
  BY DEF IInv, TypeOK, TablesOK
<1>3. t \in DOMAIN trees /\ trees[t] \in TreeRow(L, R)
  BY <1>1, <1>2 DEF IInv, TypeOK, RunOK
<1>4. x \in TreeRow(L, R) /\ x.root = trees[t].root
  BY <1>3 DEF TreeRow
<1>5. t = runs[r].tree
  OBVIOUS
<1> HIDE DEF t, x
<1>6. trees' \in Seq(TreeRow(L, R)) /\ DOMAIN trees' = DOMAIN trees
  BY <1>1, <1>2, <1>3, <1>4, ExceptSeq
<1>7. trees'[t] = x /\ \A k \in DOMAIN trees : k # t => trees'[k] = trees[k]
  BY <1>1, <1>2, <1>3
<1>8. /\ DOMAIN runs' = Runner /\ runs' = [q \in Runner |-> runs'[q]]
      /\ runs'[r] \in AnchorRun /\ runs'[r].do = "announce"
      /\ runs'[r].tree = runs[r].tree /\ runs'[r].left = runs[r].left
      /\ runs'[r].row = runs[r].row
      /\ \A q \in Runner : q # r => runs'[q] = runs[q]
  BY <1>1, StepFacts
<1>9. \A k \in DOMAIN trees : Real(k) => Real(k)'
  BY <1>1, <1>4, <1>7 DEF Real
<1>10. TypeOK'
  <2>1. TablesOK'
    BY <1>1, <1>6, <1>8 DEF IInv, TypeOK, TablesOK
  <2>2. \A q \in Runner : RunOK(runs[q])'
    BY <1>1, <1>6, <1>8 DEF IInv, TypeOK, RunOK
  <2> QED
    BY <2>1, <2>2 DEF TypeOK
<1>11. RowsApart'
  BY <1>1, <1>8 DEF IInv, RowsApart
<1>12. RowsReal'
  <2>1. \A n \in DOMAIN anchors : anchors[n].tree \in DOMAIN trees
    BY DEF IInv, TypeOK, TablesOK
  <2>2. \A q \in Runner : runs[q].do = "confirm" => runs[q].tree \in DOMAIN trees
    BY DEF IInv, TypeOK, RunOK, Anchoring
  <2>3. \A n \in DOMAIN anchors : anchors[n].status = "confirmed" => Real(anchors[n].tree)'
    BY <1>1, <1>9, <2>1 DEF IInv, RowsReal
  <2>4. \A q \in Runner : runs'[q].do = "confirm" => Real(runs[q].tree)'
    BY <1>8, <1>9, <2>2 DEF IInv, RowsReal
  <2>5. \A q \in Runner :
          runs'[q].do \in {"mark", "announce"} => anchors[runs'[q].row].status = "confirmed"
    BY <1>1, <1>8 DEF IInv, RowsReal
  <2> QED
    BY <1>1, <2>3, <2>4, <2>5 DEF RowsReal
<1>13. TreesReal'
  <2> SUFFICES ASSUME NEW k \in DOMAIN trees, trees'[k].anchored
               PROVE  \/ k \in unsaid /\ Real(k)'
                      \/ \E n \in DOMAIN anchors : IsConfirmed(n, k) /\ Final(n)'
    BY <1>1, <1>6 DEF TreesReal, IsConfirmed
  <2>1. CASE k = t
    <3>1. PICK n \in DOMAIN anchors : n = runs[r].row /\ IsConfirmed(n, k)
      BY <1>1, <1>5, <2>1 DEF IInv, TypeOK, RunOK, RowsReal, IsConfirmed
    <3>2. Final(n)'
      BY <1>1, <1>8, <3>1 DEF Final, IInv, RowsApart
    <3> QED
      BY <3>1, <3>2
  <2>2. CASE k # t /\ k \in unsaid /\ Real(k)
    BY <1>9, <2>2
  <2>3. CASE k # t /\ \E n \in DOMAIN anchors : IsConfirmed(n, k) /\ Final(n)
    <3>1. PICK n \in DOMAIN anchors : IsConfirmed(n, k) /\ Final(n)
      BY <2>3
    <3>2. Final(n)'
      BY <1>1, <1>8, <3>1 DEF Final
    <3> QED
      BY <3>1, <3>2
  <2> QED
    BY <1>7, <2>1, <2>2, <2>3 DEF IInv, TreesReal
<1> QED
  BY <1>10, <1>11, <1>12, <1>13 DEF IInv

LEMMA RestartKeeps ==
  ASSUME IInv, Restart
  PROVE  IInv'
<1>1. runs' = [r \in Runner |-> Resting]
      /\ UNCHANGED <<trees, anchors, chain, unsaid, simulated>>
  BY DEF Restart, treeVars
<1>2. \A r \in Runner : runs'[r].do = "none"
  BY <1>1 DEF Resting
<1>3. TypeOK'
  <2>1. TablesOK'
    BY <1>1 DEF IInv, TypeOK, TablesOK
  <2> QED
    BY <1>2, <2>1 DEF TypeOK, RunOK, Anchoring
<1>4. RowsApart'
  BY <1>2 DEF RowsApart, Anchoring
<1>5. \A k : Real(k)' <=> Real(k)
  BY <1>1 DEF Real
<1>6. RowsReal'
  BY <1>1, <1>2, <1>5 DEF IInv, RowsReal
<1>7. \A n : Final(n)'
  BY <1>2 DEF Final, Anchoring
<1>8. TreesReal'
  BY <1>1, <1>5, <1>7 DEF IInv, TreesReal, IsConfirmed
<1> QED
  BY <1>3, <1>4, <1>6, <1>8 DEF IInv

\* Everything else moves one execution that does not anchor.
LEMMA OthersKeep ==
  ASSUME IInv, NEW r \in Runner,
         \/ \E t \in Verified : TradeVerified(r, t)
         \/ IssueCertificate(r)
         \/ \E n \in DOMAIN certs, to \in {"transferred", "revoked"} :
              ChangeCertificate(r, n, to)
         \/ SaveCertificate(r)
         \/ \E anchor \in BOOLEAN : BuildDailyMerkleTree(r, anchor)
         \/ IndexCertificate(r) \/ AnchorPendingTrees(r) \/ PublishAnchored(r)
  PROVE  IInv'
<1> DEFINE Harmless(new) == /\ Go(r, new) /\ new.do \notin Anchoring
                            /\ new.do = "anchor" => new.left \subseteq DOMAIN trees
                            /\ new.do = "index" => new.tree \in DOMAIN trees
<1> SUFFICES /\ UNCHANGED <<trees, anchors, chain, simulated, unsaid>>
             /\ \E new : Harmless(new)
  <2>1. ASSUME NEW new, Harmless(new), UNCHANGED <<trees, anchors, chain, simulated, unsaid>>
        PROVE  IInv'
    BY <2>1, QuietKeeps
  <2> QED
    BY <2>1
<1>1. CASE \E t \in Verified : TradeVerified(r, t)
  <2>1. PICK t \in Verified : TradeVerified(r, t)
    BY <1>1
  <2>2. Harmless([do |-> "issue", trade |-> t, side |-> 1, number |-> counter + 1])
    BY <2>1 DEF TradeVerified, IssueFirst, Begin, Go, Anchoring
  <2> QED
    BY <2>1, <2>2 DEF TradeVerified, IssueFirst, treeVars
<1>2. CASE IssueCertificate(r)
  <2>1. UNCHANGED <<trees, anchors, chain, simulated, unsaid>>
    BY <1>2 DEF IssueCertificate, treeVars
  <2>2. CASE Go(r, Resting)
    BY <2>1, <2>2 DEF Resting, Anchoring
  <2>3. CASE Go(r, [runs[r] EXCEPT !.side = 2, !.number = counter + 1])
    <3> DEFINE new == [runs[r] EXCEPT !.side = 2, !.number = counter + 1]
    <3>1. new.do = "issue"
      BY <1>2 DEF IssueCertificate
    <3> HIDE DEF new
    <3>2. new.do \notin Anchoring /\ new.do # "anchor" /\ new.do # "index"
      BY <3>1 DEF Anchoring
    <3>3. Go(r, new)
      BY <2>3 DEF new
    <3> QED
      BY <2>1, <3>2, <3>3
  <2> QED
    BY <1>2, <2>2, <2>3 DEF IssueCertificate
<1>3. CASE \E n \in DOMAIN certs, to \in {"transferred", "revoked"} :
             ChangeCertificate(r, n, to)
  <2>1. PICK n \in DOMAIN certs, to \in {"transferred", "revoked"} : ChangeCertificate(r, n, to)
    BY <1>3
  <2>2. Harmless([do |-> "save", row |-> n, copy |-> [certs[n] EXCEPT !.status = to]])
    BY <2>1 DEF ChangeCertificate, Begin, Go, Anchoring
  <2> QED
    BY <2>1, <2>2 DEF ChangeCertificate, treeVars, restVars
<1>4. CASE SaveCertificate(r)
  <2>1. Harmless(Resting)
    BY <1>4 DEF SaveCertificate, Resting, Anchoring
  <2> QED
    BY <1>4, <2>1 DEF SaveCertificate, treeVars, restVars
<1>5. CASE \E anchor \in BOOLEAN : BuildDailyMerkleTree(r, anchor)
  <2>1. PICK anchor \in BOOLEAN : BuildDailyMerkleTree(r, anchor)
    BY <1>5
  <2>2. Harmless([do |-> "tree", anchor |-> anchor,
                  leaves |-> [n \in DOMAIN certs |-> <<certs[n].trade>>]])
    BY <2>1 DEF BuildDailyMerkleTree, Begin, Go, Anchoring
  <2> QED
    BY <2>1, <2>2 DEF BuildDailyMerkleTree, treeVars, restVars
<1>6. CASE IndexCertificate(r)
  <2>1. /\ UNCHANGED <<trees, anchors, chain, simulated, unsaid>>
        /\ runs[r].do = "index" /\ runs[r].tree \in DOMAIN trees
    BY <1>6 DEF IndexCertificate, treeVars, restVars, IInv, TypeOK, RunOK
  <2>2. CASE Go(r, Resting)
    BY <2>1, <2>2 DEF Resting, Anchoring
  <2>3. CASE Go(r, [do |-> "anchor", left |-> {runs[r].tree}])
    <3>1. Harmless([do |-> "anchor", left |-> {runs[r].tree}])
      BY <2>1, <2>3 DEF Anchoring
    <3> QED
      BY <2>1, <3>1
  <2>4. CASE Go(r, [runs[r] EXCEPT !.row = runs[r].row + 1])
    <3> DEFINE new == [runs[r] EXCEPT !.row = runs[r].row + 1]
    <3>1. new.do = "index" /\ new.tree = runs[r].tree
      BY <2>1
    <3> HIDE DEF new
    <3>2. new.do \notin Anchoring /\ new.do # "anchor" /\ new.tree \in DOMAIN trees
      BY <2>1, <3>1 DEF Anchoring
    <3>3. Go(r, new)
      BY <2>4 DEF new
    <3> QED
      BY <2>1, <3>2, <3>3
  <2> QED
    BY <1>6, <2>2, <2>3, <2>4 DEF IndexCertificate
<1>7. CASE AnchorPendingTrees(r)
  <2> DEFINE pending == {k \in DOMAIN trees : ~trees[k].anchored}
  <2>1. Harmless([do |-> "anchor", left |-> pending])
    BY <1>7 DEF AnchorPendingTrees, Begin, Go, Anchoring
  <2> QED
    BY <1>7, <2>1 DEF AnchorPendingTrees, treeVars, restVars
<1>8. CASE PublishAnchored(r)
  <2>1. runs[r].do = "announce" /\ runs[r].left \subseteq DOMAIN trees
    BY <1>8 DEF PublishAnchored, IInv, TypeOK, RunOK, Anchoring
  <2>2. Harmless(NextOf(runs[r].left))
    BY <1>8, <2>1 DEF PublishAnchored, NextOf, Resting, Anchoring
  <2> QED
    BY <1>8, <2>2 DEF PublishAnchored, treeVars, restVars
<1> QED
  BY <1>1, <1>2, <1>3, <1>4, <1>5, <1>6, <1>7, <1>8

LEMMA StepKeeps == IInv /\ [CertificatesNext]_certificatesVars => IInv'
<1> SUFFICES ASSUME IInv, [CertificatesNext]_certificatesVars PROVE IInv'
  OBVIOUS
<1>1. CASE UNCHANGED certificatesVars
  BY <1>1, StillKeeps DEF certificatesVars, treeVars, restVars
<1>2. CASE Restart
  BY <1>2, RestartKeeps
<1>3. ASSUME NEW r \in Runner,
             \/ InsertTree(r) \/ InsertAnchor(r) \/ SendRoot(r) \/ Fault(r)
             \/ ConfirmAnchor(r) \/ MarkAnchored(r) \/ FailAnchor(r)
      PROVE  IInv'
  BY <1>3, InsertTreeKeeps, InsertAnchorKeeps, SendKeeps, FaultKeeps, ConfirmKeeps,
     MarkKeeps, FailKeeps
<1>4. ASSUME NEW r \in Runner,
             \/ \E t \in Verified : TradeVerified(r, t)
             \/ IssueCertificate(r)
             \/ \E n \in DOMAIN certs, to \in {"transferred", "revoked"} :
                  ChangeCertificate(r, n, to)
             \/ SaveCertificate(r)
             \/ \E anchor \in BOOLEAN : BuildDailyMerkleTree(r, anchor)
             \/ IndexCertificate(r) \/ AnchorPendingTrees(r) \/ PublishAnchored(r)
      PROVE  IInv'
  BY <1>4, OthersKeep
<1> QED
  BY <1>1, <1>2, <1>3, <1>4 DEF CertificatesNext, IssuingNext, AnchoringNext, FailingNext

----------------------------------------------------------------------------
\* anchorMerkleRoot (blockchain.service.ts) confirms no row and marks no tree
\* whose root the contract does not hold, and no other attempt takes a
\* confirmed row of an anchored tree back, for any number of trees, attempts
\* at once, refusals, lost answers and restarts.
THEOREM AnchorsHold == CertificatesSpec => []AnchorsAreReal
<1>1. CertificatesInit => IInv
  BY Initially
<1>2. IInv /\ [CertificatesNext]_certificatesVars => IInv'
  BY StepKeeps
<1>3. IInv => AnchorsAreReal
  <2> SUFFICES ASSUME IInv, NEW k \in DOMAIN trees
               PROVE  /\ trees[k].anchored => Confirmed(k) \/ k \in unsaid
                      /\ trees[k].anchored \/ Confirmed(k) => Real(k)
    BY DEF AnchorsAreReal, Real
  <2>1. \A n \in DOMAIN anchors :
          /\ IsConfirmed(n, k) <=> anchors[n] = [tree |-> k, status |-> "confirmed"]
          /\ IsConfirmed(n, k) => Real(k)
    <3>1. \A n \in DOMAIN anchors : anchors[n] \in AnchorRow
      BY DEF IInv, TypeOK, TablesOK
    <3>2. \A n \in DOMAIN anchors :
            IsConfirmed(n, k) <=> anchors[n] = [tree |-> k, status |-> "confirmed"]
      BY <3>1 DEF IsConfirmed, AnchorRow
    <3> QED
      BY <3>2 DEF IInv, RowsReal, IsConfirmed
  <2> QED
    BY <2>1 DEF IInv, TreesReal, Confirmed
<1> QED
  BY <1>1, <1>2, <1>3, PTL DEF CertificatesSpec

----------------------------------------------------------------------------
(* The certificates: both parties get one, and a certificate that is in a  *)
(* tree is the leaf of that tree its row says.                             *)

CertRow == [number : Nat, trade : Verified, side : {1, 2},
            status : {"active", "transferred", "revoked"}, tree : Nat, leaf : Nat]

IssueRun == [do : {"issue"}, trade : Verified, side : {1, 2}, number : Nat]
SaveRun == [do : {"save"}, row : Nat, copy : CertRow]
IndexRun == [do : {"index"}, tree : Nat, row : Nat \ {0}, anchor : BOOLEAN]

\* The leaves of a tree are the trades of the certificates there were.
LeavesOf(leaves) ==
  \E m \in 1 .. Len(certs) : leaves = [n \in 1 .. m |-> <<certs[n].trade>>]

\* A certificate, or a copy of it, names its own leaf of some tree, or none.
Placed(c, n) ==
  c.tree # 0 =>
    c.tree \in DOMAIN trees /\ n \in DOMAIN trees[c.tree].leaves /\ c.leaf = n - 1

CertRunOK(j) ==
  /\ j.do = "issue" => j \in IssueRun
  /\ j.do = "save" =>
       /\ j \in SaveRun /\ j.row \in DOMAIN certs /\ Placed(j.copy, j.row)
       /\ j.copy.trade = certs[j.row].trade /\ j.copy.side = certs[j.row].side
  /\ j.do = "tree" => LeavesOf(j.leaves) /\ j.anchor \in BOOLEAN
  /\ j.do = "index" => j \in IndexRun /\ j.row \in DOMAIN trees[j.tree].leaves

TreeOK(k) ==
  LeavesOf(trees[k].leaves) /\ trees[k].root = ComputeMerkleRoot(trees[k].leaves)

CertsOK ==
  /\ certs \in Seq(CertRow) /\ counter \in Nat
  /\ \A n \in DOMAIN certs : Placed(certs[n], n)
  /\ \A k \in DOMAIN trees : TreeOK(k)
  /\ \A r \in Runner : CertRunOK(runs[r])

\* What there is of the certificates of a trade.
Single(t) == \E a : Issued(t) = {a} /\ certs[a].side = 1
Couple(t) == \E a, b : Issued(t) = {a, b} /\ certs[a].side = 1 /\ certs[b].side = 2

PairOK(t) ==
  /\ Issuing(t) = {} => Issued(t) = {} \/ Couple(t)
  /\ \A r \in Issuing(t) : runs[r].side = 1 => Issued(t) = {}
  /\ \A r \in Issuing(t) : runs[r].side = 2 => Single(t)
  /\ \A q, r \in Issuing(t) : q = r

CInv == IInv /\ CertsOK /\ \A t \in Verified \ cut : PairOK(t)

\* Rows are added and changed, but nobody changes whose certificate it is.
CertsGrow ==
  /\ certs' \in Seq(CertRow)
  /\ \A n \in DOMAIN certs :
       n \in DOMAIN certs' /\ certs'[n].trade = certs[n].trade /\ certs'[n].side = certs[n].side

SameCerts == CertsGrow /\ DOMAIN certs' = DOMAIN certs

TreesGrow ==
  \A k \in DOMAIN trees :
    k \in DOMAIN trees' /\ trees'[k].leaves = trees[k].leaves /\ trees'[k].root = trees[k].root

LEMMA LeavesStay ==
  ASSUME certs \in Seq(CertRow), CertsGrow, NEW leaves, LeavesOf(leaves)
  PROVE  \E m \in 1 .. Len(certs') : leaves = [n \in 1 .. m |-> <<certs'[n].trade>>]
<1>1. PICK m \in 1 .. Len(certs) : leaves = [n \in 1 .. m |-> <<certs[n].trade>>]
  BY DEF LeavesOf
<1>2. /\ DOMAIN certs = 1 .. Len(certs) /\ DOMAIN certs' = 1 .. Len(certs')
      /\ Len(certs) \in Nat /\ Len(certs') \in Nat
  BY LenProperties DEF CertsGrow
<1>3. m \in 1 .. Len(certs')
  BY <1>2 DEF CertsGrow
<1>4. \A n \in 1 .. m : certs'[n].trade = certs[n].trade
  BY <1>2 DEF CertsGrow
<1>5. leaves = [n \in 1 .. m |-> <<certs'[n].trade>>]
  BY <1>1, <1>4
<1> QED
  BY <1>3, <1>5

LEMMA CertRunStays ==
  ASSUME certs \in Seq(CertRow), CertsGrow, TreesGrow, NEW q, runs'[q] = runs[q],
         CertRunOK(runs[q]), RunOK(runs[q])
  PROVE  CertRunOK(runs[q])'
<1> DEFINE j == runs[q]
<1>1. j.do = "tree" =>
        \E m \in 1 .. Len(certs') : j.leaves = [n \in 1 .. m |-> <<certs'[n].trade>>]
  BY LeavesStay DEF CertRunOK
<1>2. j.do = "save" =>
        /\ j.copy.tree # 0 =>
             /\ j.copy.tree \in DOMAIN trees' /\ j.copy.leaf = j.row - 1
             /\ j.row \in DOMAIN trees'[j.copy.tree].leaves
        /\ j \in SaveRun /\ j.row \in DOMAIN certs'
        /\ j.copy.trade = certs'[j.row].trade /\ j.copy.side = certs'[j.row].side
  BY DEF CertRunOK, CertsGrow, TreesGrow, Placed
<1>3. j.do = "index" => j \in IndexRun /\ j.row \in DOMAIN trees'[j.tree].leaves
  BY DEF CertRunOK, RunOK, TreesGrow
<1>4. (j.do = "issue" => j \in IssueRun) /\ (j.do = "tree" => j.anchor \in BOOLEAN)
  BY DEF CertRunOK
<1> QED
  BY <1>1, <1>2, <1>3, <1>4 DEF CertRunOK, LeavesOf, Placed

\* A step that takes one execution on and keeps what it says itself.
LEMMA CertsStep ==
  ASSUME CInv, CertsGrow, TreesGrow, NEW r \in Runner,
         \A q \in Runner : q # r => runs'[q] = runs[q],
         CertRunOK(runs[r])', counter' \in Nat,
         \A n \in DOMAIN certs' : Placed(certs[n], n)',
         \A k \in DOMAIN trees' : k \notin DOMAIN trees => TreeOK(k)'
  PROVE  CertsOK'
<1>1. certs \in Seq(CertRow)
  BY DEF CInv, CertsOK
<1>2. \A q \in Runner : CertRunOK(runs[q]) /\ RunOK(runs[q])
  BY DEF CInv, CertsOK, IInv, TypeOK
<1>3. \A q \in Runner : q # r => CertRunOK(runs[q])'
  BY <1>1, <1>2, CertRunStays
<1>4. ASSUME NEW k \in DOMAIN trees PROVE TreeOK(k)'
  <2>1. LeavesOf(trees[k].leaves) /\ trees[k].root = ComputeMerkleRoot(trees[k].leaves)
    BY <1>4 DEF CInv, CertsOK, TreeOK
  <2>2. trees'[k].leaves = trees[k].leaves /\ trees'[k].root = trees[k].root
    BY <1>4 DEF TreesGrow
  <2>3. \E m \in 1 .. Len(certs') :
          trees[k].leaves = [n \in 1 .. m |-> <<certs'[n].trade>>]
    BY <1>1, <2>1, LeavesStay
  <2> QED
    BY <2>1, <2>2, <2>3 DEF TreeOK, LeavesOf
<1> QED
  BY <1>3, <1>4 DEF CertsOK, CertsGrow

LEMMA PairsStay ==
  ASSUME CInv, SameCerts, NEW r \in Runner,
         runs[r].do # "issue", runs'[r].do # "issue",
         \A q \in Runner : q # r => runs'[q] = runs[q],
         cut \subseteq cut'
  PROVE  \A t \in Verified \ cut' : PairOK(t)'
<1> SUFFICES ASSUME NEW t \in Verified \ cut' PROVE PairOK(t)'
  OBVIOUS
<1>1. Issued(t)' = Issued(t)
  BY DEF SameCerts, CertsGrow, Issued
<1>2. Issued(t) \subseteq DOMAIN certs
  BY DEF Issued
<1>3. /\ Single(t) => Single(t)'
      /\ Couple(t) => Couple(t)'
  BY <1>1, <1>2 DEF Single, Couple, SameCerts, CertsGrow
<1>4. Issuing(t)' = Issuing(t) /\ \A q \in Issuing(t) : runs'[q] = runs[q]
  BY DEF Issuing
<1>5. PairOK(t)
  BY DEF CInv
<1> QED
  BY <1>1, <1>3, <1>4, <1>5 DEF PairOK

\* A step of an execution that issues nothing.
LEMMA QuietStep ==
  ASSUME CInv, IInv', SameCerts, TreesGrow, NEW r \in Runner,
         runs[r].do # "issue", runs'[r].do # "issue",
         \A q \in Runner : q # r => runs'[q] = runs[q],
         counter' = counter, cut \subseteq cut',
         CertRunOK(runs[r])',
         \A n \in DOMAIN certs' : Placed(certs[n], n)',
         \A k \in DOMAIN trees' : k \notin DOMAIN trees => TreeOK(k)'
  PROVE  CInv'
<1>1. counter' \in Nat
  BY DEF CInv, CertsOK
<1>2. CertsOK'
  BY <1>1, CertsStep DEF SameCerts
<1>3. \A t \in Verified \ cut' : PairOK(t)'
  BY PairsStay
<1> QED
  BY <1>2, <1>3 DEF CInv

LEMMA SameRows ==
  ASSUME CInv, UNCHANGED certs
  PROVE  SameCerts
  BY DEF CInv, CertsOK, SameCerts, CertsGrow

\* The same when it writes no certificate either.
LEMMA IdleStep ==
  ASSUME CInv, IInv', TreesGrow, DOMAIN trees' = DOMAIN trees, NEW r \in Runner,
         runs[r].do # "issue", runs'[r].do \notin {"issue", "save", "tree", "index"},
         \A q \in Runner : q # r => runs'[q] = runs[q],
         UNCHANGED <<certs, counter>>, cut \subseteq cut'
  PROVE  CInv'
<1>1. \A n \in DOMAIN certs' : Placed(certs[n], n)'
  BY DEF CInv, CertsOK, Placed, TreesGrow
<1>2. CertRunOK(runs[r])'
  BY DEF CertRunOK
<1> QED
  BY <1>1, <1>2, SameRows, QuietStep

\* The steps of anchoring that leave the trees alone.
LEMMA AnchoringIdles ==
  ASSUME CInv, IInv', NEW r \in Runner,
         \/ AnchorPendingTrees(r) \/ InsertAnchor(r) \/ SendRoot(r) \/ ConfirmAnchor(r)
         \/ PublishAnchored(r) \/ FailAnchor(r)
  PROVE  CInv'
<1>1. IInv
  BY DEF CInv
<1>2. UNCHANGED <<certs, counter, trees, cut>>
  BY DEF AnchorPendingTrees, InsertAnchor, SendRoot, ConfirmAnchor, PublishAnchored,
         FailAnchor, treeVars, restVars
<1>3. runs[r].do # "issue"
  BY DEF AnchorPendingTrees, InsertAnchor, SendRoot, ConfirmAnchor, PublishAnchored,
         FailAnchor, Begin, Resting
<1>4. \E new : Go(r, new) /\ new.do \notin {"issue", "save", "tree", "index"}
  <2>1. CASE AnchorPendingTrees(r)
    <3> DEFINE new == [do |-> "anchor", left |-> {k \in DOMAIN trees : ~trees[k].anchored}]
    <3>1. Go(r, new)
      BY <2>1 DEF AnchorPendingTrees, Begin, Go
    <3>2. new.do = "anchor"
      OBVIOUS
    <3> QED
      BY <3>1, <3>2
  <2>2. CASE InsertAnchor(r)
    <3>1. PICK k \in runs[r].left :
            Go(r, [do |-> "send", tree |-> k, left |-> runs[r].left \ {k},
                   row |-> Len(anchors) + 1])
      BY <2>2 DEF InsertAnchor
    <3> QED
      BY <3>1
  <2>3. CASE SendRoot(r) \/ ConfirmAnchor(r)
    <3>1. PICK do \in {"confirm", "fail", "mark"} : Step(r, do)
      BY <2>3 DEF SendRoot, ConfirmAnchor
    <3>2. runs[r].do \in Anchoring /\ do \in Anchoring
      BY <2>3, <3>1 DEF SendRoot, ConfirmAnchor, Anchoring
    <3>3. runs[r] \in AnchorRun
      BY <1>1, <3>2 DEF IInv, TypeOK, RunOK
    <3>4. [runs[r] EXCEPT !.do = do].do = do
      BY <3>3 DEF AnchorRun
    <3> QED
      BY <3>1, <3>4 DEF Step
  <2>4. CASE PublishAnchored(r) \/ FailAnchor(r)
    <3>1. Go(r, NextOf(runs[r].left))
      BY <2>4 DEF PublishAnchored, FailAnchor
    <3>2. NextOf(runs[r].left).do \in {"none", "anchor"}
      BY DEF NextOf, Resting
    <3> QED
      BY <3>1, <3>2
  <2> QED
    BY <2>1, <2>2, <2>3, <2>4
<1>5. /\ runs'[r].do \notin {"issue", "save", "tree", "index"}
      /\ \A q \in Runner : q # r => runs'[q] = runs[q]
  BY <1>1, <1>4, GoFacts
<1>6. TreesGrow
  BY <1>2 DEF TreesGrow
<1> QED
  BY <1>2, <1>3, <1>5, <1>6, IdleStep

\* The mark that a tree is anchored changes neither its leaves nor its root.
LEMMA MarkIdles ==
  ASSUME CInv, IInv', NEW r \in Runner, MarkAnchored(r)
  PROVE  CInv'
<1> DEFINE t == runs[r].tree
           x == [trees[t] EXCEPT !.anchored = TRUE]
<1>1. IInv /\ runs[r].do = "mark" /\ runs[r].do \in Anchoring /\ "announce" \in Anchoring
  BY DEF CInv, MarkAnchored, Anchoring
<1>2. /\ trees' = [trees EXCEPT ![t] = x] /\ Step(r, "announce")
      /\ UNCHANGED <<certs, counter, cut>>
  BY DEF MarkAnchored, TreeOf, restVars
<1>3. PICK L, R : trees \in Seq(TreeRow(L, R))
  BY <1>1 DEF IInv, TypeOK, TablesOK
<1>4. t \in DOMAIN trees /\ trees[t] \in TreeRow(L, R)
  BY <1>1, <1>3 DEF IInv, TypeOK, RunOK
<1>5. x.leaves = trees[t].leaves /\ x.root = trees[t].root /\ x \in TreeRow(L, R)
  BY <1>4 DEF TreeRow
<1> HIDE DEF t, x
<1>6. DOMAIN trees' = DOMAIN trees
  BY <1>2, <1>3, <1>4, <1>5, ExceptSeq
<1>7. TreesGrow
  BY <1>2, <1>3, <1>4, <1>5, <1>6 DEF TreesGrow
<1>8. runs'[r].do = "announce" /\ \A q \in Runner : q # r => runs'[q] = runs[q]
  BY <1>1, <1>2, StepFacts
<1> QED
  BY <1>1, <1>2, <1>6, <1>7, <1>8, IdleStep

\* A copy with another status is still of the same certificate.
LEMMA ChangeKeeps ==
  ASSUME CInv, IInv', NEW r \in Runner, NEW n \in DOMAIN certs,
         NEW to \in {"transferred", "revoked"}, ChangeCertificate(r, n, to)
  PROVE  CInv'
<1> DEFINE copy == [certs[n] EXCEPT !.status = to]
           new == [do |-> "save", row |-> n, copy |-> copy]
<1>1. IInv /\ certs \in Seq(CertRow) /\ certs[n] \in CertRow /\ n \in Nat
  BY LenProperties DEF CInv, CertsOK
<1>2. /\ copy \in CertRow /\ copy.trade = certs[n].trade /\ copy.side = certs[n].side
      /\ copy.tree = certs[n].tree /\ copy.leaf = certs[n].leaf
  BY <1>1 DEF CertRow
<1>3. /\ Go(r, new) /\ runs[r].do = "none"
      /\ UNCHANGED <<certs, counter, trees, cut>>
  BY DEF ChangeCertificate, Begin, Go, Resting, treeVars, restVars
<1>4. runs'[r] = new /\ \A q \in Runner : q # r => runs'[q] = runs[q]
  BY <1>1, <1>3, GoFacts
<1>5. \A m \in DOMAIN certs : Placed(certs[m], m)
  BY DEF CInv, CertsOK
<1>6. /\ new.do = "save" /\ new.row = n /\ new.copy = copy
      /\ new.copy \in CertRow => new \in SaveRun
  BY <1>1 DEF SaveRun
<1> HIDE DEF copy, new
<1>7. Placed(copy, n)
  BY <1>2, <1>5 DEF Placed
<1>8. CertRunOK(runs[r])'
  BY <1>2, <1>3, <1>4, <1>6, <1>7 DEF CertRunOK, Placed
<1>9. \A m \in DOMAIN certs' : Placed(certs[m], m)'
  BY <1>3, <1>5 DEF Placed
<1>10. TreesGrow /\ SameCerts
  BY <1>3, SameRows DEF TreesGrow
<1> QED
  BY <1>3, <1>4, <1>6, <1>8, <1>9, <1>10, QuietStep

\* Whatever the copy took with it, it is put back where it was.
LEMMA SaveKeeps ==
  ASSUME CInv, IInv', NEW r \in Runner, SaveCertificate(r)
  PROVE  CInv'
<1> DEFINE n == runs[r].row
           copy == runs[r].copy
<1>1. IInv /\ certs \in Seq(CertRow) /\ runs[r].do = "save" /\ CertRunOK(runs[r])
  BY DEF CInv, CertsOK, SaveCertificate
<1>2. /\ n \in DOMAIN certs /\ copy \in CertRow /\ Placed(copy, n)
      /\ copy.trade = certs[n].trade /\ copy.side = certs[n].side
  BY <1>1 DEF CertRunOK, SaveRun
<1>3. /\ certs' = [certs EXCEPT ![n] = copy] /\ Go(r, Resting)
      /\ UNCHANGED <<counter, trees, cut>>
  BY DEF SaveCertificate, treeVars, restVars
<1> HIDE DEF n, copy
<1>4. certs' \in Seq(CertRow) /\ DOMAIN certs' = DOMAIN certs
  BY <1>1, <1>2, <1>3, ExceptSeq
<1>5. certs'[n] = copy /\ \A m \in DOMAIN certs : m # n => certs'[m] = certs[m]
  BY <1>1, <1>2, <1>3
<1>6. SameCerts
  BY <1>2, <1>4, <1>5 DEF SameCerts, CertsGrow
<1>7. \A m \in DOMAIN certs' : Placed(certs[m], m)'
  BY <1>2, <1>3, <1>4, <1>5 DEF CInv, CertsOK, Placed
<1>8. runs'[r] = Resting /\ \A q \in Runner : q # r => runs'[q] = runs[q]
  BY <1>1, <1>3, GoFacts
<1>9. CertRunOK(runs[r])' /\ runs'[r].do # "issue"
  BY <1>8 DEF CertRunOK, Resting
<1>10. TreesGrow
  BY <1>3 DEF TreesGrow
<1> QED
  BY <1>1, <1>3, <1>6, <1>7, <1>8, <1>9, <1>10, QuietStep

\* The leaves are taken from all certificates there are.
LEMMA BuildKeeps ==
  ASSUME CInv, IInv', NEW r \in Runner, NEW anchor \in BOOLEAN,
         BuildDailyMerkleTree(r, anchor)
  PROVE  CInv'
<1> DEFINE leaves == [n \in DOMAIN certs |-> <<certs[n].trade>>]
           new == [do |-> "tree", anchor |-> anchor, leaves |-> leaves]
<1>1. IInv /\ certs \in Seq(CertRow) /\ certs # <<>>
  BY DEF CInv, CertsOK, BuildDailyMerkleTree
<1>2. /\ Go(r, new) /\ runs[r].do = "none"
      /\ UNCHANGED <<certs, counter, trees, cut>>
  BY DEF BuildDailyMerkleTree, Begin, Go, Resting, treeVars, restVars
<1>3. Len(certs) \in 1 .. Len(certs) /\ DOMAIN certs = 1 .. Len(certs)
  BY <1>1, LenProperties, EmptySeq
<1>4. leaves = [n \in 1 .. Len(certs) |-> <<certs[n].trade>>]
  BY <1>3
<1>5. new.do = "tree" /\ new.leaves = leaves /\ new.anchor \in BOOLEAN
  OBVIOUS
<1>6. runs'[r] = new /\ \A q \in Runner : q # r => runs'[q] = runs[q]
  BY <1>1, <1>2, GoFacts
<1> HIDE DEF new, leaves
<1>7. CertRunOK(runs[r])'
  BY <1>2, <1>3, <1>4, <1>5, <1>6 DEF CertRunOK, LeavesOf
<1>8. \A m \in DOMAIN certs' : Placed(certs[m], m)'
  BY <1>2 DEF Placed, CInv, CertsOK
<1>9. TreesGrow /\ SameCerts
  BY <1>2, SameRows DEF TreesGrow
<1> QED
  BY <1>2, <1>5, <1>6, <1>7, <1>8, <1>9, QuietStep

\* The tree is built over the leaves that were read.
LEMMA InsertTreeIsTree ==
  ASSUME CInv, IInv', NEW r \in Runner, InsertTree(r)
  PROVE  CInv'
<1> DEFINE leaves == runs[r].leaves
           x == [leaves |-> leaves, root |-> ComputeMerkleRoot(leaves), anchored |-> FALSE]
           new == [do |-> "index", tree |-> Len(trees) + 1, row |-> 1,
                   anchor |-> runs[r].anchor]
<1>1. /\ trees' = Append(trees, x) /\ Go(r, new) /\ runs[r].do = "tree"
      /\ UNCHANGED <<certs, counter, cut>>
  BY DEF InsertTree, Log, restVars
<1>2. PICK L, R : trees \in Seq(TreeRow(L, R))
  BY DEF CInv, IInv, TypeOK, TablesOK
<1>3. /\ x \in TreeRow(L \cup {leaves}, R \cup {x.root})
      /\ x.leaves = leaves /\ x.root = ComputeMerkleRoot(leaves)
  BY DEF TreeRow
<1>4. TreeRow(L, R) \subseteq TreeRow(L \cup {leaves}, R \cup {x.root})
  BY DEF TreeRow
<1>5. LeavesOf(leaves) /\ runs[r].anchor \in BOOLEAN
  BY <1>1 DEF CInv, CertsOK, CertRunOK
<1>6. 1 \in DOMAIN leaves
  BY <1>5 DEF LeavesOf
<1>7. /\ new.do = "index" /\ new.tree = Len(trees) + 1 /\ new.row = 1
      /\ new.tree \in Nat /\ runs[r].anchor \in BOOLEAN => new \in IndexRun
  BY DEF IndexRun
<1>8. runs'[r] = new /\ \A q \in Runner : q # r => runs'[q] = runs[q]
  BY <1>1, GoFacts DEF CInv
<1> HIDE DEF x, new, leaves
<1>9. trees \in Seq(TreeRow(L \cup {leaves}, R \cup {x.root}))
  BY <1>2, <1>4, WiderSeq
<1>10. /\ Len(trees) \in Nat /\ DOMAIN trees = 1 .. Len(trees)
       /\ DOMAIN trees' = 1 .. (Len(trees) + 1)
       /\ trees'[Len(trees) + 1] = x
       /\ \A k \in DOMAIN trees : trees'[k] = trees[k]
  BY <1>1, <1>3, <1>9, AppendFacts
<1>11. TreesGrow
  BY <1>10 DEF TreesGrow
<1>12. \A k \in DOMAIN trees' : k \notin DOMAIN trees => TreeOK(k)'
  <2>1. \A k \in DOMAIN trees' : k \notin DOMAIN trees => k = Len(trees) + 1
    BY <1>10
  <2>2. \E m \in 1 .. Len(certs') : leaves = [n \in 1 .. m |-> <<certs'[n].trade>>]
    BY <1>1, <1>5 DEF LeavesOf
  <2> QED
    BY <1>3, <1>10, <2>1, <2>2 DEF TreeOK, LeavesOf
<1>13. CertRunOK(runs[r])'
  <2>1. new \in IndexRun
    BY <1>5, <1>7, <1>10
  <2>2. trees'[new.tree].leaves = leaves /\ new.row \in DOMAIN leaves
    BY <1>3, <1>6, <1>7, <1>10
  <2> QED
    BY <1>7, <1>8, <2>1, <2>2 DEF CertRunOK
<1>14. \A m \in DOMAIN certs' : Placed(certs[m], m)'
  BY <1>1, <1>11 DEF Placed, CInv, CertsOK, TreesGrow
<1> QED
  BY <1>1, <1>7, <1>8, <1>11, <1>12, <1>13, <1>14, SameRows, QuietStep

LEMMA LeavesAreSeq ==
  ASSUME NEW leaves, LeavesOf(leaves), certs \in Seq(CertRow)
  PROVE  Len(leaves) \in 1 .. Len(certs) /\ DOMAIN leaves = 1 .. Len(leaves)
<1>1. PICK m \in 1 .. Len(certs) : leaves = [n \in 1 .. m |-> <<certs[n].trade>>]
  BY DEF LeavesOf
<1>2. m \in Nat /\ Len(certs) \in Nat
  BY LenProperties
<1>3. Len(leaves) = m /\ DOMAIN leaves = 1 .. m
  BY <1>1, <1>2
<1> QED
  BY <1>3

Indexed(c, k, l) == [c EXCEPT !.tree = k, !.leaf = l]

LEMMA IndexedRow ==
  ASSUME NEW c, NEW k, NEW l, c \in CertRow, k \in Nat, l \in Nat
  PROVE  /\ Indexed(c, k, l) \in CertRow
         /\ Indexed(c, k, l).trade = c.trade /\ Indexed(c, k, l).side = c.side
         /\ Indexed(c, k, l).tree = k /\ Indexed(c, k, l).leaf = l
<1> DEFINE x == [c EXCEPT !.tree = k]
           y == [x EXCEPT !.leaf = l]
<1>1. x \in CertRow /\ x.trade = c.trade /\ x.side = c.side /\ x.tree = k
  BY DEF CertRow
<1>2. Indexed(c, k, l) = y
  BY DEF Indexed
<1> HIDE DEF x
<1>3. y \in CertRow /\ y.trade = x.trade /\ y.side = x.side /\ y.tree = x.tree /\ y.leaf = l
  BY <1>1 DEF CertRow
<1> HIDE DEF y
<1> QED
  BY <1>1, <1>2, <1>3

\* A certificate gets the tree, and the leaf of the tree that is its own.
LEMMA IndexKeeps ==
  ASSUME CInv, IInv', NEW r \in Runner, IndexCertificate(r)
  PROVE  CInv'
<1> DEFINE j == runs[r]
           n == j.row
           x == Indexed(certs[n], j.tree, n - 1)
           next == [j EXCEPT !.row = n + 1]
<1>1. /\ IInv /\ certs \in Seq(CertRow)
      /\ j.do = "index" /\ CertRunOK(j) /\ j.tree \in DOMAIN trees
  BY DEF CInv, CertsOK, IndexCertificate, IInv, TypeOK, RunOK
<1>2. /\ j \in IndexRun /\ n \in DOMAIN trees[j.tree].leaves
      /\ LeavesOf(trees[j.tree].leaves)
  BY <1>1 DEF CertRunOK, CInv, CertsOK, TreeOK
<1>3. /\ Len(trees[j.tree].leaves) \in 1 .. Len(certs) /\ Len(certs) \in Nat
      /\ DOMAIN trees[j.tree].leaves = 1 .. Len(trees[j.tree].leaves)
      /\ DOMAIN certs = 1 .. Len(certs)
  BY <1>1, <1>2, LeavesAreSeq, LenProperties
<1>4. n \in DOMAIN certs /\ n \in Nat \ {0} /\ certs[n] \in CertRow
  BY <1>1, <1>2, <1>3 DEF IndexRun
<1>5. /\ x \in CertRow /\ x.trade = certs[n].trade /\ x.side = certs[n].side
      /\ x.tree = j.tree /\ x.leaf = n - 1
  <2>1. j.tree \in Nat /\ n - 1 \in Nat
    BY <1>2, <1>4 DEF IndexRun
  <2> QED
    BY <1>4, <2>1, IndexedRow
<1>6. certs' = [certs EXCEPT ![n] = x]
  BY <1>1, <1>4 DEF IndexCertificate, Indexed
<1>7. UNCHANGED <<counter, trees, cut>>
  BY DEF IndexCertificate, treeVars, restVars
<1>8. \/ /\ n < Len(trees[j.tree].leaves) /\ Go(r, next)
      \/ Go(r, [do |-> "anchor", left |-> {j.tree}])
      \/ Go(r, Resting)
  BY DEF IndexCertificate
<1>9. next.do = "index" /\ next \in IndexRun /\ next.tree = j.tree /\ next.row = n + 1
  BY <1>1, <1>2, <1>4 DEF IndexRun
<1> HIDE DEF x, next
<1>10. certs' \in Seq(CertRow) /\ DOMAIN certs' = DOMAIN certs
  BY <1>1, <1>4, <1>5, <1>6, ExceptSeq
<1>11. certs'[n] = x /\ \A m \in DOMAIN certs : m # n => certs'[m] = certs[m]
  BY <1>1, <1>4, <1>6
<1>12. SameCerts
  BY <1>5, <1>10, <1>11 DEF SameCerts, CertsGrow
<1>13. \A m \in DOMAIN certs' : Placed(certs[m], m)'
  BY <1>1, <1>2, <1>5, <1>7, <1>10, <1>11 DEF CInv, CertsOK, Placed
<1>14. /\ runs'[r].do # "issue" /\ CertRunOK(runs[r])'
       /\ \A q \in Runner : q # r => runs'[q] = runs[q]
  <2>1. CASE n < Len(trees[j.tree].leaves) /\ Go(r, next)
    <3>1. runs'[r] = next /\ \A q \in Runner : q # r => runs'[q] = runs[q]
      BY <1>1, <2>1, GoFacts
    <3>2. n + 1 \in DOMAIN trees[j.tree].leaves
      BY <1>3, <1>4, <2>1
    <3> QED
      BY <1>7, <1>9, <3>1, <3>2 DEF CertRunOK
  <2>2. CASE Go(r, [do |-> "anchor", left |-> {j.tree}])
    <3>1. /\ runs'[r] = [do |-> "anchor", left |-> {j.tree}]
          /\ \A q \in Runner : q # r => runs'[q] = runs[q]
      BY <1>1, <2>2, GoFacts
    <3> QED
      BY <3>1 DEF CertRunOK
  <2>3. CASE Go(r, Resting)
    <3>1. runs'[r] = Resting /\ \A q \in Runner : q # r => runs'[q] = runs[q]
      BY <1>1, <2>3, GoFacts
    <3> QED
      BY <3>1 DEF CertRunOK, Resting
  <2> QED
    BY <1>8, <2>1, <2>2, <2>3
<1>15. TreesGrow
  BY <1>7 DEF TreesGrow
<1> QED
  BY <1>1, <1>7, <1>12, <1>13, <1>14, <1>15, QuietStep

\* What there is of another trade's certificates is not touched.
LEMMA OtherTrade ==
  ASSUME CInv, NEW t \in Verified, PairOK(t),
         Issued(t)' = Issued(t), Issuing(t)' = Issuing(t),
         \A n \in Issued(t) : certs'[n].side = certs[n].side,
         \A q \in Issuing(t) : runs'[q] = runs[q]
  PROVE  PairOK(t)'
<1>1. (Single(t) => Single(t)') /\ (Couple(t) => Couple(t)')
  BY DEF Single, Couple
<1> QED
  BY <1>1 DEF PairOK

\* A message begins where there is no certificate yet.
LEMMA TradeVerifiedKeeps ==
  ASSUME CInv, IInv', NEW r \in Runner, NEW t \in Verified, TradeVerified(r, t)
  PROVE  CInv'
<1> DEFINE new == [do |-> "issue", trade |-> t, side |-> 1, number |-> counter + 1]
<1>1. /\ IInv /\ certs \in Seq(CertRow) /\ counter \in Nat
      /\ \A u \in Verified \ cut : PairOK(u)
      /\ \A n \in DOMAIN certs : Placed(certs[n], n)
  BY DEF CInv, CertsOK
<1>2. /\ Issued(t) = {} /\ Go(r, new) /\ runs[r].do = "none" /\ counter' = counter + 1
      /\ cut' = (IF Issuing(t) = {} THEN cut ELSE cut \cup {t})
      /\ UNCHANGED <<certs, trees>>
  BY DEF TradeVerified, IssueFirst, Begin, Go, Resting, treeVars
<1>3. runs'[r] = new /\ \A q \in Runner : q # r => runs'[q] = runs[q]
  BY <1>1, <1>2, GoFacts
<1>4. new \in IssueRun /\ new.do = "issue" /\ new.trade = t /\ new.side = 1
  BY <1>1 DEF IssueRun
<1> HIDE DEF new
<1>5. CertsOK'
  <2>1. CertRunOK(runs[r])'
    BY <1>3, <1>4 DEF CertRunOK
  <2>2. \A n \in DOMAIN certs' : Placed(certs[n], n)'
    BY <1>1, <1>2 DEF Placed
  <2>3. TreesGrow /\ SameCerts
    BY <1>2, SameRows DEF TreesGrow
  <2> QED
    BY <1>1, <1>2, <1>3, <2>1, <2>2, <2>3, CertsStep DEF SameCerts
<1>6. ASSUME NEW u \in Verified \ cut' PROVE PairOK(u)'
  <2>1. Issued(u)' = Issued(u) /\ PairOK(u)
    BY <1>1, <1>2 DEF Issued
  <2>2. CASE u # t
    <3>1. Issuing(u)' = Issuing(u) /\ \A q \in Issuing(u) : runs'[q] = runs[q]
      BY <1>2, <1>3, <1>4, <2>2 DEF Issuing
    <3> QED
      BY <1>2, <2>1, <3>1, OtherTrade
  <2>3. CASE u = t
    <3>1. Issuing(t) = {}
      BY <1>2, <2>3
    <3>2. Issuing(t)' = {r}
      BY <1>3, <1>4, <3>1 DEF Issuing
    <3> QED
      BY <1>2, <1>3, <1>4, <2>1, <2>3, <3>2 DEF PairOK
  <2> QED
    BY <2>2, <2>3
<1> QED
  BY <1>5, <1>6 DEF CInv

\* An execution that stops issuing without a row leaves no pair half done but
\* one that is set aside.
LEMMA StopKeeps ==
  ASSUME CInv, IInv', NEW r \in Runner, runs[r].do = "issue", Go(r, Resting),
         UNCHANGED <<certs, counter, trees>>, cut \subseteq cut',
         runs[r].side = 2 => runs[r].trade \in cut'
  PROVE  CInv'
<1>1. /\ IInv /\ certs \in Seq(CertRow) /\ counter \in Nat
      /\ \A u \in Verified \ cut : PairOK(u)
      /\ \A n \in DOMAIN certs : Placed(certs[n], n)
      /\ runs[r].side \in {1, 2}
  BY DEF CInv, CertsOK, CertRunOK, IssueRun
<1>2. runs'[r] = Resting /\ \A q \in Runner : q # r => runs'[q] = runs[q]
  BY <1>1, GoFacts
<1>3. CertsOK'
  <2>1. CertRunOK(runs[r])'
    BY <1>2 DEF CertRunOK, Resting
  <2>2. \A n \in DOMAIN certs' : Placed(certs[n], n)'
    BY <1>1 DEF Placed
  <2>3. TreesGrow /\ SameCerts
    BY SameRows DEF TreesGrow
  <2> QED
    BY <1>1, <1>2, <2>1, <2>2, <2>3, CertsStep DEF SameCerts
<1>4. ASSUME NEW u \in Verified \ cut' PROVE PairOK(u)'
  <2>1. Issued(u)' = Issued(u) /\ PairOK(u)
    BY <1>1 DEF Issued
  <2>2. Issuing(u)' = Issuing(u) \ {r}
    BY <1>2 DEF Issuing, Resting
  <2>3. CASE r \notin Issuing(u)
    BY <1>2, <2>1, <2>2, <2>3, OtherTrade DEF Issuing
  <2>4. CASE r \in Issuing(u)
    <3>1. Issued(u) = {}
      BY <1>1, <2>1, <2>4 DEF PairOK, Issuing
    <3>2. Issuing(u)' = {}
      BY <2>1, <2>2, <2>4 DEF PairOK
    <3> QED
      BY <2>1, <3>1, <3>2 DEF PairOK
  <2> QED
    BY <2>3, <2>4
<1> QED
  BY <1>3, <1>4 DEF CInv

\* The first certificate of a pair is followed by the second one.
LEMMA IssueKeeps ==
  ASSUME CInv, IInv', NEW r \in Runner, IssueCertificate(r)
  PROVE  CInv'
<1> DEFINE j == runs[r]
           t == j.trade
           new == [number |-> j.number, trade |-> j.trade, side |-> j.side,
                   status |-> "active", tree |-> 0, leaf |-> 0]
           then == [j EXCEPT !.side = 2, !.number = counter + 1]
           last == Len(certs) + 1
<1>1. /\ IInv /\ certs \in Seq(CertRow) /\ counter \in Nat
      /\ \A u \in Verified \ cut : PairOK(u)
      /\ \A n \in DOMAIN certs : Placed(certs[n], n)
      /\ j.do = "issue" /\ j \in IssueRun
      /\ UNCHANGED trees
  BY DEF CInv, CertsOK, CertRunOK, IssueCertificate, treeVars
<1>2. new \in CertRow /\ new.trade = t /\ new.side = j.side /\ new.tree = 0
  BY <1>1 DEF IssueRun, CertRow
<1>3. CASE j.number \in Numbers
  <2>1. /\ Go(r, Resting) /\ UNCHANGED <<certs, counter>>
        /\ cut' = IF j.side = 2 THEN cut \cup {t} ELSE cut
    BY <1>3 DEF IssueCertificate
  <2> QED
    BY <1>1, <2>1, StopKeeps
<1>4. CASE j.number \notin Numbers
  <2>1. /\ certs' = Append(certs, new) /\ UNCHANGED cut
        /\ \/ j.side = 1 /\ counter' = counter + 1 /\ Go(r, then)
           \/ j.side = 2 /\ UNCHANGED counter /\ Go(r, Resting)
    BY <1>4 DEF IssueCertificate, Log
  <2>2. then \in IssueRun /\ then.do = "issue" /\ then.trade = t /\ then.side = 2
    <3> DEFINE half == [j EXCEPT !.side = 2]
    <3>1. half \in IssueRun /\ half.trade = t /\ half.side = 2
      BY <1>1 DEF IssueRun
    <3>2. then = [half EXCEPT !.number = counter + 1]
      OBVIOUS
    <3> HIDE DEF half, then
    <3> QED
      BY <1>1, <3>1, <3>2 DEF IssueRun
  <2> HIDE DEF new, then
  <2>3. /\ certs' \in Seq(CertRow) /\ Len(certs) \in Nat /\ DOMAIN certs = 1 .. Len(certs)
        /\ DOMAIN certs' = 1 .. last /\ certs'[last] = new
        /\ \A n \in DOMAIN certs : certs'[n] = certs[n]
    BY <1>1, <1>2, <2>1, AppendFacts
  <2>4. CertsGrow /\ TreesGrow
    BY <1>1, <2>3 DEF CertsGrow, TreesGrow
  <2>5. \A n \in DOMAIN certs' : Placed(certs[n], n)'
    <3>1. \A n \in DOMAIN certs' : n \in DOMAIN certs \/ n = last
      BY <2>3
    <3> QED
      BY <1>1, <1>2, <2>3, <3>1 DEF Placed
  <2>6. \/ j.side = 1 /\ counter' = counter + 1 /\ runs'[r] = then
        \/ j.side = 2 /\ counter' = counter /\ runs'[r] = Resting
    BY <1>1, <2>1, GoFacts
  <2>7. \A q \in Runner : q # r => runs'[q] = runs[q]
    BY <1>1, <2>1, GoFacts
  <2>8. CertsOK'
    <3>1. CertRunOK(runs[r])'
      BY <2>2, <2>6 DEF CertRunOK, Resting
    <3> QED
      BY <1>1, <2>4, <2>5, <2>6, <2>7, <3>1, CertsStep
  <2>9. ASSUME NEW u \in Verified \ cut' PROVE PairOK(u)'
    <3>1. PairOK(u) /\ Issued(u) \subseteq DOMAIN certs
      BY <1>1, <2>1, <2>9 DEF Issued
    <3>2. CASE u # t
      <4>1. Issued(u)' = Issued(u)
        BY <1>2, <2>3, <3>2 DEF Issued
      <4>2. Issuing(u)' = Issuing(u)
        BY <1>1, <2>2, <2>6, <2>7, <3>2 DEF Issuing, Resting
      <4>3. \A q \in Issuing(u) : runs'[q] = runs[q]
        BY <2>7, <3>2 DEF Issuing
      <4> QED
        BY <2>3, <2>9, <3>1, <4>1, <4>2, <4>3, OtherTrade
    <3>3. CASE u = t
      <4>1. r \in Issuing(u) /\ \A q \in Issuing(u) : q = r
        BY <1>1, <3>1, <3>3 DEF Issuing, PairOK
      <4>2. Issued(u)' = Issued(u) \cup {last} /\ certs'[last].side = j.side
        BY <1>2, <2>3, <3>3 DEF Issued
      <4>3. CASE j.side = 1
        <5>1. Issued(u)' = {last} /\ Issuing(u)' = {r} /\ runs'[r].side = 2
          BY <2>2, <2>6, <2>7, <3>1, <3>3, <4>1, <4>2, <4>3 DEF PairOK, Issuing
        <5> QED
          BY <4>2, <4>3, <5>1 DEF PairOK, Single
      <4>4. CASE j.side = 2
        <5>1. PICK a : Issued(u) = {a} /\ certs[a].side = 1
          BY <3>1, <4>1, <4>4 DEF PairOK, Single
        <5>2. certs'[a].side = 1 /\ Issued(u)' = {a, last} /\ certs'[last].side = 2
          BY <2>3, <3>1, <4>2, <4>4, <5>1
        <5>3. Issuing(u)' = {}
          BY <2>6, <2>7, <4>1, <4>4 DEF Issuing, Resting
        <5> QED
          BY <5>2, <5>3 DEF PairOK, Couple
      <4> QED
        BY <1>1, <4>3, <4>4 DEF IssueRun
    <3> QED
      BY <3>2, <3>3
  <2> QED
    BY <2>8, <2>9 DEF CInv
<1> QED
  BY <1>3, <1>4

\* A failure stops an execution, or turns it to noting the failure.
LEMMA FaultStops ==
  ASSUME CInv, IInv', NEW r \in Runner, Fault(r)
  PROVE  CInv'
<1>1. IInv /\ UNCHANGED <<certs, counter, trees>>
  BY DEF CInv, Fault
<1>2. cut \subseteq cut' /\ TreesGrow
  BY <1>1 DEF Fault, TreesGrow
<1>3. CASE runs[r].do = "issue"
  <2>1. /\ Go(r, Resting)
        /\ cut' = IF runs[r].side = 2 THEN cut \cup {runs[r].trade} ELSE cut
    BY <1>3 DEF Fault
  <2> QED
    BY <1>1, <1>3, <2>1, StopKeeps
<1>4. CASE runs[r].do # "issue"
  <2>1. \E new : Go(r, new) /\ new.do \notin {"issue", "save", "tree", "index"}
    <3>1. CASE runs[r].do \in {"send", "confirm", "mark", "announce"}
      <4>1. Step(r, "fail") /\ runs[r].do \in Anchoring
        BY <3>1 DEF Fault, Anchoring
      <4>2. runs[r] \in AnchorRun
        BY <1>1, <4>1 DEF IInv, TypeOK, RunOK
      <4>3. [runs[r] EXCEPT !.do = "fail"].do = "fail"
        BY <4>2 DEF AnchorRun
      <4> QED
        BY <4>1, <4>3 DEF Step
    <3>2. CASE runs[r].do \notin {"send", "confirm", "mark", "announce"}
      <4>1. Go(r, Resting) \/ \E left : Go(r, NextOf(left))
        BY <3>2 DEF Fault
      <4>2. Resting.do = "none" /\ \A left : NextOf(left).do \in {"none", "anchor"}
        BY DEF NextOf, Resting
      <4> QED
        BY <4>1, <4>2
    <3> QED
      BY <3>1, <3>2
  <2>2. /\ runs'[r].do \notin {"issue", "save", "tree", "index"}
        /\ \A q \in Runner : q # r => runs'[q] = runs[q]
    BY <1>1, <2>1, GoFacts
  <2> QED
    BY <1>1, <1>2, <1>4, <2>2, IdleStep
<1> QED
  BY <1>3, <1>4

\* A restart forgets who was issuing, and sets the halves aside.
LEMMA RestartSetsAside ==
  ASSUME CInv, IInv', Restart
  PROVE  CInv'
<1>1. /\ certs \in Seq(CertRow) /\ counter \in Nat
      /\ \A u \in Verified \ cut : PairOK(u)
      /\ \A n \in DOMAIN certs : Placed(certs[n], n)
      /\ \A k \in DOMAIN trees : TreeOK(k)
  BY DEF CInv, CertsOK
<1>2. /\ runs' = [r \in Runner |-> Resting] /\ UNCHANGED <<certs, trees>>
      /\ counter' = (IF certs = <<>> THEN 0 ELSE certs[Len(certs)].number)
      /\ cut' = cut \cup {t \in Verified : \E r \in Issuing(t) : runs[r].side = 2}
  BY DEF Restart, treeVars
<1>3. counter' \in Nat
  <2>1. CASE certs # <<>>
    <3>1. DOMAIN certs = 1 .. Len(certs) /\ Len(certs) \in Nat /\ Len(certs) # 0
      BY <1>1, <2>1, LenProperties, EmptySeq
    <3>2. certs[Len(certs)] \in CertRow
      BY <1>1, <3>1
    <3> QED
      BY <1>2, <2>1, <3>2 DEF CertRow
  <2> QED
    BY <1>2, <2>1
<1>4. \A r \in Runner : runs'[r].do = "none"
  BY <1>2 DEF Resting
<1>5. CertsOK'
  <2>1. \A r \in Runner : CertRunOK(runs[r])'
    BY <1>4 DEF CertRunOK
  <2>2. \A n \in DOMAIN certs' : Placed(certs[n], n)'
    BY <1>1, <1>2 DEF Placed
  <2>3. \A k \in DOMAIN trees' : TreeOK(k)'
    <3>1. CertsGrow
      BY <1>2, SameRows DEF SameCerts
    <3>2. \A k \in DOMAIN trees : \E m \in 1 .. Len(certs') :
            trees[k].leaves = [n \in 1 .. m |-> <<certs'[n].trade>>]
      BY <1>1, <3>1, LeavesStay DEF TreeOK
    <3> QED
      BY <1>1, <1>2, <3>2 DEF TreeOK, LeavesOf
  <2> QED
    BY <1>1, <1>2, <1>3, <2>1, <2>2, <2>3 DEF CertsOK
<1>6. ASSUME NEW u \in Verified \ cut' PROVE PairOK(u)'
  <2>1. PairOK(u) /\ Issued(u)' = Issued(u) /\ Issuing(u)' = {}
    BY <1>1, <1>2, <1>4 DEF Issued, Issuing
  <2>2. \A r \in Issuing(u) : runs[r].side = 1
    <3>1. \A r \in Issuing(u) : runs[r].side \in {1, 2}
      BY DEF CInv, CertsOK, CertRunOK, Issuing, IssueRun
    <3> QED
      BY <1>2, <1>6, <3>1
  <2>3. Issued(u) = {} \/ Couple(u)
    BY <2>1, <2>2 DEF PairOK
  <2>4. Couple(u) => Couple(u)'
    BY <1>2, <2>1 DEF Couple
  <2> QED
    BY <2>1, <2>3, <2>4 DEF PairOK
<1> QED
  BY <1>5, <1>6 DEF CInv

LEMMA InitiallyPaired == CertificatesInit => CInv
<1> SUFFICES ASSUME CertificatesInit PROVE CInv
  OBVIOUS
<1>1. /\ certs = <<>> /\ counter = 0 /\ trees = <<>> /\ cut = {}
      /\ \A r \in Runner : runs[r].do = "none"
  BY DEF CertificatesInit, Resting
<1>2. CertsOK
  BY <1>1 DEF CertsOK, CertRunOK
<1>3. \A t \in Verified \ cut : PairOK(t)
  BY <1>1 DEF PairOK, Issued, Issuing
<1> QED
  BY <1>2, <1>3, Initially DEF CInv

LEMMA PairedStep == CInv /\ [CertificatesNext]_certificatesVars => CInv'
<1> SUFFICES ASSUME CInv, [CertificatesNext]_certificatesVars PROVE CInv'
  OBVIOUS
<1>1. IInv'
  BY StepKeeps DEF CInv
<1>2. CASE UNCHANGED certificatesVars
  <2>1. UNCHANGED <<certs, counter, trees, runs, cut>>
    BY <1>2 DEF certificatesVars, treeVars, restVars
  <2>2. CertsOK' = CertsOK
    BY <2>1 DEF CertsOK, CertRunOK, Placed, TreeOK, LeavesOf
  <2>3. \A t : PairOK(t)' = PairOK(t)
    BY <2>1 DEF PairOK, Issued, Issuing, Single, Couple
  <2> QED
    BY <1>1, <2>1, <2>2, <2>3 DEF CInv
<1>3. CASE Restart
  BY <1>1, <1>3, RestartSetsAside
<1>4. ASSUME NEW r \in Runner,
             \/ \E t \in Verified : TradeVerified(r, t)
             \/ IssueCertificate(r) \/ Fault(r)
      PROVE  CInv'
  BY <1>1, <1>4, TradeVerifiedKeeps, IssueKeeps, FaultStops
<1>5. ASSUME NEW r \in Runner,
             \/ \E n \in DOMAIN certs, to \in {"transferred", "revoked"} :
                  ChangeCertificate(r, n, to)
             \/ SaveCertificate(r)
             \/ \E anchor \in BOOLEAN : BuildDailyMerkleTree(r, anchor)
             \/ InsertTree(r) \/ IndexCertificate(r)
      PROVE  CInv'
  BY <1>1, <1>5, ChangeKeeps, SaveKeeps, BuildKeeps, InsertTreeIsTree, IndexKeeps
<1>6. ASSUME NEW r \in Runner,
             \/ AnchorPendingTrees(r) \/ InsertAnchor(r) \/ SendRoot(r) \/ ConfirmAnchor(r)
             \/ MarkAnchored(r) \/ PublishAnchored(r) \/ FailAnchor(r)
      PROVE  CInv'
  BY <1>1, <1>6, AnchoringIdles, MarkIdles
<1> QED
  BY <1>2, <1>3, <1>4, <1>5, <1>6
     DEF CertificatesNext, IssuingNext, AnchoringNext, FailingNext

\* handleTradeVerified (certificates.service.ts) leaves no trade with one
\* certificate, with three, or with two for one party, whatever numbers
\* collide and whoever saves an outdated copy, for any number of trades,
\* executions and restarts, unless two deliveries overlapped or one failed
\* half way.
THEOREM PairsAreIssued == CertificatesSpec => []IssuedInPairs
<1>1. CertificatesInit => CInv
  BY InitiallyPaired
<1>2. CInv /\ [CertificatesNext]_certificatesVars => CInv'
  BY PairedStep
<1>3. CInv => IssuedInPairs
  <2> SUFFICES ASSUME CInv, NEW t \in Verified \ cut, Issuing(t) = {}
               PROVE  /\ Cardinality(Issued(t)) \in {0, 2}
                      /\ Cardinality({certs[n].side : n \in Issued(t)}) = Cardinality(Issued(t))
    BY DEF IssuedInPairs
  <2>1. Issued(t) = {} \/ Couple(t)
    BY DEF CInv, PairOK
  <2>2. \A a, b : a # b => Cardinality({a, b}) = 2
    <3> SUFFICES ASSUME NEW a, NEW b, a # b PROVE Cardinality({a, b}) = 2
      OBVIOUS
    <3>1. Cardinality({a}) = 1 /\ IsFiniteSet({a})
      BY FS_Singleton
    <3>2. {a, b} = {a} \cup {b} /\ b \notin {a}
      OBVIOUS
    <3> QED
      BY <3>1, <3>2, FS_AddElement
  <2>3. CASE Issued(t) = {}
    <3>1. {certs[n].side : n \in Issued(t)} = {}
      BY <2>3
    <3> QED
      BY <2>3, <3>1, FS_EmptySet
  <2>4. CASE Couple(t)
    <3>1. PICK a, b : Issued(t) = {a, b} /\ certs[a].side = 1 /\ certs[b].side = 2
      BY <2>4 DEF Couple
    <3>2. {certs[n].side : n \in Issued(t)} = {1, 2} /\ a # b
      BY <3>1
    <3>3. Cardinality({a, b}) = 2 /\ Cardinality({1, 2}) = 2
      <4>1. PICK one, two : one = 1 /\ two = 2
        OBVIOUS
      <4>2. one # two
        BY <4>1
      <4>3. Cardinality({one, two}) = 2
        BY <2>2, <4>2
      <4> QED
        BY <2>2, <3>2, <4>1, <4>3
    <3>4. Cardinality(Issued(t)) = 2
      BY <3>1, <3>3
    <3>5. Cardinality({certs[n].side : n \in Issued(t)}) = 2
      BY <3>2, <3>3
    <3> QED
      BY <3>4, <3>5
  <2> QED
    BY <2>1, <2>3, <2>4
<1> QED
  BY <1>1, <1>2, <1>3, PTL DEF CertificatesSpec

(***************************************************************************)
(* The pure part of a Merkle proof, for every number of leaves.            *)
(***************************************************************************)

\* Induction on natural numbers, over a set instead of an operator: the least
\* number that is not in the set has a predecessor that is.
LEMMA SetInduction ==
  ASSUME NEW S, 0 \in S, \A n \in Nat : n \in S => n + 1 \in S
  PROVE  \A n \in Nat : n \in S
<1> DEFINE T == Nat \ S
           R == {ss \in Nat \X Nat : ss[1] < ss[2]}
<1>1. SUFFICES ASSUME T # {} PROVE FALSE
  OBVIOUS
<1>2. IsWellFoundedOn(R, Nat)
  BY NatLessThanWellFounded DEF OpToRel
<1>3. PICK x \in T : \A y \in T : ~(<<y, x>> \in R)
  <2> HIDE DEF R
  <2> QED  BY <1>1, <1>2, WFMin
<1>4. x # 0 /\ x - 1 \in Nat
  OBVIOUS
<1>5. <<x - 1, x>> \in R
  BY <1>4
<1>6. x - 1 \in S
  BY <1>3, <1>4, <1>5
<1>7. x - 1 + 1 \in S
  BY <1>4, <1>6
<1> QED  BY <1>4, <1>7

\* The values of a loop that starts with a and does F[n] in its round n.
Runs(g, a, N, F) == g[0] = a /\ \A n \in 1 .. N : g[n] = F[n][g[n - 1]]

\* A loop over D has values after every round.
LEMMA LoopExists ==
  ASSUME NEW D, NEW a \in D, NEW N \in Nat, NEW F \in [1 .. N -> [D -> D]]
  PROVE  \E g \in [0 .. N -> D] : Runs(g, a, N, F)
<1> DEFINE Upto(g, k) == g[0] = a /\ \A n \in 1 .. k : g[n] = F[n][g[n - 1]]
           S == {k \in Nat : k <= N => \E g \in [0 .. k -> D] : Upto(g, k)}
<1>1. 0 \in S
  <2> DEFINE g == [n \in 0 .. 0 |-> a]
  <2>1. g \in [0 .. 0 -> D] /\ Upto(g, 0)
    OBVIOUS
  <2> HIDE DEF g
  <2> QED  BY <2>1
<1>2. ASSUME NEW k \in Nat, k \in S PROVE k + 1 \in S
  <2> SUFFICES ASSUME k + 1 <= N PROVE \E g \in [0 .. k + 1 -> D] : Upto(g, k + 1)
    OBVIOUS
  <2>1. PICK g \in [0 .. k -> D] : Upto(g, k)
    BY <1>2
  <2> DEFINE h == [n \in 0 .. k + 1 |-> IF n <= k THEN g[n] ELSE F[k + 1][g[k]]]
  <2>2. F[k + 1] \in [D -> D] /\ g[k] \in D
    BY <2>1
  <2>3. h \in [0 .. k + 1 -> D]
    BY <2>1, <2>2
  <2>4. \A n \in 0 .. k : h[n] = g[n]
    OBVIOUS
  <2>5. h[k + 1] = F[k + 1][g[k]]
    OBVIOUS
  <2> HIDE DEF h
  <2>6. \A n \in 1 .. k + 1 : h[n] = F[n][h[n - 1]]
    <3> SUFFICES ASSUME NEW n \in 1 .. k + 1 PROVE h[n] = F[n][h[n - 1]]
      OBVIOUS
    <3>1. CASE n = k + 1
      BY <2>4, <2>5, <3>1
    <3>2. CASE n # k + 1
      BY <2>1, <2>4, <3>2
    <3> QED  BY <3>1, <3>2
  <2>7. h[0] = a
    BY <2>1, <2>4
  <2> QED  BY <2>3, <2>6, <2>7
<1> HIDE DEF S
<1>3. N \in S
  BY <1>1, <1>2, SetInduction
<1> QED  BY <1>3 DEF S, Runs

\* The hashes over a set of leaves, and the levels of a tree.
Digest(T) == Seq(T \cup {"(", ")"})
Level(T) == Seq(Digest(T)) \ {<<>>}

\* hashPair keeps within the hashes.
LEMMA HashIsDigest ==
  ASSUME NEW T, NEW left \in Digest(T), NEW right \in Digest(T)
  PROVE  Hash(left, right) \in Digest(T)
<1>1. <<"(">> \in Digest(T) /\ <<")">> \in Digest(T)
  BY DEF Digest
<1>2. <<"(">> \o left \in Digest(T)
  BY <1>1, ConcatProperties DEF Digest
<1>3. <<"(">> \o left \o right \in Digest(T)
  BY <1>2, ConcatProperties DEF Digest
<1> QED  BY <1>1, <1>3, ConcatProperties DEF Digest, Hash

\* The round of a level.
LEMMA NextLevelFacts ==
  ASSUME NEW T, NEW level \in Level(T)
  PROVE  /\ NextLevel(level) \in Level(T)
         /\ Len(NextLevel(level)) = (Len(level) + 1) \div 2
         /\ \A n \in 1 .. (Len(level) + 1) \div 2 :
              NextLevel(level)[n] = Hash(level[2 * n - 1], Right(level, 2 * n - 1))
<1> DEFINE k == (Len(level) + 1) \div 2
           next == NextLevel(level)
<1>1. Len(level) \in Nat \ {0} /\ \A n \in 1 .. Len(level) : level[n] \in Digest(T)
  BY EmptySeq, ElementOfSeq DEF Level
<1>2. k \in Nat \ {0} /\ 2 * k <= Len(level) + 1
  BY <1>1
<1>3. ASSUME NEW n \in 1 .. k
      PROVE  Hash(level[2 * n - 1], Right(level, 2 * n - 1)) \in Digest(T)
  <2>1. 2 * n - 1 \in 1 .. Len(level)
    BY <1>1, <1>2
  <2>2. Right(level, 2 * n - 1) \in Digest(T)
    BY <1>1, <2>1 DEF Right
  <2> QED  BY <1>1, <2>1, <2>2, HashIsDigest
<1> HIDE DEF k
<1>4. next = [n \in 1 .. k |-> Hash(level[2 * n - 1], Right(level, 2 * n - 1))]
  BY DEF NextLevel, k
<1> HIDE DEF next
<1>5. next \in [1 .. k -> Digest(T)]
  BY <1>3, <1>4
<1>6. next \in Seq(Digest(T))
  BY <1>2, <1>5, SeqDef
<1>7. DOMAIN next = 1 .. k
  BY <1>5
<1>8. Len(next) = k
  BY <1>2, <1>6, <1>7, LenProperties
<1>9. next # <<>>
  BY <1>2, <1>8, EmptySeq
<1> QED  BY <1>4, <1>6, <1>8, <1>9 DEF Level, next, k

\* The loop of computeMerkleRoot (merkle.service.ts) goes up a round a time.
LEMMA LevelsSolve ==
  ASSUME NEW T, NEW leaves \in Level(T)
  PROVE  /\ Levels(leaves) \in [0 .. Len(leaves) -> Level(T)]
         /\ Levels(leaves)[0] = leaves
         /\ \A n \in 1 .. Len(leaves) : Levels(leaves)[n] = Above(Levels(leaves)[n - 1])
<1> DEFINE N == Len(leaves)
           Eq(g) == g = [n \in 0 .. N |-> IF n = 0 THEN leaves ELSE Above(g[n - 1])]
           F == [n \in 1 .. N |-> [level \in Level(T) |-> Above(level)]]
           up == Levels(leaves)
<1>1. N \in Nat
  BY LenProperties DEF Level
<1>2. \A level \in Level(T) : Above(level) \in Level(T)
  BY NextLevelFacts DEF Above
<1>3. /\ F \in [1 .. N -> [Level(T) -> Level(T)]]
      /\ \A n \in 1 .. N : \A level \in Level(T) : F[n][level] = Above(level)
  BY <1>2
<1>4. up = CHOOSE g : Eq(g)
  BY DEF Levels
<1> HIDE DEF F, N, up
<1>5. PICK g \in [0 .. N -> Level(T)] : Runs(g, leaves, N, F)
  BY <1>1, <1>3, LoopExists
<1>6. \A n \in 1 .. N : g[n - 1] \in Level(T)
  BY <1>1, <1>5
<1>7. \A n \in 1 .. N : g[n] = Above(g[n - 1])
  BY <1>3, <1>5, <1>6 DEF Runs
<1>8. Eq(g)
  BY <1>1, <1>5, <1>7 DEF Runs
<1>9. Eq(up)
  <2> HIDE DEF Eq
  <2> QED  BY <1>4, <1>8
<1>10. up[0] = leaves /\ \A n \in 1 .. N : up[n] = Above(up[n - 1])
  BY <1>1, <1>9
<1>11. up \in [0 .. N -> Level(T)]
  <2> DEFINE S == {n \in Nat : n <= N => up[n] \in Level(T)}
  <2>1. 0 \in S
    BY <1>10
  <2>2. ASSUME NEW n \in Nat, n \in S PROVE n + 1 \in S
    BY <1>1, <1>2, <1>10, <2>2
  <2> HIDE DEF S
  <2>3. \A n \in Nat : n \in S
    BY <2>1, <2>2, SetInduction
  <2>4. \A n \in 0 .. N : up[n] \in Level(T)
    BY <1>1, <2>3 DEF S
  <2>5. DOMAIN up = 0 .. N /\ up = [n \in 0 .. N |-> up[n]]
    BY <1>9
  <2> QED  BY <2>4, <2>5
<1> QED  BY <1>10, <1>11 DEF N, up

\* A level has at most half as many digests as the one below, rounded up, so
\* after as many rounds as there are leaves one digest is left.
LEMMA LevelsShrink ==
  ASSUME NEW T, NEW leaves \in Level(T)
  PROVE  Len(Levels(leaves)[Len(leaves)]) = 1
<1> DEFINE N == Len(leaves)
           up == Levels(leaves)
           S == {n \in Nat : n <= N => Len(up[n]) = 1 \/ Len(up[n]) + n <= N}
<1>1. N \in Nat /\ \A level \in Level(T) : Len(level) \in Nat \ {0}
  BY EmptySeq DEF Level
<1>2. /\ up \in [0 .. N -> Level(T)] /\ up[0] = leaves
      /\ \A n \in 1 .. N : up[n] = Above(up[n - 1])
  BY LevelsSolve
<1> HIDE DEF up
<1>3. 0 \in S
  BY <1>1, <1>2
<1>4. ASSUME NEW n \in Nat, n \in S PROVE n + 1 \in S
  <2> SUFFICES ASSUME n + 1 <= N
               PROVE  Len(up[n + 1]) = 1 \/ Len(up[n + 1]) + n + 1 <= N
    BY <1>1
  <2>1. up[n] \in Level(T) /\ up[n + 1] = Above(up[n])
    BY <1>1, <1>2
  <2>2. CASE Len(up[n]) = 1
    BY <2>1, <2>2 DEF Above
  <2>3. CASE Len(up[n]) # 1
    <3>1. Len(up[n + 1]) = (Len(up[n]) + 1) \div 2
      BY <2>1, <2>3, NextLevelFacts DEF Above
    <3>2. Len(up[n]) = 1 \/ Len(up[n]) + n <= N
      BY <1>1, <1>4
    <3>3. Len(up[n]) \in Nat \ {0, 1} /\ Len(up[n]) + n <= N
      BY <1>1, <2>1, <2>3, <3>2
    <3> DEFINE l == Len(up[n])
    <3> HIDE DEF N, l
    <3>4. \A m \in Nat \ {0, 1} : (m + 1) \div 2 \in Nat /\ (m + 1) \div 2 <= m - 1
      OBVIOUS
    <3>5. l \in Nat \ {0, 1} /\ l + n <= N /\ Len(up[n + 1]) = (l + 1) \div 2
      BY <3>1, <3>3 DEF l
    <3> QED  BY <1>1, <3>4, <3>5
  <2> QED  BY <2>2, <2>3
<1> HIDE DEF S
<1>5. N \in S
  BY <1>1, <1>3, <1>4, SetInduction
<1>6. up[N] \in Level(T)
  BY <1>1, <1>2
<1> QED  BY <1>1, <1>5, <1>6 DEF S, up

\* A step of a path.
ProofStep(T) == [hash : Digest(T), direction : {"left", "right"}]

\* What a path proves is found step by step, whichever way it is written.
LEMMA RootIs ==
  ASSUME NEW leaf, NEW path, Len(path) \in Nat, NEW v, v[0] = leaf,
         \A n \in 1 .. Len(path) : v[n] = Combine(v[n - 1], path[n])
  PROVE  RootOf(leaf, path) = v[Len(path)]
<1> DEFINE N == Len(path)
           Eq(g) == g = [n \in 0 .. N |-> IF n = 0 THEN leaf ELSE Combine(g[n - 1], path[n])]
           u == [n \in 0 .. N |-> v[n]]
           w == CHOOSE g : Eq(g)
           S == {n \in Nat : n <= N => w[n] = v[n]}
<1>1. Eq(u)
  OBVIOUS
<1>2. Eq(w)
  <2> HIDE DEF Eq, u
  <2> QED  BY <1>1
<1>3. RootOf(leaf, path) = w[N]
  BY DEF RootOf
<1> HIDE DEF w, u
<1>4. w[0] = leaf /\ \A n \in 1 .. N : w[n] = Combine(w[n - 1], path[n])
  BY <1>2
<1>5. 0 \in S
  BY <1>4
<1>6. ASSUME NEW n \in Nat, n \in S PROVE n + 1 \in S
  <2> SUFFICES ASSUME n + 1 <= N PROVE w[n + 1] = v[n + 1]
    OBVIOUS
  <2>1. w[n] = v[n] /\ n + 1 \in 1 .. N /\ (n + 1) - 1 = n
    BY <1>6
  <2>2. w[n + 1] = Combine(w[n], path[n + 1])
    BY <1>4, <2>1
  <2>3. v[n + 1] = Combine(v[n], path[n + 1])
    BY <2>1
  <2> QED  BY <2>1, <2>2, <2>3
<1> HIDE DEF S
<1>7. N \in S
  BY <1>5, <1>6, SetInduction
<1> QED  BY <1>3, <1>7 DEF S

\* A path with one step more.
LEMMA RootOfMore ==
  ASSUME NEW T, NEW leaf \in Digest(T), NEW path \in Seq(ProofStep(T)), NEW step \in ProofStep(T)
  PROVE  /\ RootOf(leaf, <<>>) = leaf
         /\ RootOf(leaf, Append(path, step)) = Combine(RootOf(leaf, path), step)
<1> DEFINE N == Len(path)
           more == Append(path, step)
           F == [n \in 1 .. N |-> [value \in Digest(T) |-> Combine(value, path[n])]]
<1>1. /\ N \in Nat /\ Len(more) = N + 1 /\ more[N + 1] = step
      /\ \A n \in 1 .. N : path[n] \in ProofStep(T) /\ more[n] = path[n]
  BY LenProperties, ElementOfSeq
<1>2. \A value \in Digest(T), s \in ProofStep(T) : Combine(value, s) \in Digest(T)
  BY HashIsDigest DEF Combine, ProofStep
<1>3. /\ F \in [1 .. N -> [Digest(T) -> Digest(T)]]
      /\ \A n \in 1 .. N : \A value \in Digest(T) : F[n][value] = Combine(value, path[n])
  BY <1>1, <1>2
<1> HIDE DEF F, N, more
<1>4. PICK v \in [0 .. N -> Digest(T)] : Runs(v, leaf, N, F)
  BY <1>1, <1>3, LoopExists
<1>5. v[0] = leaf /\ \A n \in 1 .. N : v[n] = Combine(v[n - 1], path[n])
  <2>1. \A n \in 1 .. N : v[n - 1] \in Digest(T)
    BY <1>1, <1>4
  <2> QED  BY <1>3, <1>4, <2>1 DEF Runs
<1>6. RootOf(leaf, path) = v[N]
  BY <1>1, <1>5, RootIs DEF N
<1> DEFINE w == [n \in 0 .. N + 1 |-> IF n <= N THEN v[n] ELSE Combine(v[N], step)]
<1>7. (\A n \in 0 .. N : w[n] = v[n]) /\ w[N + 1] = Combine(v[N], step)
  BY <1>1
<1> HIDE DEF w
<1>8. \A n \in 1 .. N + 1 : w[n] = Combine(w[n - 1], more[n])
  <2> SUFFICES ASSUME NEW n \in 1 .. N + 1 PROVE w[n] = Combine(w[n - 1], more[n])
    OBVIOUS
  <2>1. CASE n \in 1 .. N
    BY <1>1, <1>5, <1>7, <2>1
  <2>2. CASE n = N + 1
    BY <1>1, <1>7, <2>2
  <2> QED  BY <1>1, <2>1, <2>2
<1>9. RootOf(leaf, more) = w[N + 1]
  <2>1. w[0] = leaf
    BY <1>1, <1>5, <1>7
  <2> QED  BY <1>1, <1>8, <2>1, RootIs
<1>10. RootOf(leaf, <<>>) = leaf
  <2> DEFINE z == [n \in 0 .. 0 |-> leaf]
  <2>1. z[0] = leaf /\ Len(<<>>) = 0
    OBVIOUS
  <2> HIDE DEF z
  <2> QED  BY <2>1, RootIs
<1> QED  BY <1>6, <1>7, <1>9, <1>10 DEF more

\* Where the loop of computeProofPath may be: at a digest of a level.
At(T) ==
  {at \in [level : Level(T), index : Nat, path : Seq(ProofStep(T))] : at.index < Len(at.level)}

\* A round climbs to the parent, whose digest is that of the leaf's side and
\* the sibling that the round adds to the path.
LEMMA ClimbOneFacts ==
  ASSUME NEW T, NEW at \in At(T), Len(at.level) # 1
  PROVE  /\ ClimbOne(at) \in At(T)
         /\ ClimbOne(at).level = NextLevel(at.level)
         /\ \E step \in ProofStep(T) :
              /\ ClimbOne(at).path = Append(at.path, step)
              /\ Combine(at.level[at.index + 1], step)
                   = NextLevel(at.level)[ClimbOne(at).index + 1]
<1> DEFINE level == at.level
           i == at.index
           k == i \div 2
           step == Sibling(level, i)
           up == ClimbOne(at)
<1>1. /\ level \in Level(T) /\ i \in Nat /\ at.path \in Seq(ProofStep(T)) /\ i < Len(level)
      /\ Len(level) \in Nat \ {0, 1}
      /\ \A n \in 1 .. Len(level) : level[n] \in Digest(T)
  <2>1. level \in Level(T) /\ i \in Nat /\ at.path \in Seq(ProofStep(T)) /\ i < Len(level)
    BY DEF At
  <2>2. Len(level) \in Nat \ {0} /\ \A n \in 1 .. Len(level) : level[n] \in Digest(T)
    BY <2>1, EmptySeq, ElementOfSeq DEF Level
  <2> QED  BY <2>1, <2>2
<1>2. /\ up = [level |-> NextLevel(level), index |-> k, path |-> Append(at.path, step)]
      /\ up.level = NextLevel(level) /\ up.index = k /\ up.path = Append(at.path, step)
  BY DEF ClimbOne
<1>3. /\ NextLevel(level) \in Level(T) /\ Len(NextLevel(level)) = (Len(level) + 1) \div 2
      /\ \A n \in 1 .. (Len(level) + 1) \div 2 :
           NextLevel(level)[n] = Hash(level[2 * n - 1], Right(level, 2 * n - 1))
  BY <1>1, NextLevelFacts
<1> DEFINE l == Len(level)
<1>4. l \in Nat \ {0, 1} /\ i \in Nat /\ i < l
  BY <1>1
<1> HIDE DEF level, i, l, up
<1>5. /\ k \in Nat /\ k < (l + 1) \div 2 /\ (i = 2 * k \/ i = 2 * k + 1)
      /\ i % 2 = 0 <=> i = 2 * k
  BY <1>4
<1>6. NextLevel(level)[k + 1] = Hash(level[2 * k + 1], Right(level, 2 * k + 1))
  <2>1. k + 1 \in 1 .. (Len(level) + 1) \div 2 /\ 2 * (k + 1) - 1 = 2 * k + 1
    BY <1>4, <1>5 DEF l
  <2> QED  BY <1>3, <2>1
<1> HIDE DEF k
<1>7. step \in ProofStep(T) /\ Combine(level[i + 1], step) = NextLevel(level)[k + 1]
  <2>1. CASE i % 2 = 0
    <3>1. i = 2 * k /\ i + 1 = 2 * k + 1
      BY <1>5, <2>1
    <3>2. step = [hash |-> Right(level, i + 1), direction |-> "right"]
      BY <2>1 DEF Sibling
    <3>3. Right(level, i + 1) \in Digest(T)
      BY <1>1, <1>4 DEF Right, l
    <3>4. Combine(level[i + 1], step) = Hash(level[i + 1], Right(level, i + 1))
      BY <3>2 DEF Combine
    <3> QED  BY <1>6, <3>1, <3>2, <3>3, <3>4 DEF ProofStep
  <2>2. CASE i % 2 # 0
    <3>1. i = 2 * k + 1 /\ 2 * k + 1 + 1 = i + 1 /\ i \in 1 .. l /\ i + 1 <= l
      BY <1>4, <1>5, <2>2
    <3>2. step = [hash |-> level[i], direction |-> "left"]
      BY <2>2 DEF Sibling
    <3>3. Right(level, 2 * k + 1) = level[i + 1]
      BY <3>1 DEF Right, l
    <3>4. Combine(level[i + 1], step) = Hash(level[i], level[i + 1])
      BY <3>2 DEF Combine
    <3>5. level[i] \in Digest(T)
      BY <1>1, <3>1 DEF l
    <3> QED  BY <1>6, <3>1, <3>2, <3>3, <3>4, <3>5 DEF ProofStep
  <2> QED  BY <2>1, <2>2
<1>8. up \in At(T)
  <2>1. Append(at.path, step) \in Seq(ProofStep(T))
    BY <1>1, <1>7
  <2> QED  BY <1>2, <1>3, <1>5, <2>1 DEF At, l
<1> QED  BY <1>2, <1>7, <1>8 DEF level, i, up

\* The loop of computeProofPath (certificates.service.ts) climbs a level a round.
LEMMA ClimbSolves ==
  ASSUME NEW T, NEW leaves \in Level(T), NEW i \in Nat, i < Len(leaves)
  PROVE  LET at == Climb(leaves, i)
         IN /\ \A n \in 0 .. Len(leaves) : at[n] \in At(T)
            /\ at[0] = [level |-> leaves, index |-> i, path |-> <<>>]
            /\ \A n \in 1 .. Len(leaves) : at[n] = ClimbOne(at[n - 1])
<1> DEFINE N == Len(leaves)
           bottom == [level |-> leaves, index |-> i, path |-> <<>>]
           Eq(g) == g = [n \in 0 .. N |-> IF n = 0 THEN bottom ELSE ClimbOne(g[n - 1])]
           F == [n \in 1 .. N |-> [a \in At(T) |-> ClimbOne(a)]]
           at == Climb(leaves, i)
<1>1. N \in Nat /\ bottom \in At(T)
  BY LenProperties, EmptySeq DEF Level, At
<1>2. \A a \in At(T) : ClimbOne(a) \in At(T)
  <2> SUFFICES ASSUME NEW a \in At(T) PROVE ClimbOne(a) \in At(T)
    OBVIOUS
  <2>1. CASE Len(a.level) = 1
    BY <2>1 DEF ClimbOne
  <2> QED  BY <2>1, ClimbOneFacts
<1>3. /\ F \in [1 .. N -> [At(T) -> At(T)]]
      /\ \A n \in 1 .. N : \A a \in At(T) : F[n][a] = ClimbOne(a)
  BY <1>2
<1>4. at = CHOOSE g : Eq(g)
  BY DEF Climb
<1> HIDE DEF F, N, at, bottom
<1>5. PICK g \in [0 .. N -> At(T)] : Runs(g, bottom, N, F)
  BY <1>1, <1>3, LoopExists
<1>6. \A n \in 1 .. N : g[n - 1] \in At(T)
  BY <1>1, <1>5
<1>7. \A n \in 1 .. N : g[n] = ClimbOne(g[n - 1])
  BY <1>3, <1>5, <1>6 DEF Runs
<1>8. Eq(g)
  BY <1>1, <1>5, <1>7 DEF Runs
<1>9. Eq(at)
  <2> HIDE DEF Eq
  <2> QED  BY <1>4, <1>8
<1>10. at[0] = bottom /\ \A n \in 1 .. N : at[n] = ClimbOne(at[n - 1])
  BY <1>1, <1>9
<1>11. \A n \in 0 .. N : at[n] \in At(T)
  <2> DEFINE S == {n \in Nat : n <= N => at[n] \in At(T)}
  <2>1. 0 \in S
    BY <1>1, <1>10
  <2>2. ASSUME NEW n \in Nat, n \in S PROVE n + 1 \in S
    <3> SUFFICES ASSUME n + 1 <= N PROVE at[n + 1] \in At(T)
      OBVIOUS
    <3>1. at[n] \in At(T) /\ n + 1 \in 1 .. N /\ (n + 1) - 1 = n
      BY <1>1, <2>2
    <3> QED  BY <1>2, <1>10, <3>1
  <2> HIDE DEF S
  <2>3. \A n \in Nat : n \in S
    BY <2>1, <2>2, SetInduction
  <2> QED  BY <1>1, <2>3 DEF S
<1> QED  BY <1>10, <1>11 DEF N, at, bottom

\* The path computeProofPath gives for a leaf leads to the root, for any
\* number of leaves.
LEMMA PathVerifies ==
  ASSUME NEW T, NEW leaves \in Level(T), NEW n \in 1 .. Len(leaves)
  PROVE  RootOf(leaves[n], ComputeProofPath(leaves, n - 1)) = ComputeMerkleRoot(leaves)
<1> DEFINE N == Len(leaves)
           up == Levels(leaves)
           at == Climb(leaves, n - 1)
           leaf == leaves[n]
           Leads(m) == at[m].level = up[m]
                       /\ RootOf(leaf, at[m].path) = up[m][at[m].index + 1]
           S == {m \in Nat : m <= N => Leads(m)}
<1>1. N \in Nat \ {0} /\ n - 1 \in Nat /\ n - 1 < N /\ leaf \in Digest(T) /\ leaves # <<>>
  BY EmptySeq, ElementOfSeq DEF Level
<1>2. /\ up[0] = leaves
      /\ \A m \in 1 .. N : up[m] = Above(up[m - 1])
      /\ Len(up[N]) = 1
  BY LevelsSolve, LevelsShrink
<1>3. /\ \A m \in 0 .. N : at[m] \in At(T)
      /\ at[0] = [level |-> leaves, index |-> n - 1, path |-> <<>>]
      /\ \A m \in 1 .. N : at[m] = ClimbOne(at[m - 1])
  BY <1>1, ClimbSolves
<1>4. ComputeMerkleRoot(leaves) = up[N][1] /\ ComputeProofPath(leaves, n - 1) = at[N].path
  BY <1>1 DEF ComputeMerkleRoot, ComputeProofPath
<1> HIDE DEF N, up, at, leaf
<1>5. RootOf(leaf, <<>>) = leaf
  <2>1. <<>> \in Seq(ProofStep(T)) /\ [hash |-> leaf, direction |-> "left"] \in ProofStep(T)
    BY <1>1, EmptySeq DEF ProofStep
  <2> QED  BY <1>1, <2>1, RootOfMore
<1>6. 0 \in S
  <2>1. at[0].level = leaves /\ at[0].index + 1 = n /\ at[0].path = <<>>
    BY <1>1, <1>3
  <2> QED  BY <1>2, <1>5, <2>1 DEF leaf
<1>7. ASSUME NEW m \in Nat, m \in S PROVE m + 1 \in S
  <2> SUFFICES ASSUME m + 1 <= N PROVE Leads(m + 1)
    OBVIOUS
  <2> DEFINE a == at[m]
             b == at[m + 1]
  <2>1. Leads(m) /\ a \in At(T) /\ m + 1 \in 1 .. N /\ (m + 1) - 1 = m
    BY <1>1, <1>3, <1>7
  <2>2. b = ClimbOne(a) /\ up[m + 1] = Above(up[m])
    BY <1>2, <1>3, <2>1
  <2>3. a.level = up[m] /\ RootOf(leaf, a.path) = up[m][a.index + 1]
    BY <2>1
  <2> HIDE DEF a, b
  <2>4. b.level = up[m + 1] /\ RootOf(leaf, b.path) = up[m + 1][b.index + 1]
    <3>1. CASE Len(a.level) = 1
      BY <2>2, <2>3, <3>1 DEF ClimbOne, Above
    <3>2. CASE Len(a.level) # 1
      <4>1. b.level = up[m + 1] /\ up[m + 1] = NextLevel(a.level)
        BY <2>1, <2>2, <2>3, <3>2, ClimbOneFacts DEF Above
      <4>2. PICK step \in ProofStep(T) :
              /\ b.path = Append(a.path, step)
              /\ Combine(a.level[a.index + 1], step) = NextLevel(a.level)[b.index + 1]
        BY <2>1, <2>2, <3>2, ClimbOneFacts
      <4>3. RootOf(leaf, b.path) = Combine(RootOf(leaf, a.path), step)
        BY <1>1, <2>1, <4>2, RootOfMore DEF At
      <4> QED  BY <2>3, <4>1, <4>2, <4>3
    <3> QED  BY <3>1, <3>2
  <2> QED  BY <2>4 DEF b
<1> HIDE DEF S
<1>8. N \in S
  BY <1>1, <1>6, <1>7, SetInduction
<1>9. Leads(N)
  BY <1>1, <1>8 DEF S
<1>10. at[N].index = 0
  BY <1>1, <1>2, <1>3, <1>9 DEF At
<1> QED  BY <1>4, <1>9, <1>10 DEF leaf

\* The path that getMerkleProof (certificates.service.ts) gives for a
\* certificate verifies: the row names a tree whose leaf of that index is the
\* certificate's own and whose root was computed over just these leaves,
\* through trees built at once, trees indexed by half and outdated copies
\* saved over an index.
THEOREM ProofsLeadToRoots == CertificatesSpec => []ProofsVerify
<1>1. CertificatesInit => CInv
  BY InitiallyPaired
<1>2. CInv /\ [CertificatesNext]_certificatesVars => CInv'
  BY PairedStep
<1>3. CInv => ProofsVerify
  <2> SUFFICES ASSUME CInv, NEW n \in DOMAIN certs, certs[n].tree # 0
               PROVE  RootOf(<<certs[n].trade>>,
                             ComputeProofPath(trees[certs[n].tree].leaves, certs[n].leaf))
                        = trees[certs[n].tree].root
    BY DEF ProofsVerify
  <2> DEFINE k == certs[n].tree
             leaves == trees[k].leaves
  <2>1. certs \in Seq(CertRow) /\ Placed(certs[n], n)
    BY DEF CInv, CertsOK
  <2>2. k \in DOMAIN trees /\ n \in DOMAIN leaves /\ certs[n].leaf = n - 1
    BY <2>1 DEF Placed
  <2>3. LeavesOf(leaves) /\ trees[k].root = ComputeMerkleRoot(leaves)
    BY <2>2 DEF CInv, CertsOK, TreeOK
  <2> HIDE DEF k, leaves
  <2>4. PICK m \in 1 .. Len(certs) : leaves = [i \in 1 .. m |-> <<certs[i].trade>>]
    BY <2>3 DEF LeavesOf
  <2>5. m \in Nat /\ \A i \in 1 .. m : <<certs[i].trade>> \in {<<t>> : t \in Verified}
    <3>1. Len(certs) \in Nat /\ \A i \in 1 .. Len(certs) : certs[i] \in CertRow
      BY <2>1, LenProperties
    <3> QED
      BY <3>1 DEF CertRow
  <2>6. leaves \in Level(Verified) /\ leaves[n] = <<certs[n].trade>>
    <3>1. \A i \in 1 .. m : <<certs[i].trade>> \in Digest(Verified)
      BY <2>5 DEF Digest
    <3>2. leaves \in Seq(Digest(Verified)) /\ DOMAIN leaves = 1 .. m
      BY <2>4, <2>5, <3>1
    <3>3. leaves # <<>>
      BY <2>2
    <3>4. leaves[n] = <<certs[n].trade>>
      BY <2>2, <2>4, <3>2
    <3> QED
      BY <3>2, <3>3, <3>4 DEF Level
  <2>7. n \in 1 .. Len(leaves)
    BY <2>2, <2>6 DEF Level
  <2>8. RootOf(leaves[n], ComputeProofPath(leaves, n - 1)) = ComputeMerkleRoot(leaves)
    BY <2>6, <2>7, PathVerifies
  <2> QED
    BY <2>2, <2>3, <2>6, <2>8 DEF k, leaves
<1> QED
  BY <1>1, <1>2, <1>3, PTL DEF CertificatesSpec

=============================================================================
