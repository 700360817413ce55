----------------------------- MODULE Certificates -----------------------------
(***************************************************************************)
(* certificate-service: the two certificates of a verified trade, the      *)
(* nightly Merkle tree over them, and the anchoring of its root in the     *)
(* contract MerkleAnchor (certificates.service.ts, merkle.service.ts,      *)
(* blockchain.service.ts, MerkleAnchor.sol).                               *)
(***************************************************************************)
EXTENDS Merkle, FiniteSets

CONSTANTS Verified,   \* trades that are verified with MEDIUM or HIGH risk
          Runner,     \* executions in flight at a time
          MaxTrees,   \* Merkle trees ever built (a bound)
          MaxAnchors, \* rows of blockchain_anchors (a bound)
          MaxNumber,  \* certificate numbers ever drawn (a bound)
          MaxFaults   \* failures and restarts (a bound)

VARIABLES
  certs,    \* rows of certificates in the order of issued_at
  counter,  \* certCounter, in the memory of the process
  trees,    \* rows of merkle_trees
  anchors,  \* rows of blockchain_anchors
  chain,    \* roots the contract holds
  runs,     \* the executions in flight
  cut,      \* history: trades whose messages overlapped or failed half way
  unsaid,   \* history: trees whose certificate.anchored was not published
  faults,
  simulated \* whether the service runs without a contract

treeVars == <<trees, anchors, chain>>
restVars == <<cut, unsaid, faults, simulated>>
certificatesVars == <<certs, counter, treeVars, runs, restVars>>

Resting == [do |-> "none"]
Numbers == {certs[n].number : n \in DOMAIN certs}
Issued(t) == {n \in DOMAIN certs : certs[n].trade = t}

CertificatesInit ==
  /\ certs = <<>> /\ counter = 0
  /\ trees = <<>> /\ anchors = <<>> /\ chain = {}
  /\ runs = [r \in Runner |-> Resting]
  /\ cut = {} /\ unsaid = {} /\ faults = 0
  /\ simulated \in BOOLEAN

Begin(r, run) ==
  /\ runs[r] = Resting
  /\ runs' = [runs EXCEPT ![r] = run]

Go(r, run) == runs' = [runs EXCEPT ![r] = run]

Log(seq, row) == seq' = Append(seq, row)

----------------------------------------------------------------------------
(* trade.verified, delivered any number of times.                          *)

Issuing(t) == {r \in Runner : runs[r].do = "issue" /\ runs[r].trade = t}

\* The number is drawn in memory before the row is inserted.
IssueFirst(r, t) ==
  /\ counter < MaxNumber
  /\ counter' = counter + 1
  /\ Begin(r, [do |-> "issue", trade |-> t, side |-> 1, number |-> counter + 1])
  /\ cut' = IF Issuing(t) = {} THEN cut ELSE cut \cup {t}
  /\ UNCHANGED <<certs, treeVars, unsaid, faults, simulated>>

\* trade.verified: nothing if the trade has a certificate.
TradeVerified(r, t) ==
  /\ Issued(t) = {}
  /\ IssueFirst(r, t)

\* A number that exists already breaks the unique key: the message comes
\* again, unless the first certificate is there and the second one is not.
IssueCertificate(r) ==
  LET j == runs[r]
      new == [number |-> j.number, trade |-> j.trade, side |-> j.side,
              status |-> "active", tree |-> 0, leaf |-> 0]
  IN /\ j.do = "issue"
     /\ \/ /\ j.number \in Numbers
           /\ Go(r, Resting)
           /\ cut' = IF j.side = 2 THEN cut \cup {j.trade} ELSE cut
           /\ UNCHANGED <<certs, counter>>
        \/ /\ j.number \notin Numbers
           /\ Log(certs, new)
           /\ \/ /\ j.side = 1 /\ counter < MaxNumber
                 /\ counter' = counter + 1
                 /\ Go(r, [j EXCEPT !.side = 2, !.number = counter + 1])
              \/ /\ j.side = 2
                 /\ Go(r, Resting)
                 /\ UNCHANGED counter
           /\ UNCHANGED cut
     /\ UNCHANGED <<treeVars, unsaid, faults, simulated>>

\* transferOwnership and revoke, by anybody and in any status.
ChangeCertificate(r, n, to) ==
  /\ n \in DOMAIN certs
  /\ Begin(r, [do |-> "save", row |-> n, copy |-> [certs[n] EXCEPT !.status = to]])
  /\ UNCHANGED <<certs, counter, treeVars, restVars>>

SaveCertificate(r) ==
  /\ runs[r].do = "save"
  /\ certs' = [certs EXCEPT ![runs[r].row] = runs[r].copy]
  /\ Go(r, Resting)
  /\ UNCHANGED <<counter, treeVars, restVars>>

----------------------------------------------------------------------------
(* The nightly tree.                                                       *)

\* getUnanchoredCertificates: its condition is undefined, which TypeORM
\* ignores, so these are all certificates.
BuildDailyMerkleTree(r, anchor) ==
  /\ certs # <<>>
  /\ Begin(r, [do |-> "tree", anchor |-> anchor,
               leaves |-> [n \in DOMAIN certs |-> <<certs[n].trade>>]])
  /\ UNCHANGED <<certs, counter, treeVars, restVars>>

InsertTree(r) ==
  /\ runs[r].do = "tree" /\ Len(trees) < MaxTrees
  /\ Log(trees, [leaves |-> runs[r].leaves,
                 root |-> ComputeMerkleRoot(runs[r].leaves), anchored |-> FALSE])
  /\ Go(r, [do |-> "index", tree |-> Len(trees) + 1, row |-> 1,
            anchor |-> runs[r].anchor])
  /\ UNCHANGED <<certs, counter, anchors, chain, restVars>>

\* The certificates get the tree one after the other.  buildAndAnchor goes
\* on with the new tree.
IndexCertificate(r) ==
  LET j == runs[r]
  IN /\ j.do = "index"
     /\ certs' = [certs EXCEPT ![j.row].tree = j.tree, ![j.row].leaf = j.row - 1]
     /\ Go(r, IF j.row < Len(trees[j.tree].leaves) THEN [j EXCEPT !.row = @ + 1]
              ELSE IF j.anchor THEN [do |-> "anchor", left |-> {j.tree}]
              ELSE Resting)
     /\ UNCHANGED <<counter, treeVars, restVars>>

----------------------------------------------------------------------------
(* Anchoring.                                                              *)

\* The hourly timer goes through the trees it found unanchored, the oldest
\* first.
AnchorPendingTrees(r) ==
  LET pending == {k \in DOMAIN trees : ~trees[k].anchored}
  IN /\ pending # {}
     /\ Begin(r, [do |-> "anchor", left |-> pending])
     /\ UNCHANGED <<certs, counter, treeVars, restVars>>

NextOf(left) == IF left = {} THEN Resting ELSE [do |-> "anchor", left |-> left]
IsNext(r, k) == k \in runs[r].left /\ \A other \in runs[r].left : k <= other

\* anchorMerkleRoot: a pending row,
InsertAnchor(r) ==
  /\ runs[r].do = "anchor" /\ Len(anchors) < MaxAnchors
  /\ \E k \in runs[r].left :
       /\ IsNext(r, k)
       /\ Log(anchors, [tree |-> k, status |-> "pending"])
       /\ Go(r, [do |-> "send", tree |-> k, left |-> runs[r].left \ {k},
                 row |-> Len(anchors) + 1])
  /\ UNCHANGED <<certs, counter, trees, chain, restVars>>

TreeOf(r) == runs[r].tree
Step(r, do) == Go(r, [runs[r] EXCEPT !.do = do])

\* the transaction, which the contract refuses for a root it has,
IsAnchored(root) == root \in chain

\* Faulty variant, in no specification: does not wait for the block.
SendUnmined(r) ==
  /\ runs[r].do = "send"
  /\ Step(r, "confirm")
  /\ chain' \in {chain, chain \cup {trees[TreeOf(r)].root}}
  /\ UNCHANGED <<certs, counter, trees, anchors, restVars>>

SendRoot(r) ==
  LET root == trees[TreeOf(r)].root
  IN /\ runs[r].do = "send"
     /\ \/ simulated /\ Step(r, "confirm") /\ UNCHANGED chain
        \/ ~simulated /\ IsAnchored(root) /\ Step(r, "fail") /\ UNCHANGED chain
        \/ ~simulated /\ ~IsAnchored(root) /\ Step(r, "confirm")
           /\ chain' = chain \cup {root}
     /\ UNCHANGED <<certs, counter, trees, anchors, restVars>>

\* the row, the tree, and certificate.anchored.
SetAnchor(r, status) == anchors' = [anchors EXCEPT ![runs[r].row].status = status]

ConfirmAnchor(r) ==
  /\ runs[r].do = "confirm"
  /\ SetAnchor(r, "confirmed")
  /\ Step(r, "mark")
  /\ UNCHANGED <<certs, counter, trees, chain, restVars>>

MarkAnchored(r) ==
  /\ runs[r].do = "mark"
  /\ trees' = [trees EXCEPT ![TreeOf(r)].anchored = TRUE]
  /\ Step(r, "announce")
  /\ UNCHANGED <<certs, counter, anchors, chain, restVars>>

PublishAnchored(r) ==
  /\ runs[r].do = "announce"
  /\ Go(r, NextOf(runs[r].left))
  /\ UNCHANGED <<certs, counter, treeVars, restVars>>

FailAnchor(r) ==
  /\ runs[r].do = "fail"
  /\ SetAnchor(r, "failed")
  /\ Go(r, NextOf(runs[r].left))
  /\ UNCHANGED <<certs, counter, trees, chain, restVars>>

----------------------------------------------------------------------------
(* Failures.                                                               *)

\* A statement, a message or the connection to the chain fails:
\* anchorMerkleRoot notes it in its row, everything else is logged or
\* delivered again.
Fault(r) ==
  LET j == runs[r]
  IN /\ j # Resting /\ faults < MaxFaults
     /\ faults' = faults + 1
     /\ \/ /\ j.do \in {"send", "confirm", "mark", "announce"}
           /\ Step(r, "fail")
           /\ chain' \in IF j.do = "send" /\ ~simulated
                         THEN {chain, chain \cup {trees[TreeOf(r)].root}} ELSE {chain}
           /\ unsaid' = IF j.do = "announce" THEN unsaid \cup {TreeOf(r)} ELSE unsaid
           /\ UNCHANGED cut
        \/ /\ \/ /\ j.do = "anchor"
                 /\ \E k \in j.left : IsNext(r, k) /\ Go(r, NextOf(j.left \ {k}))
                 /\ UNCHANGED cut
              \/ j.do = "fail" /\ Go(r, NextOf(j.left)) /\ UNCHANGED cut
              \/ /\ j.do \in {"issue", "save", "tree", "index"}
                 /\ Go(r, Resting)
                 /\ cut' = IF j.do = "issue" /\ j.side = 2 THEN cut \cup {j.trade} ELSE cut
           /\ UNCHANGED <<chain, unsaid>>
     /\ UNCHANGED <<certs, counter, trees, anchors, simulated>>

\* onModuleInit: the counter goes on from the certificate inserted last.
Restart ==
  /\ faults < MaxFaults
  /\ faults' = faults + 1
  /\ runs' = [r \in Runner |-> Resting]
  /\ counter' = IF certs = <<>> THEN 0 ELSE certs[Len(certs)].number
  /\ cut' = cut \cup {t \in Verified : \E r \in Issuing(t) : runs[r].side = 2}
  /\ UNCHANGED <<certs, treeVars, unsaid, simulated>>

IssuingNext ==
  \/ \E r \in Runner, t \in Verified : TradeVerified(r, t)
  \/ \E r \in Runner : IssueCertificate(r)

AnchoringNext ==
  \/ \E r \in Runner, n \in DOMAIN certs, to \in {"transferred", "revoked"} :
       ChangeCertificate(r, n, to)
  \/ \E r \in Runner, anchor \in BOOLEAN : BuildDailyMerkleTree(r, anchor)
  \/ \E r \in Runner :
       \/ SaveCertificate(r) \/ InsertTree(r) \/ IndexCertificate(r)
       \/ AnchorPendingTrees(r) \/ InsertAnchor(r) \/ SendRoot(r)
       \/ ConfirmAnchor(r) \/ MarkAnchored(r)
       \/ PublishAnchored(r) \/ FailAnchor(r)

FailingNext == Restart \/ \E r \in Runner : Fault(r)

CertificatesNext == IssuingNext \/ AnchoringNext \/ FailingNext

CertificatesSpec == CertificatesInit /\ [][CertificatesNext]_certificatesVars

----------------------------------------------------------------------------
(* Properties.                                                             *)

\* Whatever trees are built on top of each other, at once or only half, and
\* whoever saves a certificate from an outdated copy meanwhile, the path that
\* getMerkleProof computes leads from the certificate to the root of its tree.
ProofsVerify ==
  \A n \in DOMAIN certs :
    LET c == certs[n]
    IN c.tree # 0 =>
         LET tree == trees[c.tree]
         IN RootOf(<<c.trade>>, ComputeProofPath(tree.leaves, c.leaf)) = tree.root

\* What is said to be anchored, by the tree or by its row, is on the chain,
\* through lost answers of the chain, failures of the database and
\* overlapping attempts.  A tree that is anchored has a row that says so:
\* only an event that could not be published turns it into a failure.
Confirmed(k) == \E n \in DOMAIN anchors : anchors[n] = [tree |-> k, status |-> "confirmed"]
AnchorsAreReal ==
  \A k \in DOMAIN trees :
    /\ trees[k].anchored => Confirmed(k) \/ k \in unsaid
    /\ trees[k].anchored \/ Confirmed(k) => simulated \/ trees[k].root \in chain

\* Both parties of a trade get one certificate each, or none does yet,
\* whatever numbers collide after a restart, unless two deliveries of the
\* trade's message overlapped or one failed after the first certificate.
IssuedInPairs ==
  \A t \in Verified \ cut :
    Issuing(t) = {} =>
      /\ Cardinality(Issued(t)) \in {0, 2}
      /\ Cardinality({certs[n].side : n \in Issued(t)}) = Cardinality(Issued(t))

\* README.md:13 of a certificate: "immutable trade completion proofs".  One
\* whose tree is anchored keeps an anchored tree.  Not so: the next tree
\* takes all certificates again, and its root may never be accepted.
Anchored(n) == certs[n].tree # 0 /\ trees[certs[n].tree].anchored
OnceAnchored ==
  [][\A n \in DOMAIN certs : Anchored(n) => Anchored(n)']_certificatesVars

=============================================================================
