----------------------------- MODULE StingProofs -----------------------------
(***************************************************************************)
(* Proofs about the sting for any number of runs, any delays, windows and  *)
(* gas costs, with crashes and timeouts anywhere.                          *)
(***************************************************************************)
EXTENDS Sting, TLAPS, FiniteSetTheorems

-----------------------------------------------------------------------------
(* Types *)

ChainState == [contract : [Run -> H!Storage \cup {None}], nonce : Nat]
ProofData == [signer : Run, blob : [num : Nat \ {0}, hash : Nat]]

Stings == {StingTx(r, n) : r \in Run, n \in Nat}
Tx == {DeployTx(r) : r \in Run} \cup {ApproveTx(r) : r \in Run} \cup {PofTx(r) : r \in Run}
      \cup {SubmitTx(r, d) : r \in Run, d \in H!EnclaveData}
      \cup {CollectTx(r, p) : r \in Run, p \in ProofData}
      \cup Stings
      \cup {AdvTx(r, n, s) : r \in Run, n \in Nat, s \in Stings}

BlockData == [hash : Nat, txs : Seq(Tx), state : ChainState]

Sting2(r, n) == <<PofTx(r), StingTx(r, n)>>
Sting3(r, n, m) == <<PofTx(r), StingTx(r, n), AdvTx(r, m, StingTx(r, n))>>

FileFields == {"key", "report", "contract", "stingNonce", "stinger", "stingerTx",
               "verify", "proof"}
LocFields == {"tx", "bundle", "target", "receipt", "victim"}

\* The chain and the mempool.
ChainOK ==
    /\ chain \in Seq(BlockData) /\ chain # <<>>
    /\ minted \in Nat /\ reorgs \in Nat
    /\ \A n \in 1..Len(chain) : chain[n].hash <= minted
    /\ \A m, n \in 1..Len(chain) : m < n => chain[m].hash < chain[n].hash
    /\ mempool \subseteq Tx /\ IsFiniteSet(mempool)

\* Files and script variables are records.
Shape ==
    /\ run \in Run
    /\ DOMAIN file = FileFields /\ file = [f \in FileFields |-> file[f]]
    /\ DOMAIN loc = LocFields /\ loc = [f \in LocFields |-> loc[f]]

\* Commands before the sting bundle is sent.
Before == {"clean_shared", "gen_signing_key", "sgx_quote", "setup_bounty",
           "deploy_wait", "submit_enclave", "submit_wait", "approve_enclave",
           "approve_wait", "clean_leak", "generate_bundle", "create_stinger"}
Collecting == {"collect_bounty", "collect_wait", "collect_check", "clean_up", "done"}
Verifying == {"verify_adv", "verify_victim", "sign_evidence"}
AfterSend == {"evidence_wait", "victim_receipt", "victim_proof", "adv_receipt",
              "adv_proof"} \cup Verifying
AfterPoll == {"make_evidence", "evidence_tx", "send_evidence"} \cup AfterSend \cup Collecting

\* The files hold this run's key, contract and sting when they are used.
OwnFiles ==
    /\ pc \notin {"clean_shared", "gen_signing_key", "aborted"} => file.key = run
    /\ SGX /\ pc \in {"setup_bounty", "deploy_wait", "submit_enclave"} =>
          file.report = [sgx_report |-> run, ias_sig |-> "genuine"]
    /\ pc \notin {"clean_shared", "gen_signing_key", "sgx_quote", "setup_bounty",
                  "deploy_wait", "aborted"} => file.contract = run
    /\ pc \in {"create_stinger", "stinger_wait", "poll"} \cup AfterPoll =>
          file.stingNonce \in Nat
    /\ pc \in {"poll"} \cup AfterPoll =>
          /\ file.stinger.target \in Nat \ {0}
          /\ file.stinger.tx = StingTx(run, file.stingNonce)
          /\ file.stinger.bundle = Sting2(run, file.stingNonce)
          /\ file.stingerTx = StingTx(run, file.stingNonce)
    /\ pc \in Verifying => file.verify.target = file.stinger.target
    /\ pc = "collect_bounty" => file.proof \in attested

\* The variables of the running script belong to this run.
OwnLocals ==
    /\ pc = "stinger_wait" =>
          /\ loc.target \in Nat \ {0}
          /\ loc.bundle = [target |-> loc.target, txs |-> Sting2(run, file.stingNonce)]
    /\ pc = "evidence_tx" => loc.victim = StingTx(run, file.stingNonce)
    /\ pc = "send_evidence" =>
          \E m \in Nat : loc.tx = AdvTx(run, m, StingTx(run, file.stingNonce))

BundleOK(b) ==
    /\ b.target \in Nat \ {0}
    /\ \E r \in Run, n \in Nat :
          /\ r <= run
          /\ r = run => pc \notin Before
          /\ \/ b.txs = Sting2(r, n)
             \/ \E m \in Nat : b.txs = Sting3(r, n, m)
          /\ pc \in {"stinger_wait", "poll"} /\ r = run => b.txs = Sting2(run, file.stingNonce)

\* Bundles at the builder come from the scripts.
Sent == \A b \in req \cup mevBundles : BundleOK(b)

\* The builder writes the sting out before it answers, or has failed to.
Written == StingTx(run, file.stingNonce) \in shared \/ run \in failed

LeakFound ==
    /\ pc \in {"stinger_wait", "poll"} =>
          \A b \in mevBundles : b.txs[1].run = run => Written
    /\ pc = "poll" => Written
    /\ pc = "make_evidence" => StingTx(run, file.stingNonce) \in leak \/ run \in failed

ChainTxs == UNION {Range(chain[n].txs) : n \in 1..Len(chain)}

\* Collect transactions carry proofs an enclave signed.
CollectsAttested ==
    \A tx \in mempool \cup ChainTxs : tx.kind = "collect" => tx.proof \in attested

\* Every claim, in whichever block, stands on the block its proof names.
Stands(m, r) ==
    \E p \in attested : /\ p.signer = r /\ p.blob.num \in 1..m
                        /\ chain[p.blob.num].hash = p.blob.hash
ClaimsStand ==
    \A m \in 1..Len(chain), r \in Run :
        chain[m].state.contract[r] # None /\ chain[m].state.contract[r].claimed =>
            Stands(m, r)

\* What the chain and what the scripts and the builder keep up.
ChainInv == ChainOK /\ attested \subseteq ProofData /\ CollectsAttested /\ ClaimsStand
ScriptInv == Shape /\ OwnFiles /\ OwnLocals /\ Sent /\ LeakFound
IInv == ChainInv /\ ScriptInv

-----------------------------------------------------------------------------
(* Induction on 0..n, stated with a set so that it can be cited. *)

\* A non-empty set of numbers has a least element.
LEMMA LeastElement ==
    ASSUME NEW S \in SUBSET Nat, S # {}
    PROVE  \E x \in S : \A y \in S : x <= y
  <1> DEFINE R == {ss \in Nat \X Nat : ss[1] < ss[2]}
  <1>1. IsWellFoundedOn(R, Nat)
    BY NatLessThanWellFounded, Zenon DEF OpToRel
  <1>2. S \subseteq Nat
    OBVIOUS
  <1> HIDE DEF R
  <1>3. \E x \in S : \A y \in S : ~ (<<y, x>> \in R)
    BY <1>1, <1>2, WFMin, Zenon
  <1>4. \A x, y \in S : <<y, x>> \notin R => x <= y
    BY DEF R
  <1> QED
    BY <1>3, <1>4

\* Induction up to n, for the elements of a set.
LEMMA SetInduction ==
    ASSUME NEW n \in Nat, NEW S, 0 \in S, \A i \in 0..(n - 1) : i \in S => i + 1 \in S
    PROVE  \A i \in 0..n : i \in S
  <1> DEFINE B == {i \in 0..n : i \notin S}
  <1>a. B \in SUBSET Nat
    OBVIOUS
  <1>1. ASSUME B # {} PROVE FALSE
    <2>1. PICK x \in B : \A y \in B : x <= y
      <3> HIDE DEF B
      <3> QED
        BY <1>1, <1>a, LeastElement
    <2>2. x - 1 \in 0..(n - 1)
      BY <2>1
    <2>3. x - 1 \in S
      BY <2>1, <2>2
    <2> QED
      BY <2>1, <2>2, <2>3
  <1> QED
    BY <1>1

-----------------------------------------------------------------------------
(* Transactions and their effects *)

\* What the fields of a transaction of a kind are.
LEMMA TxFacts ==
    ASSUME NEW tx \in Tx
    PROVE  /\ tx.run \in Run
           /\ tx.kind \in {"deploy", "submit", "approve", "collect", "pof", "sting", "adv"}
           /\ tx.kind = "deploy" => tx = DeployTx(tx.run)
           /\ tx.kind = "submit" => tx.data \in H!EnclaveData
           /\ tx.kind = "collect" => tx.proof \in ProofData
           /\ tx.kind \in {"sting", "adv"} => tx.nonce \in Nat
           /\ tx.kind = "sting" => tx \in Stings
  BY DEF Tx, Stings, DeployTx, SubmitTx, ApproveTx, CollectTx, PofTx, StingTx, AdvTx

\* Calls keep the contract's storage well formed; only collectBounty claims.
LEMMA StorageOps ==
    ASSUME NEW c \in H!Storage, NEW r \in Run
    PROVE  /\ \A d \in H!EnclaveData : H!SubmitEnclave(c, r, d) \in H!Storage
           /\ \A d : H!SubmitEnclave(c, r, d).claimed = c.claimed
           /\ H!ApproveEnclave(c, r) \in H!Storage
           /\ H!ApproveEnclave(c, r).claimed = c.claimed
           /\ c.balance >= c.bounty => H!CollectBounty(c) \in H!Storage
           /\ H!CollectBounty(c).claimed
  <1>1. \A d \in H!EnclaveData : H!SubmitEnclave(c, r, d) \in H!Storage
    BY DEF H!SubmitEnclave, H!Storage
  <1>2. \A d : H!SubmitEnclave(c, r, d).claimed = c.claimed
    BY DEF H!SubmitEnclave, H!Storage
  <1>3. H!ApproveEnclave(c, r) \in H!Storage
    BY DEF H!ApproveEnclave, H!Storage
  <1>4. H!ApproveEnclave(c, r).claimed = c.claimed
    BY DEF H!ApproveEnclave, H!Storage
  <1>5. ASSUME c.balance >= c.bounty PROVE H!CollectBounty(c) \in H!Storage
    <2>1. c.balance - c.bounty \in Nat
      BY <1>5 DEF H!Storage
    <2> QED
      BY <2>1 DEF H!CollectBounty, H!Storage
  <1>6. H!CollectBounty(c).claimed
    BY DEF H!CollectBounty, H!Storage
  <1> QED
    BY <1>1, <1>2, <1>3, <1>4, <1>5, <1>6


ClaimedIn(st, r) == st.contract[r] # None /\ st.contract[r].claimed

\* A collectBounty call of block Len(ch) + 1 that does not revert.
Collects(ch, r, tx) ==
    /\ tx.kind = "collect" /\ tx.run = r
    /\ tx.proof.signer = r
    /\ H!Blockhash(tx.proof.blob.num, Len(ch) + 1, HashesOf(ch)) = tx.proof.blob.hash

\* The state s after transaction tx: contracts of other runs are left alone, a
\* claim is made by collectBounty only and undone by a deployment only.
Effect(ch, st, tx, s) ==
    /\ s \in ChainState
    /\ ~Stinger(tx) => s.nonce = st.nonce
    /\ \A r \in Run :
         /\ tx # DeployTx(r) /\ ClaimedIn(st, r) => ClaimedIn(s, r)
         /\ tx # DeployTx(r) /\ s.contract[r] # None => st.contract[r] # None
         /\ ClaimedIn(s, r) => ClaimedIn(st, r) \/ Collects(ch, r, tx)

\* What one transaction can do to contracts and nonce.
LEMMA ExecEffect ==
    ASSUME NEW ch, NEW st \in ChainState, NEW tx \in Tx
    PROVE  Effect(ch, st, tx, Exec(ch, st, tx))
  <1> DEFINE q == tx.run
             c == st.contract[q]
             s == Exec(ch, st, tx)
             to(d) == [st EXCEPT !.contract[q] = d]
  <1>1. /\ q \in Run /\ st.contract \in [Run -> H!Storage \cup {None}] /\ st.nonce \in Nat
        /\ c \in H!Storage \cup {None}
        /\ tx.kind = "deploy" => tx = DeployTx(q)
    BY TxFacts DEF ChainState
  <1>2. ASSUME NEW d \in H!Storage
        PROVE  /\ to(d) \in ChainState /\ to(d).nonce = st.nonce
               /\ to(d).contract[q] = d
               /\ \A r \in Run : r # q => to(d).contract[r] = st.contract[r]
    BY <1>1 DEF ChainState
  <1>3. None \notin H!Storage
    BY StingConstants
  <1> SUFFICES Effect(ch, st, tx, s)
    OBVIOUS
  <1>4. CASE s = st
    BY <1>4 DEF Effect
  <1>5. CASE tx.kind = "deploy"
    <2> DEFINE d == H!Constructor(Admin, Bounty)
    <2>1. s = to(d)
      BY <1>5 DEF Exec, Stinger
    <2>2. d \in H!Storage /\ ~d.claimed
      BY StingConstants DEF H!Constructor, H!Storage, H!NoData, H!EnclaveData, H!IasSig
    <2>3. \A r \in Run : r # q => tx # DeployTx(r)
      BY <1>1, <1>5 DEF DeployTx
    <2> HIDE DEF d, to, s
    <2> QED
      BY <1>1, <1>2, <1>5, <2>1, <2>2, <2>3 DEF ClaimedIn, Effect
  <1>6. CASE \E d \in H!Storage : /\ s = to(d) /\ c # None /\ d.claimed = c.claimed
                                 /\ ~Stinger(tx) /\ tx.kind # "deploy"
    <2>1. PICK d \in H!Storage : /\ s = to(d) /\ c # None /\ d.claimed = c.claimed
                                 /\ ~Stinger(tx) /\ tx.kind # "deploy"
      BY <1>6
    <2> HIDE DEF to, s
    <2> QED
      BY <1>1, <1>2, <1>3, <2>1 DEF ClaimedIn, Effect
  <1>7. CASE \E d \in H!Storage : /\ s = to(d) /\ c # None /\ d.claimed
                                 /\ Collects(ch, q, tx)
    <2>1. PICK d \in H!Storage : /\ s = to(d) /\ c # None /\ d.claimed
                                 /\ Collects(ch, q, tx)
      BY <1>7
    <2> HIDE DEF to, s
    <2> QED
      BY <1>1, <1>2, <1>3, <2>1 DEF ClaimedIn, Effect
  <1>8. CASE s = [st EXCEPT !.nonce = @ + 1] /\ Stinger(tx)
    <2>1. s \in ChainState /\ s.contract = st.contract
      BY <1>8 DEF ChainState
    <2> HIDE DEF s
    <2> QED
      BY <1>8, <2>1 DEF ClaimedIn, Effect
  <1>9. \/ s = st \/ tx.kind = "deploy"
        \/ s = [st EXCEPT !.nonce = @ + 1] /\ Stinger(tx)
        \/ /\ s = to(H!SubmitEnclave(c, q, tx.data)) /\ tx.kind = "submit" /\ c # None
        \/ /\ s = to(H!ApproveEnclave(c, q)) /\ tx.kind = "approve" /\ c # None
        \/ /\ s = to(H!CollectBounty(c)) /\ tx.kind = "collect" /\ c # None
           /\ H!CollectBountyOk(c, q, tx.proof.blob, tx.proof, Len(ch) + 1, HashesOf(ch))
    BY DEF Exec
  <1> HIDE DEF s, to
  <1>10. CASE s = to(H!SubmitEnclave(c, q, tx.data)) /\ tx.kind = "submit" /\ c # None
    BY <1>1, <1>6, <1>10, StorageOps, TxFacts DEF Stinger
  <1>11. CASE s = to(H!ApproveEnclave(c, q)) /\ tx.kind = "approve" /\ c # None
    BY <1>1, <1>6, <1>11, StorageOps DEF Stinger
  <1>12. CASE /\ s = to(H!CollectBounty(c)) /\ tx.kind = "collect" /\ c # None
              /\ H!CollectBountyOk(c, q, tx.proof.blob, tx.proof, Len(ch) + 1, HashesOf(ch))
    <2>1. c \in H!Storage /\ c.balance >= c.bounty
      BY <1>1, <1>12 DEF H!CollectBountyOk
    <2>2. H!CollectBounty(c) \in H!Storage /\ H!CollectBounty(c).claimed
      BY <1>1, <2>1, StorageOps
    <2>3. Collects(ch, q, tx)
      BY <1>12 DEF Collects, H!CollectBountyOk, H!Recover
    <2> QED
      BY <1>7, <1>12, <2>2, <2>3
  <1> QED
    BY <1>4, <1>5, <1>8, <1>9, <1>10, <1>11, <1>12

\* The recursive function of ExecAll exists.
Trace(ch, st, txs, m, g) ==
    g = [i \in 0..m |-> IF i = 0 THEN st ELSE Exec(ch, g[i - 1], txs[i])]

\* The states between the transactions of a block exist.
LEMMA TraceExists ==
    ASSUME NEW ch, NEW st, NEW txs, NEW n \in Nat
    PROVE  \E g : Trace(ch, st, txs, n, g)
  <1> DEFINE S == {m \in 0..n : \E g : Trace(ch, st, txs, m, g)}
  <1>1. 0 \in S
    <2> DEFINE g == [i \in 0..0 |-> st]
    <2>1. Trace(ch, st, txs, 0, g)
      BY DEF Trace
    <2> QED
      BY <2>1
  <1>2. ASSUME NEW m \in 0..(n - 1), m \in S PROVE m + 1 \in S
    <2>1. PICK g : Trace(ch, st, txs, m, g)
      BY <1>2
    <2> DEFINE h == [i \in 0..(m + 1) |-> IF i <= m THEN g[i] ELSE Exec(ch, g[m], txs[m + 1])]
    <2>2. \A i \in 0..m : g[i] = IF i = 0 THEN st ELSE Exec(ch, g[i - 1], txs[i])
      BY <2>1 DEF Trace
    <2>3. \A i \in 0..(m + 1) : h[i] = IF i = 0 THEN st ELSE Exec(ch, h[i - 1], txs[i])
      <3> TAKE i \in 0..(m + 1)
      <3>1. CASE i = 0
        BY <2>2, <3>1
      <3>2. CASE i \in 1..m
        <4>1. h[i] = g[i] /\ h[i - 1] = g[i - 1]
          BY <3>2
        <4> QED
          BY <2>2, <3>2, <4>1
      <3>3. CASE i = m + 1
        <4>1. h[i] = Exec(ch, g[m], txs[m + 1]) /\ h[m] = g[m] /\ i - 1 = m /\ i # 0
          BY <3>3
        <4> QED
          BY <3>3, <4>1
      <3> QED
        BY <3>1, <3>2, <3>3
    <2>4. Trace(ch, st, txs, m + 1, h)
      <3>1. h = [i \in 0..(m + 1) |-> h[i]]
        OBVIOUS
      <3> HIDE DEF h
      <3> QED
        BY <2>3, <3>1 DEF Trace
    <2> QED
      BY <2>4
  <1> HIDE DEF S
  <1>3. n \in S
    BY <1>1, <1>2, SetInduction
  <1> QED
    BY <1>3 DEF S

\* Executing the transactions one by one ends in ExecAll.
LEMMA ExecAllTrace ==
    ASSUME NEW ch, NEW st, NEW txs, Len(txs) \in Nat
    PROVE  \E g : /\ g[0] = st
                  /\ \A i \in 1..Len(txs) : g[i] = Exec(ch, g[i - 1], txs[i])
                  /\ ExecAll(ch, st, txs) = g[Len(txs)]
  <1> DEFINE n == Len(txs)
             g == CHOOSE f : Trace(ch, st, txs, n, f)
  <1>1. Trace(ch, st, txs, n, g)
    BY TraceExists
  <1>2. ExecAll(ch, st, txs) = g[n]
    BY DEF ExecAll, Trace
  <1> HIDE DEF g
  <1>3. g[0] = st /\ \A i \in 1..n : g[i] = Exec(ch, g[i - 1], txs[i])
    BY <1>1 DEF Trace
  <1> QED
    BY <1>2, <1>3

\* The same of a whole block.
EffectAll(ch, st, txs, s) ==
    /\ s \in ChainState
    /\ (\A i \in 1..Len(txs) : ~Stinger(txs[i])) => s.nonce = st.nonce
    /\ \A r \in Run :
         /\ (\A i \in 1..Len(txs) : txs[i] # DeployTx(r)) =>
               /\ ClaimedIn(st, r) => ClaimedIn(s, r)
               /\ s.contract[r] # None => st.contract[r] # None
         /\ ClaimedIn(s, r) =>
               ClaimedIn(st, r) \/ \E i \in 1..Len(txs) : Collects(ch, r, txs[i])

\* What the transactions of a block together can do.
LEMMA ExecAllEffect ==
    ASSUME NEW ch, NEW st \in ChainState, NEW txs \in Seq(Tx)
    PROVE  EffectAll(ch, st, txs, ExecAll(ch, st, txs))
  <1> DEFINE n == Len(txs)
  <1>1. n \in Nat
    OBVIOUS
  <1>2. PICK g : /\ g[0] = st
                 /\ \A i \in 1..n : g[i] = Exec(ch, g[i - 1], txs[i])
                 /\ ExecAll(ch, st, txs) = g[n]
    BY <1>1, ExecAllTrace, SMTT(30)
  <1> DEFINE S == {i \in 0..n : EffectAll(ch, st, txs, g[i])}
  <1>3. 0 \in S
    BY <1>1, <1>2 DEF EffectAll
  <1>4. ASSUME NEW i \in 0..(n - 1), i \in S PROVE i + 1 \in S
    <2>1. i + 1 \in 1..n /\ txs[i + 1] \in Tx /\ g[i] \in ChainState
      BY <1>1, <1>4 DEF EffectAll
    <2>2. g[i + 1] = Exec(ch, g[i], txs[i + 1])
      BY <1>2, <2>1
    <2>3. Effect(ch, g[i], txs[i + 1], g[i + 1])
      BY <2>1, <2>2, ExecEffect
    <2>4. EffectAll(ch, st, txs, g[i])
      BY <1>4
    <2>5. EffectAll(ch, st, txs, g[i + 1])
      BY <2>1, <2>3, <2>4 DEF Effect, EffectAll
    <2> QED
      BY <2>1, <2>5
  <1>5. n \in S
    <2> HIDE DEF S, n
    <2>1. \A i \in 0..n : i \in S
      BY <1>1, <1>3, <1>4, SetInduction
    <2> QED
      BY <1>1, <2>1
  <1> QED
    BY <1>2, <1>5

-----------------------------------------------------------------------------
(* Bundles and blocks *)

\* The transactions of a sting bundle and of an evidence bundle.
LEMMA BundleTxs ==
    ASSUME NEW r \in Run, NEW n \in Nat, NEW m \in Nat, NEW t,
           t = Sting2(r, n) \/ t = Sting3(r, n, m)
    PROVE  /\ t \in Seq(Tx) /\ Len(t) \in {2, 3}
           /\ t[1] = PofTx(r) /\ t[2] = StingTx(r, n)
           /\ Len(t) = 3 => t[3] = AdvTx(r, m, StingTx(r, n)) /\ t = Sting3(r, n, m)
           /\ Len(t) = 2 => t = Sting2(r, n)
           /\ \A tx \in Range(t) : tx.run = r /\ tx.kind \in {"pof", "sting", "adv"}
           /\ \A tx \in Range(t) : tx.kind = "sting" => tx = StingTx(r, n)
           /\ StingTx(r, n) \in Range(t)
  <1>1. PofTx(r) \in Tx /\ StingTx(r, n) \in Tx /\ AdvTx(r, m, StingTx(r, n)) \in Tx
    BY DEF Tx, Stings
  <1>2. CASE t = Sting2(r, n)
    <2>1. t \in Seq(Tx) /\ Len(t) = 2 /\ t[1] = PofTx(r) /\ t[2] = StingTx(r, n)
      BY <1>1, <1>2 DEF Sting2
    <2>2. Range(t) = {PofTx(r), StingTx(r, n)}
      BY <2>1 DEF Range
    <2> QED
      BY <1>2, <2>1, <2>2 DEF PofTx, StingTx
  <1>3. CASE t = Sting3(r, n, m)
    <2>1. /\ t \in Seq(Tx) /\ Len(t) = 3 /\ t[1] = PofTx(r) /\ t[2] = StingTx(r, n)
          /\ t[3] = AdvTx(r, m, StingTx(r, n))
      BY <1>1, <1>3 DEF Sting3
    <2>2. Range(t) = {PofTx(r), StingTx(r, n), AdvTx(r, m, StingTx(r, n))}
      BY <2>1 DEF Range
    <2> QED
      BY <1>3, <2>1, <2>2 DEF PofTx, StingTx, AdvTx
  <1> QED
    BY <1>2, <1>3

\* Bundles at the builder hold no calls of the contract.
LEMMA BundlesTyped ==
    ASSUME Sent, NEW b \in req \cup mevBundles
    PROVE  /\ b.txs \in Seq(Tx)
           /\ \A tx \in Range(b.txs) : tx.kind \in {"pof", "sting", "adv"}
  <1>1. PICK r \in Run, n \in Nat : \/ b.txs = Sting2(r, n)
                                    \/ \E m \in Nat : b.txs = Sting3(r, n, m)
    BY DEF Sent, BundleOK
  <1>2. PICK m \in Nat : b.txs = Sting2(r, n) \/ b.txs = Sting3(r, n, m)
    BY <1>1
  <1> QED
    BY <1>2, BundleTxs

\* The parts of a block.
LEMMA ChainTyped ==
    ASSUME ChainOK, NEW n \in 1..Len(chain)
    PROVE  /\ chain[n] \in BlockData /\ chain[n].hash \in Nat
           /\ chain[n].txs \in Seq(Tx) /\ chain[n].state \in ChainState
  <1>1. chain[n] \in BlockData
    BY DEF ChainOK
  <1> QED
    BY <1>1 DEF BlockData

\* The evidence bundle as make_evidence builds it.
LEMMA AppendPair ==
    ASSUME NEW x, NEW y, NEW z
    PROVE  Append(<<x, y>>, z) = <<x, y, z>>
  <1> DEFINE S == {x, y, z}
             s == Append(<<x, y>>, z)
             t == <<x, y, z>>
  <1>1. <<x, y>> \in Seq(S) /\ Len(<<x, y>>) = 2
    OBVIOUS
  <1>2. s \in Seq(S) /\ Len(s) = 3 /\ s[1] = x /\ s[2] = y /\ s[3] = z
    BY <1>1
  <1>3. t \in Seq(S) /\ Len(t) = 3 /\ t[1] = x /\ t[2] = y /\ t[3] = z
    OBVIOUS
  <1> HIDE DEF s, t, S
  <1>4. \A i \in 1..3 : s[i] = t[i]
    BY <1>2, <1>3
  <1>5. s = [i \in 1..3 |-> s[i]] /\ t = [i \in 1..3 |-> t[i]]
    BY <1>2, <1>3
  <1> QED
    BY <1>4, <1>5 DEF s, t

\* The range of a sequence is the set of its elements.
LEMMA SeqRange ==
    ASSUME NEW S, NEW s \in Seq(S)
    PROVE  /\ Range(s) \subseteq S
           /\ \A i \in 1..Len(s) : s[i] \in Range(s)
           /\ \A x \in Range(s) : \E i \in 1..Len(s) : x = s[i]
  BY DEF Range

\* A pick from the mempool is a sequence of its transactions.
LEMMA PicksTyped ==
    ASSUME NEW pool \in SUBSET Tx, IsFiniteSet(pool), NEW q \in Picks(pool)
    PROVE  q \in Seq(Tx) /\ Range(q) \subseteq pool
  <1>1. PICK S \in SUBSET pool : q \in SetToSeqs(S)
    BY DEF Picks, SetToAllKPermutations
  <1>2. Cardinality(S) \in Nat
    BY FS_Subset, FS_CardinalityType
  <1>3. q \in [1..Cardinality(S) -> S]
    BY <1>1 DEF SetToSeqs
  <1> QED
    BY <1>2, <1>3 DEF Range

\* A block made on top of ch.
LEMMA BlocksTyped ==
    ASSUME Sent, minted \in Nat, NEW ch \in Seq(BlockData), ch # <<>>,
           NEW pool \in SUBSET Tx, IsFiniteSet(pool), NEW b \in Blocks(ch, pool)
    PROVE  /\ b \in BlockData /\ b.hash = minted + 1
           /\ EffectAll(ch, ch[Len(ch)].state, b.txs, b.state)
           /\ \A tx \in Range(b.txs) :
                 tx \in pool \/ \E m \in mevBundles : /\ m.target = Len(ch) + 1
                                                      /\ tx \in Range(m.txs)
  <1> DEFINE st == ch[Len(ch)].state
  <1>0. PICK t \in Bodies(ch, pool) : b = NewBlock(ch, t)
    <2>1. b \in {NewBlock(ch, x) : x \in Bodies(ch, pool)}
      BY DEF Blocks
    <2> QED
      BY <2>1
  <1>a. PICK o \in Offered(ch), q \in Picks(pool) : t = o \o q
    BY DEF Bodies
  <1>1. b.hash = minted + 1 /\ b.txs = t /\ b.state = ExecAll(ch, st, t)
    BY <1>0 DEF NewBlock
  <1>2. o \in Seq(Tx)
    <2>1. CASE o = <<>>
      BY <2>1
    <2>2. CASE o # <<>>
      BY <2>2, BundlesTyped DEF Offered
    <2> QED
      BY <2>1, <2>2
  <1>3. q \in Seq(Tx) /\ Range(q) \subseteq pool
    BY PicksTyped
  <1>4. t \in Seq(Tx) /\ Range(t) \subseteq Range(o) \cup Range(q)
    BY <1>2, <1>3, <1>a DEF Range
  <1>5. st \in ChainState
    <2>1. Len(ch) \in 1..Len(ch)
      OBVIOUS
    <2>2. ch[Len(ch)] \in BlockData
      BY <2>1
    <2> QED
      BY <2>2 DEF BlockData
  <1> HIDE DEF st
  <1>6. EffectAll(ch, st, b.txs, b.state)
    BY <1>1, <1>4, <1>5, ExecAllEffect
  <1>7. b.state \in ChainState
    BY <1>6 DEF EffectAll
  <1>8. b \in BlockData /\ b.hash = minted + 1
    BY <1>0, <1>1, <1>4, <1>7 DEF BlockData, NewBlock, st
  <1>9. \A tx \in Range(b.txs) : tx \in Range(o) \/ tx \in pool
    BY <1>1, <1>3, <1>4
  <1>10. Range(<<>>) = {}
    BY DEF Range
  <1> QED
    BY <1>6, <1>8, <1>9, <1>10 DEF st, Offered

-----------------------------------------------------------------------------
(* The chain grows, possibly from an earlier block *)

Prefix(base) == /\ base \in Seq(BlockData) /\ base # <<>> /\ Len(base) <= Len(chain)
                /\ \A i \in 1..Len(base) : base[i] = chain[i]

\* A chain with a block put on a prefix of the old one.
LEMMA Extended ==
    ASSUME ChainOK, NEW base, Prefix(base), NEW b \in BlockData, chain' = Append(base, b)
    PROVE  /\ Len(base) \in Nat \ {0} /\ Len(chain) \in Nat
           /\ Len(chain') = Len(base) + 1 /\ chain' \in Seq(BlockData) /\ chain' # <<>>
           /\ chain'[Len(base) + 1] = b
           /\ \A i \in 1..Len(base) : /\ i \in 1..Len(chain) /\ i \in 1..Len(chain')
                                      /\ chain'[i] = chain[i] /\ base[i] = chain[i]
           /\ \A i \in 1..Len(chain') : i \in 1..Len(base) \/ i = Len(base) + 1
  <1>1. base \in Seq(BlockData) /\ chain \in Seq(BlockData) /\ base # <<>>
    BY DEF Prefix, ChainOK
  <1>2. Len(base) \in Nat \ {0} /\ Len(chain) \in Nat
    BY <1>1
  <1>3. /\ Len(chain') = Len(base) + 1 /\ chain' \in Seq(BlockData) /\ chain' # <<>>
        /\ chain'[Len(base) + 1] = b
        /\ \A i \in 1..Len(base) : chain'[i] = base[i]
    BY <1>1
  <1> QED
    BY <1>2, <1>3 DEF Prefix

\* A new block on a prefix of the chain keeps claims standing: what it claims,
\* a collect transaction proved against that prefix.
LEMMA ExtendChain ==
    ASSUME ChainInv, Sent, NEW base, Prefix(base),
           NEW pool \in SUBSET Tx, IsFiniteSet(pool), pool \subseteq mempool \cup ChainTxs,
           NEW b \in Blocks(base, pool),
           chain' = Append(base, b), mempool' = pool \ Range(b.txs),
           minted' = minted + 1, reorgs' \in Nat, UNCHANGED attested
    PROVE  ChainInv'
  <1> DEFINE L == Len(base)
  <1> USE DEF ChainInv
  <1>0. minted \in Nat /\ base \in Seq(BlockData) /\ base # <<>>
    BY DEF ChainOK, Prefix
  <1>1. /\ b \in BlockData /\ b.hash = minted + 1
        /\ EffectAll(base, base[L].state, b.txs, b.state)
        /\ \A tx \in Range(b.txs) :
              tx \in pool \/ \E m \in mevBundles : tx \in Range(m.txs)
    BY <1>0, BlocksTyped
  <1>2. /\ L \in Nat \ {0} /\ Len(chain) \in Nat
        /\ Len(chain') = L + 1 /\ chain' \in Seq(BlockData) /\ chain' # <<>>
        /\ chain'[L + 1] = b
        /\ \A i \in 1..L : /\ i \in 1..Len(chain) /\ i \in 1..Len(chain')
                           /\ chain'[i] = chain[i] /\ base[i] = chain[i]
        /\ \A i \in 1..Len(chain') : i \in 1..L \/ i = L + 1
    BY <1>1, Extended
  <1> HIDE DEF L
  <1>3. ChainOK'
    <2>b. \A n \in 1..L : chain[n] \in BlockData /\ chain[n].hash <= minted
      BY <1>2 DEF ChainOK
    <2>1. \A n \in 1..L : chain[n].hash \in Nat /\ chain[n].hash <= minted
      BY <2>b DEF BlockData
    <2>2. \A n \in 1..Len(chain') : chain'[n].hash <= minted'
      BY <1>0, <1>1, <1>2, <2>1
    <2>3. \A m, n \in 1..Len(chain') : m < n => chain'[m].hash < chain'[n].hash
      <3> SUFFICES ASSUME NEW m \in 1..Len(chain'), NEW n \in 1..Len(chain'), m < n
                   PROVE  chain'[m].hash < chain'[n].hash
        OBVIOUS
      <3>1. m \in 1..L
        BY <1>2
      <3>2. CASE n \in 1..L
        BY <1>2, <3>1, <3>2 DEF ChainOK
      <3>3. CASE n = L + 1
        BY <1>0, <1>1, <1>2, <2>1, <3>1, <3>3
      <3> QED
        BY <1>2, <3>2, <3>3
    <2>a. mempool' \in SUBSET pool
      OBVIOUS
    <2>4. mempool' \subseteq Tx /\ IsFiniteSet(mempool')
      BY <2>a, FS_Subset
    <2>5. minted' \in Nat
      BY <1>0
    <2> QED
      BY <1>2, <2>2, <2>3, <2>4, <2>5 DEF ChainOK
  <1>4. CollectsAttested'
    <2>1. \A tx \in Range(b.txs) : tx.kind = "collect" => tx \in pool
      BY <1>1, BundlesTyped
    <2>2. \A tx \in ChainTxs' : tx \in ChainTxs \/ tx \in Range(b.txs)
      BY <1>2 DEF ChainTxs
    <2> QED
      BY <2>1, <2>2 DEF CollectsAttested
  <1>5. ClaimsStand'
    <2>1. \A m \in 1..L, r \in Run : Stands(m, r) => Stands(m, r)' /\ Stands(L + 1, r)'
      BY <1>2, SMTT(30) DEF Stands
    <2>2. \A m \in 1..L, r \in Run : ClaimedIn(chain[m].state, r) => Stands(m, r)
      BY <1>2 DEF ClaimsStand, ClaimedIn
    <2>3. ASSUME NEW r \in Run, NEW tx \in Range(b.txs), Collects(base, r, tx)
          PROVE  Stands(L + 1, r)'
      <3>1. tx \in pool
        BY <1>1, <2>3, BundlesTyped DEF Collects
      <3>2. tx.proof \in attested /\ tx.proof \in ProofData
        BY <2>3, <3>1 DEF CollectsAttested, Collects
      <3> DEFINE num == tx.proof.blob.num
                 hash == tx.proof.blob.hash
      <3>3. num \in Nat \ {0} /\ hash \in Nat /\ tx.proof.signer = r
        BY <2>3, <3>2 DEF ProofData, Collects
      <3>4. H!Blockhash(num, L + 1, HashesOf(base)) = hash
        BY <2>3 DEF Collects, L
      <3>5. Empty \notin Nat
        BY StingConstants
      <3>6. num < L + 1 /\ HashesOf(base)[num] = hash
        BY <3>3, <3>4, <3>5 DEF H!Blockhash
      <3>7. num \in 1..L
        BY <1>2, <3>3, <3>6
      <3>8. chain'[num].hash = hash
        BY <1>0, <1>2, <3>6, <3>7 DEF HashesOf, L
      <3> QED
        BY <1>2, <3>2, <3>3, <3>7, <3>8 DEF Stands
    <2>4. ASSUME NEW r \in Run, ClaimedIn(b.state, r) PROVE Stands(L + 1, r)'
      <3>1. CASE ClaimedIn(base[L].state, r)
        <4>1. L \in 1..L /\ base[L] = chain[L]
          BY <1>2
        <4> QED
          BY <2>1, <2>2, <3>1, <4>1
      <3>2. CASE \E i \in 1..Len(b.txs) : Collects(base, r, b.txs[i])
        <4>1. b.txs \in Seq(Tx)
          BY <1>1 DEF BlockData
        <4> QED
          BY <2>3, <3>2, <4>1, SeqRange
      <3> QED
        BY <1>1, <2>4, <3>1, <3>2 DEF EffectAll
    <2>5. ASSUME NEW m \in 1..Len(chain'), NEW r \in Run, ClaimedIn(chain'[m].state, r)
          PROVE  Stands(m, r)'
      BY <1>2, <2>1, <2>2, <2>4, <2>5
    <2> QED
      BY <2>5 DEF ClaimsStand, ClaimedIn
  <1> QED
    BY <1>3, <1>4, <1>5

\* A block on top of the chain.
LEMMA MineChain == ASSUME IInv, Mine PROVE ChainInv'
  <1>1. PICK b \in Blocks(chain, mempool) :
          chain' = Append(chain, b) /\ mempool' = mempool \ Range(b.txs)
    BY DEF Mine
  <1>2. minted' = minted + 1 /\ UNCHANGED <<reorgs, attested>>
    BY DEF Mine, history
  <1>3. Prefix(chain) /\ mempool \in SUBSET Tx /\ IsFiniteSet(mempool) /\ reorgs \in Nat
    BY DEF Prefix, IInv, ChainInv, ChainOK
  <1>4. ChainInv /\ Sent
    BY DEF IInv, ScriptInv
  <1> QED
    BY <1>1, <1>2, <1>3, <1>4, ExtendChain

\* A sequence has finitely many elements, and so have the blocks dropped.
LEMMA RangeFinite ==
    ASSUME NEW S, NEW s \in Seq(S)
    PROVE  IsFiniteSet(Range(s))
  <1>1. s \in [1..Len(s) -> Range(s)] /\ Len(s) \in Nat
    BY DEF Range
  <1>2. s \in Surjection(1..Len(s), Range(s))
    BY <1>1 DEF Surjection, Range
  <1>3. IsFiniteSet(1..Len(s))
    BY <1>1, FS_Interval
  <1> QED
    BY <1>2, <1>3, FS_Surjection

\* The chain holds finitely many transactions.
LEMMA BlocksFinite ==
    ASSUME ChainOK
    PROVE  IsFiniteSet(ChainTxs)
  <1> DEFINE upto(n) == UNION {Range(chain[i].txs) : i \in 1..n}
             S == {n \in 0..Len(chain) : IsFiniteSet(upto(n))}
  <1>1. Len(chain) \in Nat
    BY DEF ChainOK
  <1>2. 0 \in S
    <2>1. upto(0) = {}
      OBVIOUS
    <2> QED
      BY <1>1, <2>1, FS_EmptySet
  <1>3. ASSUME NEW n \in 0..(Len(chain) - 1), n \in S PROVE n + 1 \in S
    <2>1. n + 1 \in 1..Len(chain) /\ n \in Nat
      BY <1>1
    <2>2. upto(n + 1) = upto(n) \cup Range(chain[n + 1].txs)
      <3>1. 1..(n + 1) = (1..n) \cup {n + 1}
        BY <2>1
      <3> QED
        BY <3>1
    <2>3. chain[n + 1].txs \in Seq(Tx)
      BY <2>1, ChainTyped
    <2>4. IsFiniteSet(Range(chain[n + 1].txs))
      BY <2>3, RangeFinite
    <2>5. IsFiniteSet(upto(n))
      BY <1>3
    <2>6. IsFiniteSet(upto(n + 1))
      <3> HIDE DEF upto
      <3>1. IsFiniteSet(upto(n) \cup Range(chain[n + 1].txs))
        BY <2>4, <2>5, FS_Union, Zenon
      <3> QED
        BY <2>2, <3>1, Zenon
    <2> QED
      BY <2>1, <2>6
  <1>4. Len(chain) \in S
    <2> DEFINE N == Len(chain)
    <2> HIDE DEF S
    <2>1. \A n \in 0..(N - 1) : n \in S => n + 1 \in S
      BY <1>3
    <2> HIDE DEF N
    <2>2. N \in Nat
      BY <1>1 DEF N
    <2>3. \A n \in 0..N : n \in S
      BY <1>2, <2>1, <2>2, SetInduction
    <2>4. N \in S
      BY <2>2, <2>3
    <2> QED
      BY <2>4 DEF N
  <1> QED
    BY <1>4 DEF ChainTxs

\* A reorganisation undoes the claims of the blocks it drops.
LEMMA ReorgChain == ASSUME IInv, Reorg PROVE ChainInv'
  <1> USE DEF IInv, ChainInv
  <1>0. chain \in Seq(BlockData) /\ chain # <<>> /\ Len(chain) \in Nat /\ ReorgDepth \in Nat
    BY StingConstants DEF ChainOK
  <1>1. PICK d \in 1..ReorgDepth :
          /\ d < Len(chain)
          /\ LET base == SubSeq(chain, 1, BlockNumber - d)
                 dropped == UNION {Range(chain[n].txs) : n \in (BlockNumber - d + 1)..BlockNumber}
             IN  \E b \in Blocks(base, mempool \cup dropped) :
                    /\ chain' = Append(base, b)
                    /\ mempool' = (mempool \cup dropped) \ Range(b.txs)
    BY DEF Reorg, BlockNumber
  <1> DEFINE base == SubSeq(chain, 1, BlockNumber - d)
             dropped == UNION {Range(chain[n].txs) : n \in (BlockNumber - d + 1)..BlockNumber}
             pool == mempool \cup dropped
  <1>2. PICK b \in Blocks(base, pool) :
          chain' = Append(base, b) /\ mempool' = pool \ Range(b.txs)
    BY <1>1
  <1>3. minted' = minted + 1 /\ reorgs' = reorgs + 1 /\ UNCHANGED attested
    BY DEF Reorg, history
  <1>4. Prefix(base)
    <2>1. Len(chain) - d \in 1..Len(chain)
      BY <1>0, <1>1
    <2>2. /\ base \in Seq(BlockData) /\ Len(base) = Len(chain) - d
          /\ \A i \in 1..Len(base) : base[i] = chain[i]
      BY <1>0, <2>1 DEF BlockNumber
    <2>3. base # <<>> /\ Len(base) <= Len(chain)
      BY <2>1, <2>2
    <2> QED
      BY <2>2, <2>3 DEF Prefix
  <1>5. dropped \subseteq ChainTxs
    <2>1. \A n \in (BlockNumber - d + 1)..BlockNumber : n \in 1..Len(chain)
      BY <1>0, <1>1 DEF BlockNumber
    <2> QED
      BY <2>1 DEF ChainTxs
  <1>6. ChainTxs \subseteq Tx
    <2>1. \A n \in 1..Len(chain) : chain[n].txs \in Seq(Tx)
      BY ChainTyped
    <2> QED
      BY <2>1, SeqRange DEF ChainTxs
  <1> HIDE DEF dropped, base
  <1>7. pool \in SUBSET Tx /\ IsFiniteSet(pool) /\ pool \subseteq mempool \cup ChainTxs
    <2>a. IsFiniteSet(ChainTxs)
      BY BlocksFinite
    <2>b. dropped \in SUBSET ChainTxs
      BY <1>5
    <2>1. IsFiniteSet(dropped)
      BY <2>a, <2>b, FS_Subset
    <2>2. IsFiniteSet(mempool) /\ mempool \subseteq Tx
      BY DEF ChainOK
    <2>3. IsFiniteSet(mempool \cup dropped)
      BY <2>1, <2>2, FS_Union
    <2> QED
      BY <1>5, <1>6, <2>2, <2>3
  <1> HIDE DEF pool
  <1>8. reorgs' \in Nat
    BY <1>3 DEF ChainOK
  <1>9. ChainInv /\ Sent
    BY DEF ScriptInv
  <1> QED
    BY <1>2, <1>3, <1>4, <1>7, <1>8, <1>9, ExtendChain

-----------------------------------------------------------------------------
(* The scripts and the builder *)

\* Steps of the chain leave the scripts and the builder alone.
LEMMA ScriptStutter ==
    ScriptInv /\ UNCHANGED <<run, pc, file, loc, req, mevBundles, shared, leak, failed, attested>>
        => ScriptInv'
  BY DEF ScriptInv, Shape, OwnFiles, OwnLocals, Sent, BundleOK, LeakFound, Written

\* Steps of the scripts and the builder leave the chain alone.
LEMMA ChainStutter ==
    ChainInv /\ UNCHANGED <<chain, minted, reorgs, mempool, attested>> => ChainInv'
  BY DEF ChainInv, ChainOK, CollectsAttested, ChainTxs, ClaimsStand, Stands

\* A command that neither sends a bundle nor touches what it will look for.
LEMMA QuietStep ==
    ASSUME ScriptInv, Shape', OwnFiles', OwnLocals', UNCHANGED <<req, mevBundles, run>>,
           pc' \in Before => pc \in Before,
           pc' \notin {"stinger_wait", "poll", "make_evidence"}
    PROVE  ScriptInv'
  <1>1. Sent'
    BY DEF ScriptInv, Sent, BundleOK
  <1>2. LeakFound'
    BY DEF LeakFound
  <1> QED
    BY <1>1, <1>2 DEF ScriptInv

\* A run that ends, for whatever reason, leaves nothing to keep up.
LEMMA AbortStep ==
    ASSUME ScriptInv, Shape', pc' = "aborted", UNCHANGED <<req, mevBundles, run>>
    PROVE  ScriptInv'
  <1>1. OwnFiles' /\ OwnLocals'
    BY DEF OwnFiles, OwnLocals, AfterPoll, AfterSend, Verifying, Collecting
  <1>2. pc' \notin Before
    BY DEF Before
  <1> QED
    BY <1>1, <1>2, QuietStep

\* Commands that make this run's key, report and nonce, or clean up.
LEMMA SetupScript ==
    ASSUME IInv, CleanShared \/ gen_signingKey \/ SgxQuote \/ generate_bundle
                 \/ CleanLeak("clean_leak", "generate_bundle") \/ CleanLeak("clean_up", "done")
    PROVE  ScriptInv'
  <1> USE DEF IInv, ScriptInv
  <1>0. State.nonce \in Nat
    <2>1. Len(chain) \in 1..Len(chain)
      BY DEF ChainInv, ChainOK
    <2>2. chain[Len(chain)].state \in ChainState
      BY <2>1, ChainTyped DEF ChainInv
    <2> QED
      BY <2>2 DEF State, BlockNumber, ChainState
  <1> USE DEF Step, builderVars, history
  <1>1. /\ UNCHANGED <<run, loc, req, mevBundles, attested>>
        /\ Shape'
    BY DEF Shape, FileFields, LocFields, CleanShared, gen_signingKey, SgxQuote,
           generate_bundle, CleanLeak
  <1>2. OwnFiles'
    <2>1. CASE CleanShared
      BY <1>1, <2>1 DEF CleanShared, OwnFiles, AfterPoll, AfterSend, Verifying, Collecting
    <2>2. CASE gen_signingKey
      BY <1>1, <2>2 DEF gen_signingKey, Shape, FileFields, OwnFiles, AfterPoll, AfterSend,
                        Verifying, Collecting
    <2>3. CASE SgxQuote
      BY <1>1, <2>3 DEF SgxQuote, Shape, FileFields, OwnFiles, AfterPoll, AfterSend,
                        Verifying, Collecting
    <2>4. CASE generate_bundle
      BY <1>0, <1>1, <2>4 DEF generate_bundle, Shape, FileFields, OwnFiles, AfterPoll,
                        AfterSend, Verifying, Collecting
    <2>5. CASE CleanLeak("clean_leak", "generate_bundle") \/ CleanLeak("clean_up", "done")
      BY <1>1, <2>5 DEF CleanLeak, OwnFiles, AfterPoll, AfterSend, Verifying, Collecting
    <2> QED
      BY <2>1, <2>2, <2>3, <2>4, <2>5
  <1>3. /\ pc' \in Before => pc \in Before
        /\ pc' \notin {"stinger_wait", "poll", "make_evidence", "evidence_tx", "send_evidence"}
    BY DEF Before, CleanShared, gen_signingKey, SgxQuote, generate_bundle, CleanLeak
  <1>4. OwnLocals'
    BY <1>3 DEF OwnLocals
  <1> QED
    BY <1>1, <1>2, <1>3, <1>4, QuietStep

\* Sending a transaction and waiting for its receipt.
LEMMA SendScript ==
    ASSUME IInv, setup_bounty_contract \/ submit_enclave \/ approve_enclave \/ collect_bounty
    PROVE  ScriptInv'
  <1> USE DEF IInv, ScriptInv, Step, builderVars, history
  <1>1. /\ UNCHANGED <<run, req, mevBundles, attested>>
        /\ Shape'
    BY DEF Shape, FileFields, LocFields, setup_bounty_contract, submit_enclave,
           approve_enclave, collect_bounty, SendTx, WaitReceipt
  <1>2. /\ \/ UNCHANGED file
           \/ pc = "deploy_wait" /\ file' = [file EXCEPT !.contract = run]
        /\ \/ pc' = "aborted"
           \/ pc = "setup_bounty" /\ pc' = "deploy_wait"
           \/ pc = "deploy_wait" /\ pc' = "submit_enclave" /\ file' = [file EXCEPT !.contract = run]
           \/ pc = "submit_enclave" /\ pc' = "submit_wait"
           \/ pc = "submit_wait" /\ pc' = "approve_enclave"
           \/ pc = "approve_enclave" /\ pc' = "approve_wait"
           \/ pc = "approve_wait" /\ pc' = "clean_leak"
           \/ pc = "collect_bounty" /\ pc' = "collect_wait"
           \/ pc = "collect_wait" /\ pc' = "collect_check"
           \/ pc = "collect_check" /\ pc' = "clean_up"
    BY DEF setup_bounty_contract, submit_enclave, approve_enclave, collect_bounty,
           SendTx, WaitReceipt
  <1>3. CASE pc' = "aborted"
    BY <1>1, <1>3, AbortStep
  <1>4. CASE pc' # "aborted"
    <2>1. OwnFiles'
      BY <1>1, <1>2, <1>4 DEF Shape, FileFields, OwnFiles, AfterPoll, AfterSend,
                              Verifying, Collecting
    <2>2. OwnLocals'
      BY <1>2, <1>4 DEF OwnLocals
    <2>3. /\ pc' \in Before => pc \in Before
          /\ pc' \notin {"stinger_wait", "poll", "make_evidence"}
      BY <1>2, <1>4 DEF Before
    <2> QED
      BY <1>1, <2>1, <2>2, <2>3, QuietStep
  <1> QED
    BY <1>3, <1>4

\* The sting bundle of this run is the first of this run.
LEMMA StingerScript ==
    ASSUME IInv, make_bundle_stinger
    PROVE  ScriptInv'
  <1> USE DEF IInv, ScriptInv, Step
  <1>0. PICK b : b = [target |-> BlockNumber + TargetDelay,
                      txs |-> Sting2(run, file.stingNonce)]
    OBVIOUS
  <1>1. /\ pc = "create_stinger" /\ pc' = "stinger_wait"
        /\ req' = req \cup {b} /\ loc' = [loc EXCEPT !.bundle = b, !.target = b.target]
        /\ UNCHANGED <<mevBundles, shared, run, file, leak, failed, attested>>
    BY <1>0 DEF make_bundle_stinger, history, Sting2
  <1>2. b.target \in Nat \ {0}
    BY <1>0, StingConstants DEF ChainInv, ChainOK, BlockNumber
  <1>3. b.txs = Sting2(run, file.stingNonce) /\ b = [target |-> b.target, txs |-> b.txs]
    BY <1>0
  <1>4. Shape' /\ loc'.bundle = b /\ loc'.target = b.target
    BY <1>1 DEF Shape, FileFields, LocFields
  <1>5. OwnFiles'
    BY <1>1 DEF OwnFiles, AfterPoll, AfterSend, Verifying, Collecting
  <1>6. OwnLocals'
    BY <1>1, <1>2, <1>3, <1>4 DEF OwnLocals
  <1>7. Sent'
    <2>1. file.stingNonce \in Nat /\ run \in Run
      BY <1>1 DEF OwnFiles, Shape
    <2>2. BundleOK(b)'
      <3>1. run <= run
        BY <2>1, StingConstants DEF Run
      <3> QED
        BY <1>1, <1>2, <1>3, <2>1, <3>1 DEF BundleOK, Before
    <2>3. ASSUME NEW x \in req \cup mevBundles PROVE BundleOK(x)'
      <3>1. PICK r \in Run, n \in Nat :
                /\ r <= run /\ r # run
                /\ x.txs = Sting2(r, n) \/ \E m \in Nat : x.txs = Sting3(r, n, m)
        BY <1>1 DEF Sent, BundleOK, Before
      <3>2. x.target \in Nat \ {0}
        BY DEF Sent, BundleOK
      <3> QED
        BY <1>1, <3>1, <3>2 DEF BundleOK
    <2> QED
      BY <1>1, <2>2, <2>3 DEF Sent
  <1>8. LeakFound'
    <2>1. ASSUME NEW x \in mevBundles PROVE x.txs[1].run # run
      <3>1. PICK r \in Run, n \in Nat :
                /\ r # run
                /\ x.txs = Sting2(r, n) \/ \E m \in Nat : x.txs = Sting3(r, n, m)
        BY <1>1 DEF Sent, BundleOK, Before
      <3>2. PICK m \in Nat : x.txs = Sting2(r, n) \/ x.txs = Sting3(r, n, m)
        BY <3>1
      <3>3. x.txs[1] = PofTx(r)
        BY <3>2, BundleTxs
      <3> QED
        BY <3>1, <3>3 DEF PofTx
    <2> QED
      BY <1>1, <2>1 DEF LeakFound
  <1> QED
    BY <1>4, <1>5, <1>6, <1>7, <1>8

\* The builder's answer: the sting was written out, or that failed.
LEMMA AnswerScript ==
    ASSUME IInv, StingerSent
    PROVE  ScriptInv'
  <1> USE DEF IInv, ScriptInv, Step
  <1> DEFINE tx == StingTx(run, file.stingNonce)
             d == [target |-> loc.target, tx |-> tx, bundle |-> Sting2(run, file.stingNonce)]
  <1>1. /\ pc = "stinger_wait" /\ pc' = "poll" /\ loc.bundle \in mevBundles
        /\ UNCHANGED <<req, mevBundles, shared, run, leak, loc, failed, attested>>
    BY DEF StingerSent, builderVars, history
  <1>2. loc.bundle.txs = Sting2(run, file.stingNonce) /\ loc.target \in Nat \ {0}
    BY <1>1 DEF OwnLocals
  <1>3. Last(loc.bundle.txs) = tx
    BY <1>2 DEF Last, Sting2
  <1>4. file' = [file EXCEPT !.stingerTx = tx, !.stinger = d]
    BY <1>2, <1>3 DEF StingerSent
  <1>5. /\ d.target = loc.target /\ d.tx = tx /\ d.bundle = Sting2(run, file.stingNonce)
    OBVIOUS
  <1> HIDE DEF d
  <1>6. /\ Shape' /\ file'.stinger = d /\ file'.stingerTx = tx
        /\ file'.stingNonce = file.stingNonce /\ file'.key = file.key
        /\ file'.contract = file.contract
    BY <1>1, <1>4 DEF Shape, FileFields, LocFields
  <1>7. OwnFiles'
    BY <1>1, <1>2, <1>5, <1>6 DEF OwnFiles, AfterPoll, AfterSend, Verifying, Collecting
  <1>8. OwnLocals'
    BY <1>1 DEF OwnLocals
  <1>9. Sent'
    BY <1>1, <1>6 DEF Sent, BundleOK, Before
  <1>10. LeakFound'
    <2>1. loc.bundle.txs[1].run = run
      BY <1>2 DEF Sting2, PofTx
    <2> QED
      BY <1>1, <1>6, <2>1 DEF LeakFound, Written
  <1> QED
    BY <1>6, <1>7, <1>8, <1>9, <1>10

\* Polling copies the builder's files to the leaked ones.
LEMMA PollScript ==
    ASSUME IInv, PollLeak
    PROVE  ScriptInv'
  <1> USE DEF IInv, ScriptInv, Step
  <1>1. /\ pc = "poll" /\ pc' = "make_evidence" /\ leak' = leak \cup shared
        /\ UNCHANGED <<req, mevBundles, run, file, loc, failed, attested>>
    BY DEF PollLeak, history
  <1>2. Shape' /\ OwnLocals'
    BY <1>1 DEF Shape, OwnLocals
  <1>3. OwnFiles'
    BY <1>1 DEF OwnFiles, AfterPoll, AfterSend, Verifying, Collecting
  <1>4. Sent'
    BY <1>1 DEF Sent, BundleOK, Before
  <1>5. LeakFound'
    BY <1>1 DEF LeakFound, Written
  <1> QED
    BY <1>2, <1>3, <1>4, <1>5

\* The builder takes a bundle: of this run, while it is waited for, only the
\* sting bundle.
LEMMA BuilderScript ==
    ASSUME IInv, NEW b \in req, AddMevBundle(b)
    PROVE  ScriptInv'
  <1> USE DEF IInv, ScriptInv
  <1>1. /\ req' = req \ {b} /\ mevBundles' = mevBundles \cup {b}
        /\ UNCHANGED <<run, pc, file, loc, leak, attested>>
    BY DEF AddMevBundle
  <1>2. PICK k \in 0..Len(b.txs) :
          LET written == {b.txs[i] : i \in 1..k}
              lost == {tx \in Range(b.txs) \ written : tx.kind = "sting"}
          IN  /\ shared' = shared \cup written
              /\ failed' = failed \cup {tx.run : tx \in lost}
    BY DEF AddMevBundle
  <1>3. Shape' /\ OwnFiles' /\ OwnLocals'
    BY <1>1 DEF Shape, OwnFiles, OwnLocals
  <1>4. Sent'
    BY <1>1 DEF Sent, BundleOK
  <1>5. shared \subseteq shared' /\ failed \subseteq failed'
    BY <1>2
  <1>6. ASSUME pc \in {"stinger_wait", "poll"}, b.txs[1].run = run PROVE Written'
    <2>1. PICK r \in Run, n \in Nat :
            /\ b.txs = Sting2(r, n) \/ \E m \in Nat : b.txs = Sting3(r, n, m)
            /\ r = run => b.txs = Sting2(run, file.stingNonce)
      BY <1>6 DEF Sent, BundleOK
    <2>2. PICK m \in Nat : b.txs = Sting2(r, n) \/ b.txs = Sting3(r, n, m)
      BY <2>1
    <2>3. b.txs[1] = PofTx(r)
      BY <2>2 DEF Sting2, Sting3
    <2>4. b.txs = Sting2(run, file.stingNonce)
      BY <1>6, <2>1, <2>3 DEF PofTx
    <2> DEFINE tx == StingTx(run, file.stingNonce)
    <2>5. tx \in Range(b.txs) /\ tx.kind = "sting" /\ tx.run = run
      BY <2>4 DEF Sting2, Range, StingTx
    <2> QED
      BY <1>1, <1>2, <2>5 DEF Written
  <1>7. LeakFound'
    BY <1>1, <1>5, <1>6 DEF LeakFound, Written
  <1> QED
    BY <1>3, <1>4, <1>7

\* There is always a block, with a state.
LEMMA StateTyped ==
    ASSUME ChainOK
    PROVE  /\ Len(chain) \in Nat \ {0} /\ Len(chain) \in 1..Len(chain)
           /\ State \in ChainState /\ State.nonce \in Nat
  <1>1. Len(chain) \in Nat \ {0} /\ Len(chain) \in 1..Len(chain)
    BY DEF ChainOK
  <1>2. State \in ChainState
    BY <1>1, ChainTyped DEF State, BlockNumber
  <1> QED
    BY <1>1, <1>2 DEF ChainState

\* make_evidence up to the evidence bundle.
LEMMA EvidenceScript ==
    ASSUME IInv, OpenLeak \/ EvidenceTx
    PROVE  ScriptInv'
  <1> USE DEF IInv, ScriptInv, Step
  <1>1. UNCHANGED <<run, req, mevBundles, file, attested>> /\ Shape'
    BY DEF OpenLeak, EvidenceTx, builderVars, history, Shape, LocFields
  <1>2. CASE pc' = "aborted"
    BY <1>1, <1>2, AbortStep
  <1>3. CASE OpenLeak /\ pc' # "aborted"
    <2>1. pc = "make_evidence" /\ pc' = "evidence_tx" /\ loc'.victim = file.stinger.tx
      BY <1>3 DEF OpenLeak, Shape, LocFields
    <2>2. OwnFiles'
      BY <1>1, <2>1 DEF OwnFiles, AfterPoll, AfterSend, Verifying, Collecting
    <2>3. OwnLocals'
      BY <1>1, <2>1 DEF OwnLocals, OwnFiles, AfterPoll
    <2> QED
      BY <1>1, <2>1, <2>2, <2>3, QuietStep DEF Before
  <1>4. CASE EvidenceTx
    <2>1. /\ pc = "evidence_tx" /\ pc' = "send_evidence"
          /\ loc'.tx = AdvTx(run, State.nonce + 1, loc.victim)
      BY <1>4 DEF EvidenceTx, Shape, LocFields
    <2>2. OwnFiles'
      BY <1>1, <2>1 DEF OwnFiles, AfterPoll, AfterSend, Verifying, Collecting
    <2>3. State.nonce + 1 \in Nat /\ loc.victim = StingTx(run, file.stingNonce)
      BY <2>1, StateTyped DEF ChainInv, OwnLocals
    <2>4. OwnLocals'
      BY <1>1, <2>1, <2>3 DEF OwnLocals
    <2> QED
      BY <1>1, <2>1, <2>2, <2>4, QuietStep DEF Before
  <1> QED
    BY <1>2, <1>3, <1>4 DEF EvidenceTx

\* The evidence bundle is the sting bundle and the evidence transaction.
LEMMA SendEvidenceScript ==
    ASSUME IInv, SendEvidence
    PROVE  ScriptInv'
  <1> USE DEF IInv, ScriptInv, Step
  <1>1. pc = "send_evidence" /\ UNCHANGED <<run, mevBundles, file, attested>> /\ Shape'
    BY DEF SendEvidence, builderVars, history, Shape, LocFields
  <1>2. PICK b : b = [target |-> file.stinger.target,
                      txs |-> Append(file.stinger.bundle, loc.tx)]
    OBVIOUS
  <1>3. \/ pc' = "aborted" /\ UNCHANGED req
        \/ pc' = "evidence_wait" /\ req' = req \cup {b}
    BY <1>2 DEF SendEvidence
  <1>4. CASE pc' = "aborted" /\ UNCHANGED req
    BY <1>1, <1>4, AbortStep
  <1>5. CASE pc' = "evidence_wait" /\ req' = req \cup {b}
    <2>1. OwnFiles' /\ OwnLocals' /\ LeakFound'
      BY <1>1, <1>5 DEF OwnFiles, AfterPoll, AfterSend, Verifying, Collecting, OwnLocals,
                        LeakFound
    <2>2. PICK m \in Nat : loc.tx = AdvTx(run, m, StingTx(run, file.stingNonce))
      BY <1>1 DEF OwnLocals
    <2>3. /\ file.stinger.bundle = Sting2(run, file.stingNonce)
          /\ file.stingNonce \in Nat /\ file.stinger.target \in Nat \ {0}
      BY <1>1 DEF OwnFiles, AfterPoll
    <2>4. b.target = file.stinger.target /\ b.txs = Sting3(run, file.stingNonce, m)
      <3>1. b.target = file.stinger.target /\ b.txs = Append(file.stinger.bundle, loc.tx)
        BY <1>2
      <3> QED
        BY <2>2, <2>3, <3>1, AppendPair DEF Sting2, Sting3
    <2>5. run \in Run /\ run <= run
      BY StingConstants DEF Shape, Run
    <2>6. BundleOK(b)'
      BY <1>1, <1>5, <2>3, <2>4, <2>5 DEF BundleOK, Before
    <2>7. \A x \in req \cup mevBundles : BundleOK(x)'
      BY <1>1, <1>5 DEF Sent, BundleOK, Before
    <2>8. Sent'
      BY <1>1, <1>5, <2>6, <2>7 DEF Sent
    <2> QED
      BY <1>1, <2>1, <2>8
  <1> QED
    BY <1>3, <1>4, <1>5

\* The rest of make_evidence, and verify_evidence.
LEMMA VerifyScript ==
    ASSUME IInv,
           \/ WaitTarget \/ GetReceipt("victim_receipt", "victim_proof", loc.victim)
           \/ VictimProof \/ GetReceipt("adv_receipt", "adv_proof", loc.tx) \/ AdvProof
           \/ VerifyAdv \/ VerifyVictim \/ SignEvidence
    PROVE  ScriptInv'
  <1> USE DEF IInv, ScriptInv, Step
  <1>1. UNCHANGED <<run, req, mevBundles>> /\ attested \subseteq attested'
    BY DEF WaitTarget, GetReceipt, VictimProof, AdvProof, VerifyAdv, VerifyVictim,
           SignEvidence, builderVars, history
  <1>2. Shape'
    <2>1. CASE SignEvidence
      BY <1>1, <2>1 DEF Shape, FileFields, LocFields, SignEvidence
    <2> QED
      BY <2>1 DEF Shape, FileFields, LocFields, WaitTarget, GetReceipt, VictimProof,
                  AdvProof, VerifyAdv, VerifyVictim
  <1>3. CASE pc' = "aborted"
    BY <1>1, <1>2, <1>3, AbortStep
  <1>4. CASE pc' # "aborted"
    <2>1. \/ UNCHANGED file /\ \/ pc = "evidence_wait" /\ pc' = "victim_receipt"
                               \/ pc = "victim_receipt" /\ pc' = "victim_proof"
                               \/ pc = "victim_proof" /\ pc' = "adv_receipt"
                               \/ pc = "adv_receipt" /\ pc' = "adv_proof"
                               \/ pc = "verify_adv" /\ pc' = "verify_victim"
                               \/ pc = "verify_victim" /\ pc' = "sign_evidence"
          \/ /\ pc = "adv_proof" /\ pc' = "verify_adv"
             /\ file'.verify.target = file.stinger.target
             /\ \A f \in FileFields : f # "verify" => file'[f] = file[f]
          \/ /\ pc = "sign_evidence" /\ pc' = "collect_bounty"
             /\ file'.proof \in attested'
             /\ \A f \in FileFields : f # "proof" => file'[f] = file[f]
      <3>1. CASE AdvProof
        BY <1>4, <3>1 DEF AdvProof, Shape, FileFields
      <3>2. CASE SignEvidence
        BY <1>4, <3>2 DEF SignEvidence, Shape, FileFields
      <3> QED
        BY <1>4, <3>1, <3>2 DEF WaitTarget, GetReceipt, VictimProof, VerifyAdv, VerifyVictim
    <2>2. OwnFiles'
      BY <1>1, <2>1 DEF FileFields, OwnFiles, AfterPoll, AfterSend, Verifying, Collecting
    <2>3. OwnLocals'
      BY <2>1 DEF OwnLocals
    <2>4. pc' \notin Before /\ pc' \notin {"stinger_wait", "poll", "make_evidence"}
      BY <2>1 DEF Before
    <2> QED
      BY <1>1, <1>2, <2>2, <2>3, <2>4, QuietStep
  <1> QED
    BY <1>3, <1>4

\* Timeouts, crashes and the next run.
LEMMA EndScript ==
    ASSUME IInv, Timeout \/ Crash \/ Restart
    PROVE  ScriptInv'
  <1> USE DEF IInv, ScriptInv
  <1>1. CASE Timeout \/ Crash
    BY <1>1, AbortStep DEF Timeout, Crash, builderVars, Shape
  <1>2. CASE Restart
    <2>1. /\ pc \in Ended /\ pc' = "clean_shared" /\ run' = run + 1 /\ run < MaxRuns
          /\ loc' = NoLocals /\ UNCHANGED <<req, mevBundles, shared, file, leak, failed, attested>>
      BY <1>2 DEF Restart, builderVars, history
    <2>2. run \in Run /\ run + 1 \in Run /\ run \in Int
      BY <2>1, StingConstants DEF Shape, Run
    <2>3. Shape'
      BY <2>1, <2>2 DEF Shape, NoLocals, LocFields, FileFields
    <2>4. OwnFiles' /\ OwnLocals' /\ LeakFound'
      BY <2>1 DEF OwnFiles, AfterPoll, AfterSend, Verifying, Collecting, OwnLocals, LeakFound
    <2>5. ASSUME NEW x \in req \cup mevBundles PROVE BundleOK(x)'
      <3>1. PICK r \in Run, n \in Nat :
                /\ r <= run
                /\ x.txs = Sting2(r, n) \/ \E m \in Nat : x.txs = Sting3(r, n, m)
        BY DEF Sent, BundleOK
      <3>2. r <= run + 1 /\ r # run + 1
        BY <2>2, <3>1, StingConstants DEF Run
      <3>3. x.target \in Nat \ {0}
        BY DEF Sent, BundleOK
      <3> QED
        BY <2>1, <3>1, <3>2, <3>3 DEF BundleOK
    <2> QED
      BY <2>1, <2>3, <2>4, <2>5 DEF Sent
  <1> QED
    BY <1>1, <1>2

\* A transaction is sent: collect transactions with the proof the enclave signed.
LEMMA SendChain ==
    ASSUME IInv, setup_bounty_contract \/ submit_enclave \/ approve_enclave \/ collect_bounty
    PROVE  ChainInv'
  <1> USE DEF IInv, ChainInv
  <1>1. UNCHANGED <<chain, minted, reorgs, attested>>
    BY DEF setup_bounty_contract, submit_enclave, approve_enclave, collect_bounty, SendTx,
           WaitReceipt, chainVars, history
  <1>2. run \in Run
    BY DEF ScriptInv, Shape
  <1>3. \/ UNCHANGED mempool
        \/ \E tx \in Tx : /\ mempool' = mempool \cup {tx}
                          /\ tx.kind = "collect" => tx.proof \in attested
    <2>1. CASE setup_bounty_contract
      <3>1. DeployTx(run) \in Tx /\ DeployTx(run).kind = "deploy"
        BY <1>2 DEF Tx, DeployTx
      <3> QED
        BY <2>1, <3>1 DEF setup_bounty_contract, SendTx, WaitReceipt, chainVars
    <2>2. CASE submit_enclave
      <3> DEFINE data == IF SGX THEN file.report
                         ELSE [sgx_report |-> Unnamed, ias_sig |-> "bogus"]
      <3>1. CASE pc = "submit_enclave"
        <4>1. file.contract = run
          BY <3>1 DEF ScriptInv, OwnFiles
        <4>2. data \in H!EnclaveData
          BY <1>2, <3>1, StingConstants DEF ScriptInv, OwnFiles, H!EnclaveData, H!IasSig
        <4> HIDE DEF data
        <4>3. SubmitTx(run, data) \in Tx /\ SubmitTx(run, data).kind = "submit"
          BY <1>2, <4>2 DEF Tx, SubmitTx
        <4>4. \/ SendTx("submit_enclave", "submit_wait", SGX => data.sgx_report = file.key,
                        SubmitTx(file.contract, data))
              \/ UNCHANGED mempool
          BY <2>2 DEF submit_enclave, data, WaitReceipt, chainVars
        <4> QED
          BY <4>1, <4>3, <4>4 DEF SendTx
      <3>2. CASE pc # "submit_enclave"
        BY <2>2, <3>2 DEF submit_enclave, SendTx, Step, WaitReceipt, chainVars
      <3> QED
        BY <3>1, <3>2
    <2>3. CASE approve_enclave
      <3>1. CASE pc = "approve_enclave"
        <4>1. file.contract = run
          BY <3>1 DEF ScriptInv, OwnFiles
        <4>2. ApproveTx(run) \in Tx /\ ApproveTx(run).kind = "approve"
          BY <1>2 DEF Tx, ApproveTx
        <4> QED
          BY <2>3, <4>1, <4>2 DEF approve_enclave, SendTx, WaitReceipt, chainVars
      <3>2. CASE pc # "approve_enclave"
        BY <2>3, <3>2 DEF approve_enclave, SendTx, Step, WaitReceipt, chainVars
      <3> QED
        BY <3>1, <3>2
    <2>4. CASE collect_bounty
      <3>1. CASE pc = "collect_bounty"
        <4>1. file.contract = run /\ file.proof \in attested /\ file.proof \in ProofData
          BY <3>1 DEF ScriptInv, OwnFiles
        <4> DEFINE tx == CollectTx(run, file.proof)
        <4>2. tx \in Tx /\ tx.proof = file.proof
          BY <1>2, <4>1 DEF Tx, CollectTx
        <4> QED
          BY <2>4, <4>1, <4>2 DEF collect_bounty, SendTx, WaitReceipt, chainVars
      <3>2. CASE pc # "collect_bounty"
        BY <2>4, <3>2 DEF collect_bounty, SendTx, Step, WaitReceipt, chainVars
      <3> QED
        BY <3>1, <3>2
    <2> QED
      BY <2>1, <2>2, <2>3, <2>4
  <1>4. CASE UNCHANGED mempool
    BY <1>1, <1>4, ChainStutter
  <1>5. ASSUME NEW tx \in Tx, mempool' = mempool \cup {tx},
               tx.kind = "collect" => tx.proof \in attested
        PROVE  ChainInv'
    <2>1. IsFiniteSet(mempool')
      BY <1>5, FS_AddElement DEF ChainOK
    <2>2. ChainOK'
      BY <1>1, <1>5, <2>1 DEF ChainOK
    <2>3. CollectsAttested'
      BY <1>1, <1>5 DEF CollectsAttested, ChainTxs
    <2>4. ClaimsStand'
      BY <1>1 DEF ClaimsStand, Stands
    <2> QED
      BY <1>1, <2>2, <2>3, <2>4
  <1> QED
    BY <1>3, <1>4, <1>5

\* The enclave signs a block of the chain.
LEMMA SignChain ==
    ASSUME IInv, SignEvidence
    PROVE  ChainInv'
  <1> USE DEF IInv, ChainInv
  <1> DEFINE n == file.verify.target
             proof == [signer |-> file.key, blob |-> [num |-> n, hash |-> chain[n].hash]]
  <1>1. /\ UNCHANGED <<chain, minted, reorgs, mempool>>
        /\ \/ UNCHANGED attested
           \/ n <= BlockNumber /\ attested' = attested \cup {proof}
    BY DEF SignEvidence, chainVars
  <1>2. file.key = run /\ run \in Run /\ n \in Nat \ {0}
    BY DEF SignEvidence, Step, ScriptInv, Shape, OwnFiles, Verifying, AfterPoll, AfterSend
  <1>3. CASE UNCHANGED attested
    BY <1>1, <1>3, ChainStutter
  <1>4. CASE n <= BlockNumber /\ attested' = attested \cup {proof}
    <2>1. n \in 1..Len(chain)
      BY <1>2, <1>4, StateTyped DEF BlockNumber
    <2>2. chain[n].hash \in Nat
      BY <2>1, ChainTyped
    <2>3. proof \in ProofData
      BY <1>2, <2>2 DEF ProofData
    <2>4. ChainOK' /\ CollectsAttested' /\ ClaimsStand'
      BY <1>1, <1>4 DEF ChainOK, CollectsAttested, ChainTxs, ClaimsStand, Stands
    <2> QED
      BY <1>4, <2>3, <2>4
  <1> QED
    BY <1>1, <1>3, <1>4

\* Initially there is the genesis block and the first command.
LEMMA InitIInv == Init => IInv
  <1> SUFFICES ASSUME Init PROVE IInv
    OBVIOUS
  <1> USE DEF Init
  <1>0. Genesis.hash = 1 /\ Genesis.txs = <<>> /\ Genesis.state.contract = [r \in Run |-> None]
    BY DEF Genesis
  <1>1. Genesis \in BlockData
    <2>1. Genesis.state \in ChainState
      BY DEF Genesis, ChainState
    <2>2. <<>> \in Seq(Tx)
      OBVIOUS
    <2> QED
      BY <2>1, <2>2 DEF Genesis, BlockData
  <1>2. ChainOK
    <2>1. /\ chain \in Seq(BlockData) /\ chain # <<>> /\ Len(chain) = 1 /\ chain[1] = Genesis
      BY <1>1
    <2> QED
      BY <1>0, <2>1, FS_EmptySet DEF ChainOK
  <1>3. CollectsAttested /\ ClaimsStand
    <2>1. ChainTxs = {}
      BY <1>0 DEF ChainTxs, Range
    <2> QED
      BY <1>0, <2>1 DEF CollectsAttested, ClaimsStand
  <1>4. Shape
    BY StingConstants DEF Shape, Run, FileFields, LocFields, NoFiles, NoLocals
  <1>5. OwnFiles /\ OwnLocals /\ Sent /\ LeakFound
    BY DEF OwnFiles, AfterPoll, AfterSend, Verifying, Collecting, OwnLocals, Sent, LeakFound
  <1> QED
    BY <1>2, <1>3, <1>4, <1>5 DEF IInv, ChainInv, ScriptInv

\* Every step keeps the chain's and the scripts' part.
LEMMA NextIInv == IInv /\ [Next]_vars => IInv'
  <1> SUFFICES ASSUME IInv, [Next]_vars PROVE IInv'
    OBVIOUS
  <1>1. ScriptInv /\ ChainInv
    BY DEF IInv
  <1>2. CASE Mine \/ Reorg
    <2>1. UNCHANGED <<run, pc, file, loc, req, mevBundles, shared, leak, failed, attested>>
      BY <1>2 DEF Mine, Reorg, builderVars, history
    <2> QED
      BY <1>1, <1>2, <2>1, ScriptStutter, MineChain, ReorgChain DEF IInv
  <1>3. CASE Builder
    <2>1. UNCHANGED <<chain, minted, reorgs, mempool, attested>>
      BY <1>3 DEF Builder, AddMevBundle, chainVars
    <2> QED
      BY <1>1, <1>3, <2>1, BuilderScript, ChainStutter DEF Builder, IInv
  <1>4. CASE setup_bounty_contract \/ submit_enclave \/ approve_enclave \/ collect_bounty
    BY <1>4, SendScript, SendChain DEF IInv
  <1>5. CASE SignEvidence
    BY <1>5, VerifyScript, SignChain DEF IInv
  <1>6. ASSUME UNCHANGED <<chain, minted, reorgs, mempool, attested>>, ScriptInv'
        PROVE  IInv'
    BY <1>1, <1>6, ChainStutter DEF IInv
  <1>7. CASE \/ CleanShared \/ gen_signingKey \/ SgxQuote \/ generate_bundle
             \/ CleanLeak("clean_leak", "generate_bundle") \/ CleanLeak("clean_up", "done")
    <2>1. UNCHANGED <<chain, minted, reorgs, mempool, attested>>
      BY <1>7 DEF CleanShared, gen_signingKey, SgxQuote, generate_bundle, CleanLeak,
                  chainVars, history
    <2> QED
      BY <1>6, <1>7, <2>1, SetupScript
  <1>8. CASE make_bundle_stinger \/ StingerSent \/ PollLeak
    <2>1. UNCHANGED <<chain, minted, reorgs, mempool, attested>>
      BY <1>8 DEF make_bundle_stinger, StingerSent, PollLeak, chainVars, history
    <2> QED
      BY <1>6, <1>8, <2>1, StingerScript, AnswerScript, PollScript
  <1>9. CASE make_evidence
    <2>1. UNCHANGED <<chain, minted, reorgs, mempool, attested>>
      BY <1>9 DEF make_evidence, OpenLeak, EvidenceTx, SendEvidence, WaitTarget, GetReceipt,
                  VictimProof, AdvProof, chainVars, history
    <2>2. ScriptInv'
      BY <1>9, EvidenceScript, SendEvidenceScript, VerifyScript DEF make_evidence
    <2> QED
      BY <1>6, <2>1, <2>2
  <1>10. CASE VerifyAdv \/ VerifyVictim
    <2>1. UNCHANGED <<chain, minted, reorgs, mempool, attested>>
      BY <1>10 DEF VerifyAdv, VerifyVictim, chainVars, history
    <2> QED
      BY <1>6, <1>10, <2>1, VerifyScript
  <1>11. CASE Timeout \/ Crash \/ Restart
    <2>1. UNCHANGED <<chain, minted, reorgs, mempool, attested>>
      BY <1>11 DEF Timeout, Crash, Restart, chainVars, history
    <2> QED
      BY <1>6, <1>11, <2>1, EndScript
  <1>12. CASE UNCHANGED vars
    BY <1>1, <1>12, ScriptStutter, ChainStutter DEF IInv, vars, chainVars, builderVars, history
  <1>13. CASE RunSh
    BY <1>4, <1>5, <1>7, <1>8, <1>9, <1>10, <1>13 DEF RunSh, verify_evidence
  <1> QED
    BY <1>2, <1>3, <1>11, <1>12, <1>13 DEF Next

\* The inductive invariant holds throughout: with crashes, timeouts, restarts
\* and reorganisations (run.sh, the builder, the contract).
THEOREM Invariance == Spec => []IInv
  BY InitIInv, NextIInv, PTL DEF Spec

\* Polling ends only with this run's sting transaction among the leaked files,
\* unless the builder failed to write it (rm of /shared, eth_sendBundle).
THEOREM PollFindsSting == Spec => []PollFindsOwnSting
  <1>1. IInv => PollFindsOwnSting
    BY DEF IInv, ScriptInv, OwnFiles, AfterPoll, LeakFound, PollFindsOwnSting
  <1> QED
    BY <1>1, Invariance, PTL

\* The evidence commits to the sting transaction of its own run.
THEOREM EvidenceOfRun == Spec => []EvidenceOfThisRun
  <1>1. IInv => EvidenceOfThisRun
    <2> SUFFICES ASSUME IInv, pc = "send_evidence" PROVE loc.tx.commit.run = run
      BY DEF EvidenceOfThisRun
    <2>1. PICK m \in Nat : loc.tx = AdvTx(run, m, StingTx(run, file.stingNonce))
      BY DEF IInv, ScriptInv, OwnLocals
    <2> QED
      BY <2>1 DEF AdvTx, StingTx
  <1> QED
    BY <1>1, Invariance, PTL

\* The claims of the last block are those ClaimStandsOnItsBlock speaks of.
LEMMA ClaimIsStanding == IInv => ClaimStandsOnItsBlock
  <1> SUFFICES ASSUME IInv, NEW r \in Run, Claimed(r) PROVE Stands(Len(chain), r)
    BY DEF ClaimStandsOnItsBlock, Stands, BlockNumber
  <1>1. Len(chain) \in 1..Len(chain)
    BY StateTyped DEF IInv, ChainInv
  <1> QED
    BY <1>1 DEF IInv, ChainInv, ClaimsStand, Claimed, State, BlockNumber

\* Also across reorganisations a claim stands on a chain that contains the
\* block the enclave signed (blockhash check of collectBounty).
THEOREM ClaimStands == Spec => []ClaimStandsOnItsBlock
  BY ClaimIsStanding, Invariance, PTL

-----------------------------------------------------------------------------
(***************************************************************************)
(* What the sting guarantees as long as the chain has not reorganised: the *)
(* bounty is paid for evidence only, "done" means paid, and the enclave    *)
(* signs the block it verified.  With reorganisations all three can fail.  *)
(* The last part shows that the sting then implements StingAbs: no run is  *)
(* paid without attestation, attested without evidence on the chain, or    *)
(* has evidence on the chain of a sting that was not leaked.               *)
(***************************************************************************)

\* Only the scripts' plain transactions are public.
PlainMempool == \A tx \in mempool : tx.kind \notin {"pof", "sting", "adv"}

\* What is in a file was leaked, at a height the chain has reached.
LeakPast ==
    /\ \A l \in leakLog : l.at \in Nat /\ l.at <= Len(chain)
    /\ \A tx \in shared \cup leak : \E l \in leakLog : l.tx = tx

LeakKnown ==
    /\ pc \in {"evidence_tx", "send_evidence"} =>
          \E l \in leakLog : l.tx = StingTx(run, file.stingNonce)
    /\ pc \in AfterSend =>
          \E l \in leakLog : /\ l.tx = StingTx(run, file.stingNonce)
                             /\ l.at < file.stinger.target

\* A proof blob was made from a block of the chain.
FromChain(v) == \E m \in 1..Len(chain) : /\ v.header = chain[m].hash
                                         /\ v.tx \in Range(chain[m].txs)

\* Receipts and proofs refer to blocks that are still there.
Receipts ==
    /\ pc \in {"victim_proof", "adv_proof"} => loc.receipt.num \in Nat \ {0}
    /\ pc \in {"adv_receipt", "adv_proof"} => FromChain(loc.victim)
    /\ pc \in Verifying \cup {"collect_bounty"} =>
          FromChain(file.verify.victim) /\ FromChain(file.verify.adv)
    /\ pc \in {"verify_victim", "sign_evidence", "collect_bounty"} =>
          file.verify.target \in Nat \ {0} /\ ProofHolds(file.verify.target, file.verify.adv)
    /\ pc \in {"sign_evidence", "collect_bounty"} =>
          /\ ProofHolds(file.verify.target, file.verify.victim)
          /\ EvidenceChecks(file.verify)
    /\ pc = "collect_bounty" => file.proof.blob.hash = chain[file.verify.target].hash

\* Attestations are given for evidence.
Evidenced == \A p \in attested : /\ p.blob.num \in 1..Len(chain)
                                 /\ Evidence(p.signer, p.blob.num)

\* A contract is deployed at most once, after its run has started.
NotDeployed == {"clean_shared", "gen_signing_key", "sgx_quote", "setup_bounty"}
DeployOnce ==
    \A r \in Run :
        /\ DeployTx(r) \in mempool => DeployTx(r) \notin ChainTxs
        /\ State.contract[r] # None => DeployTx(r) \in ChainTxs
        /\ DeployTx(r) \in mempool \cup ChainTxs =>
              r <= run /\ (r = run => pc \notin NotDeployed)

Paid == pc \in {"clean_up", "done"} => Claimed(run)

EInv == /\ PlainMempool /\ LeakPast /\ LeakKnown /\ Receipts
        /\ Evidenced /\ DeployOnce /\ Paid
Calm == reorgs = 0 => EInv

\* Where LeakKnown and Receipts say something.
Witnessing == {"evidence_tx", "send_evidence", "collect_bounty"} \cup AfterSend

-----------------------------------------------------------------------------
(* Steps that leave the chain alone *)

\* A step to a command that relies on neither leak nor proofs.
LEMMA QuietEvidence ==
    ASSUME EInv, UNCHANGED <<chain, mempool, run, leakLog, attested>>,
           shared' \cup leak' \subseteq shared \cup leak,
           pc' \notin Witnessing, pc' \in NotDeployed => pc \in NotDeployed,
           pc' \in {"clean_up", "done"} => Claimed(run)
    PROVE  EInv'
  <1> USE DEF EInv
  <1>1. PlainMempool' /\ LeakPast' /\ Evidenced'
    BY DEF PlainMempool, LeakPast, Evidenced, Evidence
  <1>2. LeakKnown' /\ Receipts'
    BY DEF LeakKnown, Receipts, Witnessing, AfterSend, Verifying
  <1>3. DeployOnce'
    BY DEF DeployOnce, State, BlockNumber, ChainTxs
  <1>4. Paid'
    BY DEF Paid, Claimed, State, BlockNumber
  <1> QED
    BY <1>1, <1>2, <1>3, <1>4

\* Commands before the evidence, and the end of a run.
LEMMA SetupEvidence ==
    ASSUME IInv, EInv,
           \/ CleanShared \/ gen_signingKey \/ SgxQuote \/ generate_bundle
           \/ CleanLeak("clean_leak", "generate_bundle") \/ CleanLeak("clean_up", "done")
           \/ make_bundle_stinger \/ StingerSent \/ PollLeak
           \/ Timeout \/ Crash
    PROVE  EInv'
  <1> USE DEF Step, chainVars, builderVars, history
  <1>1. /\ UNCHANGED <<chain, mempool, run, leakLog, attested>>
        /\ shared' \cup leak' \subseteq shared \cup leak
    BY DEF CleanShared, gen_signingKey, SgxQuote, generate_bundle, CleanLeak,
           make_bundle_stinger, StingerSent, PollLeak, Timeout, Crash
  <1>2. /\ pc' \notin Witnessing
        /\ pc' \in NotDeployed => pc \in NotDeployed
        /\ pc' \in {"clean_up", "done"} => pc = "clean_up"
    <2>1. \/ pc = "clean_shared" /\ pc' = "gen_signing_key"
          \/ pc = "gen_signing_key" /\ pc' \in {"sgx_quote", "setup_bounty"}
          \/ pc = "sgx_quote" /\ pc' = "setup_bounty"
          \/ pc = "clean_up" /\ pc' = "done"
          \/ pc' \in {"create_stinger", "generate_bundle", "stinger_wait", "poll",
                      "make_evidence", "aborted"}
      BY DEF CleanShared, gen_signingKey, SgxQuote, generate_bundle, CleanLeak,
             make_bundle_stinger, StingerSent, PollLeak, Timeout, Crash
    <2> QED
      BY <2>1 DEF Witnessing, AfterSend, Verifying, NotDeployed
  <1>3. pc = "clean_up" => Claimed(run)
    BY DEF EInv, Paid
  <1> QED
    BY <1>1, <1>2, <1>3, QuietEvidence

\* Files of an earlier run stay, but its contract is not this run's.
LEMMA RestartEvidence ==
    ASSUME IInv, EInv, Restart
    PROVE  EInv'
  <1> USE DEF EInv
  <1>1. /\ UNCHANGED <<chain, mempool, leakLog, attested, shared, leak>>
        /\ run' = run + 1 /\ pc' = "clean_shared"
    BY DEF Restart, chainVars, builderVars, history
  <1>2. PlainMempool' /\ LeakPast' /\ Evidenced'
    BY <1>1 DEF PlainMempool, LeakPast, Evidenced, Evidence
  <1>3. LeakKnown' /\ Receipts' /\ Paid'
    BY <1>1 DEF LeakKnown, Receipts, Paid, AfterSend, Verifying
  <1>4. run \in Int /\ Run \subseteq Int
    BY StingConstants DEF IInv, ScriptInv, Shape, Run
  <1>5. DeployOnce'
    BY <1>1, <1>4 DEF DeployOnce, State, BlockNumber, ChainTxs
  <1> QED
    BY <1>2, <1>3, <1>5

\* A transaction is sent, or a script has waited for one.
LEMMA SendEvidenceKept ==
    ASSUME IInv, EInv, setup_bounty_contract \/ submit_enclave \/ approve_enclave
                       \/ collect_bounty
    PROVE  EInv'
  <1> USE DEF EInv, Step, chainVars, builderVars, history
  <1>1. UNCHANGED <<chain, run, leakLog, attested, shared, leak>>
    BY DEF setup_bounty_contract, submit_enclave, approve_enclave, collect_bounty,
           SendTx, WaitReceipt
  <1>2. \/ pc' = "aborted"
        \/ pc = "setup_bounty" /\ pc' = "deploy_wait"
        \/ pc' \in {"submit_enclave", "submit_wait", "approve_enclave", "approve_wait",
                    "clean_leak", "collect_wait", "collect_check"}
        \/ pc = "collect_check" /\ pc' = "clean_up"
    BY DEF setup_bounty_contract, submit_enclave, approve_enclave, collect_bounty,
           SendTx, WaitReceipt
  <1>3. pc' \notin Witnessing /\ pc' \notin NotDeployed
    BY <1>2 DEF Witnessing, AfterSend, Verifying, NotDeployed
  <1>4. pc' \in {"clean_up", "done"} => Claimed(run)
    <2> SUFFICES ASSUME pc' \in {"clean_up", "done"} PROVE Claimed(run)
      OBVIOUS
    <2>1. pc = "collect_check" /\ pc' = "clean_up"
      BY <1>2
    <2>2. file.contract = run
      BY <2>1 DEF IInv, ScriptInv, OwnFiles
    <2> QED
      BY <2>1, <2>2 DEF setup_bounty_contract, submit_enclave, approve_enclave,
                        collect_bounty, SendTx, WaitReceipt, Claimed
  <1>5. CASE UNCHANGED mempool
    BY <1>1, <1>3, <1>4, <1>5, QuietEvidence
  <1>6. CASE mempool' # mempool
    <2>1. PICK tx : /\ mempool' = mempool \cup {tx}
                    /\ tx.kind \in {"deploy", "submit", "approve", "collect"}
                    /\ tx.kind = "deploy" => tx = DeployTx(run) /\ pc = "setup_bounty"
                    /\ pc' \in {"deploy_wait", "submit_wait", "approve_wait", "collect_wait"}
      <3>1. CASE setup_bounty_contract
        BY <1>6, <3>1 DEF setup_bounty_contract, SendTx, WaitReceipt, DeployTx
      <3>2. CASE submit_enclave
        BY <1>6, <3>2 DEF submit_enclave, SendTx, WaitReceipt, SubmitTx
      <3>3. CASE approve_enclave
        BY <1>6, <3>3 DEF approve_enclave, SendTx, WaitReceipt, ApproveTx
      <3>4. CASE collect_bounty
        BY <1>6, <3>4 DEF collect_bounty, SendTx, WaitReceipt, CollectTx
      <3> QED
        BY <3>1, <3>2, <3>3, <3>4
    <2>2. PlainMempool'
      BY <2>1 DEF PlainMempool
    <2>3. LeakPast' /\ Evidenced'
      BY <1>1 DEF LeakPast, Evidenced, Evidence
    <2>4. LeakKnown' /\ Receipts' /\ Paid'
      BY <1>3, <2>1 DEF LeakKnown, Receipts, Paid, Witnessing, AfterSend, Verifying
    <2>5. DeployOnce'
      <3>1. \A r \in Run : tx = DeployTx(r) => r = run /\ pc = "setup_bounty"
        BY <2>1 DEF DeployTx
      <3>2. run \in Int
        BY StingConstants DEF IInv, ScriptInv, Shape, Run
      <3> QED
        BY <1>1, <1>3, <2>1, <3>1, <3>2 DEF DeployOnce, NotDeployed, State, BlockNumber,
                                            ChainTxs
    <2> QED
      BY <2>2, <2>3, <2>4, <2>5
  <1> QED
    BY <1>5, <1>6

\* The builder leaks at the height the chain has reached.
LEMMA BuilderEvidence ==
    ASSUME IInv, EInv, NEW b \in req, AddMevBundle(b)
    PROVE  EInv'
  <1> USE DEF EInv
  <1>1. UNCHANGED <<chain, mempool, run, pc, file, leak, loc, attested>>
    BY DEF AddMevBundle, chainVars
  <1>2. PICK k \in 0..Len(b.txs) :
          LET written == {b.txs[i] : i \in 1..k}
          IN  /\ shared' = shared \cup written
              /\ leakLog' = leakLog \cup {[tx |-> tx, at |-> BlockNumber] : tx \in written}
    BY DEF AddMevBundle
  <1> DEFINE written == {b.txs[i] : i \in 1..k}
  <1>3. /\ shared' = shared \cup written
        /\ leakLog' = leakLog \cup {[tx |-> tx, at |-> BlockNumber] : tx \in written}
    BY <1>2
  <1> HIDE DEF written
  <1>4. leakLog \subseteq leakLog'
    BY <1>3
  <1>5. LeakPast'
    <2>1. Len(chain) \in Nat
      BY StateTyped DEF IInv, ChainInv
    <2>2. \A l \in leakLog' : l.at \in Nat /\ l.at <= Len(chain)
      BY <1>3, <2>1 DEF LeakPast, BlockNumber
    <2>3. \A tx \in written : \E l \in leakLog' : l.tx = tx
      <3> TAKE tx \in written
      <3>1. [tx |-> tx, at |-> BlockNumber] \in leakLog'
        BY <1>3
      <3> QED
        BY <3>1
    <2> QED
      BY <1>1, <1>3, <1>4, <2>2, <2>3 DEF LeakPast
  <1>6. PlainMempool' /\ DeployOnce' /\ Paid'
    BY <1>1 DEF PlainMempool, DeployOnce, Paid, Claimed, State, BlockNumber, ChainTxs
  <1>7. LeakKnown'
    BY <1>1, <1>4 DEF LeakKnown
  <1>8. Receipts'
    BY <1>1 DEF Receipts, FromChain, ProofHolds, BlockNumber, EvidenceChecks
  <1>9. Evidenced'
    BY <1>1, <1>4 DEF Evidenced, Evidence
  <1> QED
    BY <1>5, <1>6, <1>7, <1>8, <1>9

\* A step of make_evidence or verify_evidence keeps what it does not touch.
LEMMA WitnessStep ==
    ASSUME EInv, UNCHANGED <<chain, mempool, run, leakLog, shared, leak, attested>>,
           pc' \in Witnessing, LeakKnown', Receipts'
    PROVE  EInv'
  <1> USE DEF EInv
  <1>1. pc' \notin NotDeployed /\ pc' \notin {"clean_up", "done"}
    BY DEF Witnessing, AfterSend, Verifying, NotDeployed
  <1>2. PlainMempool' /\ LeakPast' /\ Evidenced' /\ DeployOnce' /\ Paid'
    BY <1>1 DEF PlainMempool, LeakPast, Evidenced, Evidence, DeployOnce, State, BlockNumber,
                ChainTxs, Paid
  <1> QED
    BY <1>2

\* make_evidence goes on only with the leaked sting, before the target block.
LEMMA OpenEvidence ==
    ASSUME IInv, EInv, OpenLeak \/ EvidenceTx \/ SendEvidence \/ WaitTarget
    PROVE  EInv'
  <1> USE DEF EInv, IInv, ScriptInv, Step, chainVars, builderVars, history
  <1>1. UNCHANGED <<chain, mempool, run, leakLog, shared, leak, attested, file>>
    BY DEF OpenLeak, EvidenceTx, SendEvidence, WaitTarget
  <1>2. CASE pc' = "aborted"
    BY <1>1, <1>2, QuietEvidence DEF Witnessing, AfterSend, Verifying, NotDeployed
  <1>3. CASE pc' # "aborted"
    <2>1. \/ pc = "make_evidence" /\ pc' = "evidence_tx" /\ file.stinger.tx \in leak
          \/ pc = "evidence_tx" /\ pc' = "send_evidence"
          \/ pc = "send_evidence" /\ pc' = "evidence_wait" /\ BlockNumber < file.stinger.target
          \/ pc = "evidence_wait" /\ pc' = "victim_receipt"
      BY <1>3 DEF OpenLeak, EvidenceTx, SendEvidence, WaitTarget
    <2>2. Receipts'
      BY <2>1 DEF Receipts, Verifying
    <2>3. CASE pc = "make_evidence"
      <3>1. \E l \in leakLog : l.tx = StingTx(run, file.stingNonce)
        BY <2>1, <2>3 DEF LeakPast, OwnFiles, AfterPoll
      <3>2. LeakKnown'
        BY <1>1, <2>1, <2>3, <3>1 DEF LeakKnown, AfterSend, Verifying
      <3> QED
        BY <1>1, <2>1, <2>2, <3>2, WitnessStep DEF Witnessing, AfterSend
    <2>4. CASE pc = "evidence_tx" \/ pc = "evidence_wait"
      <3>1. LeakKnown'
        BY <1>1, <2>1, <2>4 DEF LeakKnown, AfterSend, Verifying
      <3> QED
        BY <1>1, <2>1, <2>2, <2>4, <3>1, WitnessStep DEF Witnessing, AfterSend
    <2>5. CASE pc = "send_evidence"
      <3>1. PICK l \in leakLog : l.tx = StingTx(run, file.stingNonce)
        BY <2>5 DEF LeakKnown
      <3>2. l.at < file.stinger.target
        <4>1. l.at \in Nat /\ l.at <= Len(chain) /\ Len(chain) \in Nat
          BY StateTyped DEF LeakPast, ChainInv
        <4>2. Len(chain) < file.stinger.target /\ file.stinger.target \in Nat
          BY <2>1, <2>5 DEF BlockNumber, OwnFiles, AfterPoll
        <4> QED
          BY <4>1, <4>2
      <3>3. LeakKnown'
        BY <1>1, <2>1, <2>5, <3>1, <3>2 DEF LeakKnown
      <3> QED
        BY <1>1, <2>1, <2>2, <2>5, <3>3, WitnessStep DEF Witnessing, AfterSend
    <2> QED
      BY <2>1, <2>3, <2>4, <2>5
  <1> QED
    BY <1>2, <1>3

\* A proof blob is read from the chain.
LEMMA BlobFromChain ==
    ASSUME ChainOK, NEW rcpt, rcpt.num \in Nat \ {0}, Provable(rcpt)
    PROVE  FromChain(ProofBlob(rcpt))
  <1>1. rcpt.num \in 1..Len(chain)
    BY StateTyped DEF Provable, BlockNumber
  <1>2. rcpt.index \in DOMAIN chain[rcpt.num].txs
    BY DEF Provable
  <1>3. chain[rcpt.num].txs[rcpt.index] \in Range(chain[rcpt.num].txs)
    BY <1>2 DEF Range
  <1> QED
    BY <1>1, <1>3 DEF FromChain, ProofBlob

\* Receipts and inclusion proofs come from the chain.
LEMMA ProofEvidence ==
    ASSUME IInv, EInv,
           \/ GetReceipt("victim_receipt", "victim_proof", loc.victim) \/ VictimProof
           \/ GetReceipt("adv_receipt", "adv_proof", loc.tx) \/ AdvProof
    PROVE  EInv'
  <1> USE DEF EInv, IInv, ScriptInv, Step, chainVars, builderVars, history
  <1>1. UNCHANGED <<chain, mempool, run, leakLog, shared, leak, attested>>
    BY DEF GetReceipt, VictimProof, AdvProof
  <1>2. CASE pc' = "aborted"
    BY <1>1, <1>2, QuietEvidence DEF Witnessing, AfterSend, Verifying, NotDeployed
  <1>3. CASE pc' # "aborted"
    <2>a. /\ \/ pc = "victim_receipt" /\ pc' = "victim_proof"
             \/ pc = "victim_proof" /\ pc' = "adv_receipt"
             \/ pc = "adv_receipt" /\ pc' = "adv_proof"
             \/ pc = "adv_proof" /\ pc' = "verify_adv"
          /\ pc # "adv_proof" => UNCHANGED file
      BY <1>3 DEF GetReceipt, VictimProof, AdvProof
    <2>b. file'.stingNonce = file.stingNonce /\ file'.stinger = file.stinger
      BY <1>3, <2>a DEF GetReceipt, VictimProof, AdvProof, Shape, FileFields
    <2>c. LeakKnown'
      BY <1>1, <2>a, <2>b DEF LeakKnown, AfterSend, Verifying
    <2>d. pc' \in Witnessing
      BY <2>a DEF Witnessing, AfterSend, Verifying
    <2>1. Receipts'
      <3>1. CASE pc = "victim_receipt" \/ pc = "adv_receipt"
        <4> DEFINE tx == IF pc = "victim_receipt" THEN loc.victim ELSE loc.tx
                   n == CHOOSE m \in BlocksOf(tx) : TRUE
                   i == CHOOSE j \in DOMAIN chain[n].txs : chain[n].txs[j] = tx
        <4>a. ASSUME pc = "victim_receipt"
              PROVE  Mined(tx) /\ loc' = [loc EXCEPT !.receipt = [num |-> n, index |-> i]]
          BY <1>3, <4>a DEF GetReceipt, VictimProof, AdvProof
        <4>b. ASSUME pc = "adv_receipt"
              PROVE  Mined(tx) /\ loc' = [loc EXCEPT !.receipt = [num |-> n, index |-> i]]
          BY <1>3, <4>b DEF GetReceipt, VictimProof, AdvProof
        <4>0. Mined(tx) /\ loc' = [loc EXCEPT !.receipt = [num |-> n, index |-> i]]
          BY <3>1, <4>a, <4>b
        <4>1. n \in BlocksOf(tx)
          BY <4>0 DEF Mined
        <4>2. n \in Nat \ {0}
          BY <4>1 DEF BlocksOf
        <4>3. loc'.receipt.num = n /\ loc'.victim = loc.victim
          BY <4>0 DEF Shape, LocFields
        <4> HIDE DEF n
        <4> QED
          BY <1>1, <2>a, <3>1, <4>2, <4>3 DEF Receipts, FromChain, Verifying
      <3>2. CASE pc = "victim_proof"
        <4>1. Provable(loc.receipt) /\ loc'.victim = ProofBlob(loc.receipt)
          BY <1>3, <3>2 DEF GetReceipt, VictimProof, AdvProof, Shape, LocFields
        <4>2. loc.receipt.num \in Nat \ {0}
          BY <3>2 DEF Receipts
        <4>3. FromChain(ProofBlob(loc.receipt))
          BY <4>1, <4>2, BlobFromChain DEF ChainInv
        <4>4. FromChain(loc.victim)'
          BY <1>1, <4>1, <4>3 DEF FromChain
        <4> QED
          BY <2>a, <3>2, <4>4 DEF Receipts, Verifying
      <3>3. CASE pc = "adv_proof"
        <4>1. /\ Provable(loc.receipt)
              /\ file'.verify = [target |-> file.stinger.target, victim |-> loc.victim,
                                 adv |-> ProofBlob(loc.receipt)]
          BY <1>3, <3>3 DEF GetReceipt, VictimProof, AdvProof, Shape, FileFields
        <4>2. loc.receipt.num \in Nat \ {0} /\ FromChain(loc.victim)
          BY <3>3 DEF Receipts
        <4>3. FromChain(ProofBlob(loc.receipt))
          BY <4>1, <4>2, BlobFromChain DEF ChainInv
        <4>4. FromChain(file.verify.victim)' /\ FromChain(file.verify.adv)'
          BY <1>1, <4>1, <4>2, <4>3 DEF FromChain
        <4> QED
          BY <2>a, <3>3, <4>4 DEF Receipts, Verifying
      <3> QED
        BY <2>a, <3>1, <3>2, <3>3
    <2> QED
      BY <1>1, <2>c, <2>d, <2>1, WitnessStep
  <1> QED
    BY <1>2, <1>3

\* The block hash identifies the block.
LEMMA SameBlock ==
    ASSUME ChainOK, NEW v, FromChain(v), NEW n \in Nat \ {0}, ProofHolds(n, v)
    PROVE  n \in 1..Len(chain) /\ v.tx \in Range(chain[n].txs)
  <1>1. n \in 1..Len(chain)
    BY StateTyped DEF ProofHolds, BlockNumber
  <1>2. PICK m \in 1..Len(chain) : v.header = chain[m].hash /\ v.tx \in Range(chain[m].txs)
    BY DEF FromChain
  <1>3. chain[n].hash = chain[m].hash
    BY <1>2 DEF ProofHolds
  <1>4. m = n
    <2>1. chain[m].hash \in Nat /\ chain[n].hash \in Nat /\ m \in Nat /\ n \in Nat
      BY <1>1, <1>2, ChainTyped
    <2>2. ~(m < n) /\ ~(n < m)
      BY <1>1, <1>2, <1>3, <2>1 DEF ChainOK
    <2> QED
      BY <2>1, <2>2
  <1> QED
    BY <1>1, <1>2, <1>4

\* verify_evidence signs only what it has checked.
LEMMA VerifyEvidenceKept ==
    ASSUME IInv, EInv, VerifyAdv \/ VerifyVictim
    PROVE  EInv'
  <1> USE DEF EInv, IInv, ScriptInv, Step, chainVars, builderVars, history
  <1>1. UNCHANGED <<chain, mempool, run, leakLog, shared, leak, attested, file, loc>>
    BY DEF VerifyAdv, VerifyVictim
  <1>2. CASE pc' = "aborted"
    BY <1>1, <1>2, QuietEvidence DEF Witnessing, AfterSend, Verifying, NotDeployed
  <1>3. CASE pc' # "aborted"
    <2>1. \/ /\ pc = "verify_adv" /\ pc' = "verify_victim"
             /\ ProofHolds(file.verify.target, file.verify.adv)
          \/ /\ pc = "verify_victim" /\ pc' = "sign_evidence"
             /\ ProofHolds(file.verify.target, file.verify.victim)
             /\ EvidenceChecks(file.verify)
      BY <1>3 DEF VerifyAdv, VerifyVictim
    <2>2. LeakKnown' /\ pc' \in Witnessing
      BY <1>1, <2>1 DEF LeakKnown, AfterSend, Verifying, Witnessing
    <2>3. file.verify.target \in Nat \ {0}
      BY <2>1 DEF OwnFiles, Verifying, AfterPoll, AfterSend
    <2>4. Receipts'
      BY <1>1, <2>1, <2>3 DEF Receipts, Verifying, FromChain, ProofHolds, BlockNumber,
                              EvidenceChecks
    <2> QED
      BY <1>1, <2>2, <2>4, WitnessStep
  <1> QED
    BY <1>2, <1>3

\* The block the enclave attests to holds the sting and the evidence, and the
\* leak came first.
LEMMA SignEvidenceKept ==
    ASSUME IInv, EInv, SignEvidence
    PROVE  EInv'
  <1> USE DEF EInv, IInv, ScriptInv, Step, chainVars, builderVars, history
  <1> DEFINE n == file.verify.target
             proof == [signer |-> file.key, blob |-> [num |-> n, hash |-> chain[n].hash]]
  <1>1. /\ UNCHANGED <<chain, mempool, run, leakLog, shared, leak, loc>>
        /\ pc = "sign_evidence"
    BY DEF SignEvidence
  <1>2. CASE ~(n <= BlockNumber)
    <2>1. pc' = "aborted" /\ UNCHANGED attested
      BY <1>2 DEF SignEvidence
    <2> QED
      BY <1>1, <2>1, QuietEvidence DEF Witnessing, AfterSend, Verifying, NotDeployed
  <1>3. CASE n <= BlockNumber
    <2>1. /\ pc' = "collect_bounty" /\ file' = [file EXCEPT !.proof = proof]
          /\ attested' = attested \cup {proof}
      BY <1>3 DEF SignEvidence
    <2>2. /\ file'.proof = proof /\ file'.verify = file.verify
          /\ file'.stingerTx = file.stingerTx
      BY <2>1 DEF Shape, FileFields
    <2>3. proof.signer = run /\ proof.blob.num = n /\ proof.blob.hash = chain[n].hash
      BY <1>1 DEF OwnFiles
    <2> HIDE DEF proof
    <2>4. /\ n \in Nat \ {0}
          /\ FromChain(file.verify.victim) /\ FromChain(file.verify.adv)
          /\ ProofHolds(n, file.verify.adv) /\ ProofHolds(n, file.verify.victim)
          /\ EvidenceChecks(file.verify)
      BY <1>1 DEF Receipts, Verifying
    <2>5. /\ n \in 1..Len(chain)
          /\ file.verify.victim.tx \in Range(chain[n].txs)
          /\ file.verify.adv.tx \in Range(chain[n].txs)
      BY <2>4, SameBlock DEF ChainInv
    <2>6. Receipts'
      BY <1>1, <2>1, <2>2, <2>3, <2>4 DEF Receipts, FromChain, ProofHolds, BlockNumber,
                                          EvidenceChecks, Verifying
    <2>7. Evidence(run, n)
      <3>1. PICK l \in leakLog : /\ l.tx = StingTx(run, file.stingNonce)
                                 /\ l.at < file.stinger.target
        BY <1>1 DEF LeakKnown, AfterSend, Verifying
      <3>2. file.stinger.target = n /\ file.stingerTx = StingTx(run, file.stingNonce)
        BY <1>1 DEF OwnFiles, Verifying, AfterPoll, AfterSend
      <3>3. /\ file.verify.adv.tx.kind = "adv"
            /\ file.verify.adv.tx.commit = file.verify.victim.tx
            /\ file.verify.victim.tx = StingTx(run, file.stingNonce)
        BY <2>4, <3>2 DEF EvidenceChecks
      <3>4. StingTx(run, file.stingNonce).kind = "sting"
            /\ StingTx(run, file.stingNonce).run = run
        BY DEF StingTx
      <3> QED
        BY <2>5, <3>1, <3>2, <3>3, <3>4 DEF Evidence
    <2>8. \A r, m : Evidence(r, m) <=> Evidence(r, m)'
      BY <1>1 DEF Evidence
    <2>9. Evidenced'
      <3> SUFFICES ASSUME NEW p \in attested'
                   PROVE  p.blob.num \in 1..Len(chain) /\ Evidence(p.signer, p.blob.num)
        BY <1>1, <2>8 DEF Evidenced
      <3>1. CASE p \in attested
        BY <3>1 DEF Evidenced
      <3>2. CASE p = proof
        BY <2>3, <2>5, <2>7, <3>2
      <3> QED
        BY <2>1, <3>1, <3>2
    <2>10. LeakKnown' /\ Paid'
      BY <2>1 DEF LeakKnown, AfterSend, Verifying, Paid
    <2>11. PlainMempool' /\ LeakPast' /\ DeployOnce'
      BY <1>1, <2>1 DEF PlainMempool, LeakPast, DeployOnce, NotDeployed, State, BlockNumber,
                        ChainTxs
    <2> QED
      BY <2>6, <2>9, <2>10, <2>11
  <1> QED
    BY <1>2, <1>3

-----------------------------------------------------------------------------
(* A new block *)

\* What Mine adds: one block, made of a bundle for its number and of
\* transactions of the mempool.
MinedBlock(b) ==
    /\ b \in BlockData /\ b = chain'[Len(chain) + 1] /\ State' = b.state
    /\ mempool' = mempool \ Range(b.txs)
    /\ ChainTxs' = ChainTxs \cup Range(b.txs)
    /\ EffectAll(chain, State, b.txs, b.state)
    /\ \A i \in 1..Len(b.txs) : b.txs[i] \in Range(b.txs)
    /\ \A tx \in Range(b.txs) :
          tx \in mempool \/ \E m \in mevBundles : /\ m.target = Len(chain) + 1
                                                  /\ tx \in Range(m.txs)

\* Mining adds one block to the chain and leaves the scripts alone.
LEMMA MinesBlock ==
    ASSUME IInv, Mine
    PROVE  /\ UNCHANGED <<run, pc, file, loc, req, mevBundles, shared, leak, leakLog, attested>>
           /\ Len(chain) \in Nat \ {0} /\ Len(chain') = Len(chain) + 1
           /\ \A i \in 1..Len(chain) : i \in 1..Len(chain') /\ chain'[i] = chain[i]
           /\ \A i \in 1..Len(chain') : i \in 1..Len(chain) \/ i = Len(chain) + 1
           /\ \E b : MinedBlock(b)
  <1>1. PICK b \in Blocks(chain, mempool) :
          chain' = Append(chain, b) /\ mempool' = mempool \ Range(b.txs)
    BY DEF Mine
  <1>2. UNCHANGED <<run, pc, file, loc, req, mevBundles, shared, leak, leakLog, attested>>
    BY DEF Mine, builderVars, history
  <1>3. /\ chain \in Seq(BlockData) /\ chain # <<>> /\ Prefix(chain) /\ minted \in Nat
        /\ mempool \in SUBSET Tx /\ IsFiniteSet(mempool) /\ Sent /\ ChainOK
    BY DEF IInv, ChainInv, ChainOK, Prefix, ScriptInv
  <1>4. /\ b \in BlockData
        /\ EffectAll(chain, State, b.txs, b.state)
        /\ \A tx \in Range(b.txs) :
              tx \in mempool \/ \E m \in mevBundles : /\ m.target = Len(chain) + 1
                                                      /\ tx \in Range(m.txs)
    BY <1>3, BlocksTyped DEF State, BlockNumber
  <1> DEFINE L == Len(chain)
  <1>5. /\ L \in Nat \ {0} /\ Len(chain') = L + 1 /\ chain'[L + 1] = b
        /\ \A i \in 1..L : i \in 1..Len(chain') /\ chain'[i] = chain[i]
        /\ \A i \in 1..Len(chain') : i \in 1..L \/ i = L + 1
    BY <1>1, <1>3, <1>4, Extended
  <1>6. State' = b.state
    BY <1>5 DEF State, BlockNumber
  <1> HIDE DEF L
  <1>7. ChainTxs' = ChainTxs \cup Range(b.txs)
    <2>1. ChainTxs' \subseteq ChainTxs \cup Range(b.txs)
      BY <1>5 DEF ChainTxs, L
    <2>2. ChainTxs \subseteq ChainTxs'
      BY <1>5 DEF ChainTxs, L
    <2>3. L + 1 \in 1..Len(chain')
      BY <1>5
    <2>4. Range(b.txs) \subseteq ChainTxs'
      BY <1>5, <2>3 DEF ChainTxs
    <2> QED
      BY <2>1, <2>2, <2>4
  <1>8. \A i \in 1..Len(b.txs) : b.txs[i] \in Range(b.txs)
    BY <1>4, SeqRange DEF BlockData
  <1> QED
    BY <1>1, <1>2, <1>4, <1>5, <1>6, <1>7, <1>8 DEF MinedBlock, L

\* Deployments are mined from the mempool, so a contract is not replaced and
\* a claim is not undone.
LEMMA DeploysPublic ==
    ASSUME IInv, NEW b, MinedBlock(b), NEW r \in Run, DeployTx(r) \in Range(b.txs)
    PROVE  DeployTx(r) \in mempool
  BY BundlesTyped DEF MinedBlock, DeployTx, IInv, ScriptInv

\* A claim stays: its contract is not deployed again.
LEMMA ClaimsKept ==
    ASSUME IInv, EInv, Mine, NEW r \in Run, Claimed(r)
    PROVE  Claimed(r)'
  <1>1. PICK b : MinedBlock(b)
    BY MinesBlock
  <1>2. ClaimedIn(State, r)
    BY DEF Claimed, ClaimedIn
  <1>3. DeployTx(r) \notin Range(b.txs)
    BY <1>1, DeploysPublic DEF EInv, DeployOnce, Claimed
  <1>4. ClaimedIn(State', r)
    BY <1>1, <1>2, <1>3 DEF MinedBlock, EffectAll
  <1> QED
    BY <1>4 DEF ClaimedIn, Claimed

\* A block invalidates no evidence, receipt or proof.
LEMMA MineEvidence ==
    ASSUME IInv, EInv, Mine
    PROVE  EInv'
  <1> USE DEF EInv
  <1> DEFINE L == Len(chain)
  <1>1. PICK b : MinedBlock(b)
    BY MinesBlock
  <1>2. /\ UNCHANGED <<run, pc, file, loc, shared, leak, leakLog, attested>>
    BY MinesBlock
  <1>5. /\ L \in Nat \ {0} /\ Len(chain') = L + 1
        /\ \A i \in 1..L : i \in 1..Len(chain') /\ chain'[i] = chain[i]
    BY MinesBlock
  <1>6. /\ State' = b.state /\ mempool' = mempool \ Range(b.txs)
        /\ ChainTxs' = ChainTxs \cup Range(b.txs)
    BY <1>1 DEF MinedBlock
  <1> HIDE DEF L
  <1>8. PlainMempool'
    BY <1>6 DEF PlainMempool
  <1>9. LeakPast' /\ LeakKnown'
    <2>1. \A l \in leakLog : l.at <= L + 1
      BY <1>5 DEF LeakPast, L
    <2> QED
      BY <1>2, <1>5, <2>1 DEF LeakPast, LeakKnown
  <1>10. \A v : FromChain(v) => \E m \in 1..Len(chain') : /\ v.header = chain'[m].hash
                                                          /\ v.tx \in Range(chain'[m].txs)
    BY <1>5 DEF FromChain, L
  <1>11. ASSUME NEW n \in Nat \ {0}, NEW v, ProofHolds(n, v)
         PROVE  n <= Len(chain') /\ chain'[n].hash = v.header /\ chain'[n].hash = chain[n].hash
    <2>1. n \in 1..L
      BY <1>5, <1>11 DEF ProofHolds, BlockNumber, L
    <2> QED
      BY <1>5, <1>11, <2>1 DEF ProofHolds
  <1>12. Receipts'
    <2>1. pc \in {"adv_receipt", "adv_proof"} => FromChain(loc.victim)'
      BY <1>2, <1>10 DEF Receipts, FromChain
    <2>2. pc \in Verifying \cup {"collect_bounty"} =>
            FromChain(file.verify.victim)' /\ FromChain(file.verify.adv)'
      BY <1>2, <1>10 DEF Receipts, FromChain
    <2>3. pc \in {"verify_victim", "sign_evidence", "collect_bounty"} =>
            /\ file.verify.target \in Nat \ {0}
            /\ ProofHolds(file.verify.target, file.verify.adv)'
            /\ chain'[file.verify.target].hash = chain[file.verify.target].hash
      BY <1>2, <1>11 DEF Receipts, ProofHolds, BlockNumber
    <2>4. pc \in {"sign_evidence", "collect_bounty"} =>
            /\ ProofHolds(file.verify.target, file.verify.victim)'
            /\ EvidenceChecks(file.verify)'
      BY <1>2, <1>11, <2>3 DEF Receipts, ProofHolds, BlockNumber, EvidenceChecks
    <2> QED
      BY <1>2, <2>1, <2>2, <2>3, <2>4 DEF Receipts
  <1>13. Evidenced'
    BY <1>2, <1>5 DEF Evidenced, Evidence, L
  <1>14. \A r \in Run : DeployTx(r) \in Range(b.txs) => DeployTx(r) \in mempool
    BY <1>1, DeploysPublic
  <1>16. DeployOnce'
    <2> SUFFICES ASSUME NEW r \in Run
                 PROVE  /\ DeployTx(r) \in mempool' => DeployTx(r) \notin ChainTxs'
                        /\ State'.contract[r] # None => DeployTx(r) \in ChainTxs'
                        /\ DeployTx(r) \in mempool' \cup ChainTxs' =>
                              r <= run /\ (r = run => pc \notin NotDeployed)
      BY <1>2 DEF DeployOnce
    <2>1. State'.contract[r] # None => DeployTx(r) \in ChainTxs'
      <3>1. CASE DeployTx(r) \in Range(b.txs)
        BY <1>6, <3>1
      <3>2. CASE DeployTx(r) \notin Range(b.txs)
        <4>1. State'.contract[r] # None => State.contract[r] # None
          BY <1>1, <3>2 DEF MinedBlock, EffectAll
        <4> QED
          BY <1>6, <4>1 DEF DeployOnce
      <3> QED
        BY <3>1, <3>2
    <2> QED
      BY <1>6, <1>14, <2>1 DEF DeployOnce
  <1>18. Paid'
    <2>1. run \in Run
      BY DEF IInv, ScriptInv, Shape
    <2>2. pc \in {"clean_up", "done"} => Claimed(run)'
      BY <1>2, <2>1, ClaimsKept DEF Paid, Claimed
    <2> QED
      BY <1>2, <2>2 DEF Paid
  <1> QED
    BY <1>8, <1>9, <1>12, <1>13, <1>16, <1>18

-----------------------------------------------------------------------------
(* The invariant *)

\* Initially nothing was leaked, sent or signed.
LEMMA InitCalm == Init => Calm
  <1> SUFFICES ASSUME Init PROVE EInv
    BY DEF Calm
  <1> USE DEF Init
  <1>1. chain[1] = Genesis /\ Len(chain) = 1
    OBVIOUS
  <1>2. State.contract = [r \in Run |-> None] /\ ChainTxs = {}
    BY <1>1 DEF State, BlockNumber, Genesis, ChainTxs, Range
  <1>3. PlainMempool /\ LeakPast /\ Evidenced
    BY DEF PlainMempool, LeakPast, Evidenced
  <1>4. LeakKnown /\ Receipts /\ Paid
    BY DEF LeakKnown, Receipts, Paid, AfterSend, Verifying
  <1>5. DeployOnce
    BY <1>2 DEF DeployOnce
  <1> QED
    BY <1>3, <1>4, <1>5 DEF EInv

\* Every step but a reorganisation keeps the evidence.
LEMMA NextEvidence ==
    ASSUME IInv, EInv, [Next]_vars, ~Reorg
    PROVE  EInv'
  <1>1. CASE UNCHANGED vars
    BY <1>1 DEF vars, chainVars, builderVars, history, EInv, PlainMempool, LeakPast, LeakKnown,
                Receipts, FromChain, ProofHolds, EvidenceChecks, Evidenced, Evidence,
                DeployOnce, Paid, Claimed, State, BlockNumber, ChainTxs
  <1>2. CASE Builder
    BY <1>2, BuilderEvidence DEF Builder
  <1>3. CASE make_evidence
    BY <1>3, OpenEvidence, ProofEvidence DEF make_evidence
  <1>4. CASE verify_evidence
    BY <1>4, VerifyEvidenceKept, SignEvidenceKept DEF verify_evidence
  <1>5. CASE RunSh
    BY <1>3, <1>4, <1>5, SetupEvidence, SendEvidenceKept DEF RunSh
  <1>6. CASE Mine \/ Timeout \/ Crash \/ Restart
    BY <1>6, MineEvidence, SetupEvidence, RestartEvidence
  <1> QED
    BY <1>1, <1>2, <1>5, <1>6 DEF Next

\* Only a reorganisation counts as one, and only a restart begins a run.
LEMMA ReorgsCounted == [Next]_vars /\ ~Reorg => UNCHANGED reorgs
  <1> SUFFICES ASSUME [Next]_vars, ~Reorg PROVE UNCHANGED reorgs
    OBVIOUS
  <1> USE DEF chainVars
  <1>1. CASE UNCHANGED vars
    BY <1>1 DEF vars
  <1>2. CASE Builder
    BY <1>2 DEF Builder, AddMevBundle
  <1>3. CASE make_evidence \/ verify_evidence
    BY <1>3 DEF make_evidence, OpenLeak, EvidenceTx, SendEvidence, WaitTarget, GetReceipt,
                VictimProof, AdvProof, verify_evidence, VerifyAdv, VerifyVictim, SignEvidence
  <1>4. CASE setup_bounty_contract \/ submit_enclave \/ approve_enclave \/ collect_bounty
    BY <1>4 DEF setup_bounty_contract, submit_enclave, approve_enclave, collect_bounty,
                SendTx, WaitReceipt
  <1>5. CASE RunSh
    BY <1>3, <1>4, <1>5 DEF RunSh, CleanShared, gen_signingKey, SgxQuote, CleanLeak,
                generate_bundle, make_bundle_stinger, StingerSent, PollLeak
  <1>6. CASE Mine \/ Timeout \/ Crash \/ Restart
    BY <1>6 DEF Mine, Timeout, Crash, Restart
  <1> QED
    BY <1>1, <1>2, <1>5, <1>6 DEF Next

\* Only a restart begins another run.
LEMMA RunCounted == Next /\ ~Restart => UNCHANGED run
  <1> SUFFICES ASSUME Next, ~Restart PROVE UNCHANGED run
    OBVIOUS
  <1>1. CASE Builder
    BY <1>1 DEF Builder, AddMevBundle
  <1>2. CASE make_evidence \/ verify_evidence
    BY <1>2 DEF make_evidence, OpenLeak, EvidenceTx, SendEvidence, WaitTarget, GetReceipt,
                VictimProof, AdvProof, verify_evidence, VerifyAdv, VerifyVictim, SignEvidence
  <1>3. CASE setup_bounty_contract \/ submit_enclave \/ approve_enclave \/ collect_bounty
    BY <1>3 DEF setup_bounty_contract, submit_enclave, approve_enclave, collect_bounty,
                SendTx, WaitReceipt
  <1>4. CASE RunSh
    BY <1>2, <1>3, <1>4 DEF RunSh, CleanShared, gen_signingKey, SgxQuote, CleanLeak,
                generate_bundle, make_bundle_stinger, StingerSent, PollLeak
  <1>5. CASE Mine \/ Reorg \/ Timeout \/ Crash
    BY <1>5 DEF Mine, Reorg, Timeout, Crash
  <1> QED
    BY <1>1, <1>4, <1>5 DEF Next

\* As long as there was no reorganisation, EInv is kept.
LEMMA NextCalm == IInv /\ Calm /\ [Next]_vars => Calm'
  <1> SUFFICES ASSUME IInv, Calm, [Next]_vars, reorgs' = 0 PROVE EInv'
    BY DEF Calm
  <1>1. reorgs \in Nat
    BY DEF IInv, ChainInv, ChainOK
  <1>2. ~Reorg
    BY <1>1 DEF Reorg
  <1>3. reorgs' = reorgs
    BY <1>2, ReorgsCounted
  <1>4. EInv
    BY <1>3 DEF Calm
  <1> QED
    BY <1>2, <1>4, NextEvidence

\* Until the chain reorganises, scripts, builder and contract keep EInv.
THEOREM CalmInvariance == Spec => [](IInv /\ Calm)
  BY InitIInv, NextIInv, InitCalm, NextCalm, PTL DEF Spec

\* Until the chain reorganises, a claimed bounty means that some block holds
\* the sting transaction of the run and evidence committing to it, and that
\* the builder leaked the sting before that block (make_evidence to
\* collectBounty).
THEOREM BountyEvidenced == Spec => [](reorgs = 0 => BountyImpliesEvidence)
  <1>1. IInv /\ Calm => (reorgs = 0 => BountyImpliesEvidence)
    <2> SUFFICES ASSUME IInv, EInv, NEW r \in Run, Claimed(r)
                 PROVE  \E n \in 1..BlockNumber : Evidence(r, n)
      BY DEF Calm, BountyImpliesEvidence
    <2>1. ClaimStandsOnItsBlock
      BY ClaimIsStanding
    <2>2. PICK p \in attested : p.signer = r
      BY <2>1 DEF ClaimStandsOnItsBlock
    <2> QED
      BY <2>2 DEF EInv, Evidenced, BlockNumber
  <1> QED
    BY <1>1, CalmInvariance, PTL

\* Until the chain reorganises, run.sh says "done" only after the contract has
\* paid (the assertions of collect_bounty).
THEOREM DonePaid == Spec => [](reorgs = 0 => DoneMeansPaid)
  <1>1. IInv /\ Calm => (reorgs = 0 => DoneMeansPaid)
    BY DEF Calm, EInv, Paid, DoneMeansPaid
  <1> QED
    BY <1>1, CalmInvariance, PTL

\* Until the chain reorganises, the hash the enclave signs is the one it
\* checked both inclusion proofs against: the race of verify_evidence with the
\* chain needs a reorganisation (proveth.py's assert on the block hash).
THEOREM SignedVerified == Spec => [](reorgs = 0 => SignedBlockIsVerified)
  <1>1. IInv /\ Calm => (reorgs = 0 => SignedBlockIsVerified)
    BY DEF Calm, EInv, Receipts, ProofHolds, SignedBlockIsVerified
  <1> QED
    BY <1>1, CalmInvariance, PTL

-----------------------------------------------------------------------------
(* The nonces of the evidence bundle, in the first run *)

WithNonce == {"create_stinger", "stinger_wait", "poll"} \cup AfterPoll
WithStinger == {"poll"} \cup AfterPoll

\* The bundles of the run have one target block; the stinger's nonce moves
\* only there, so that before it the evidence takes the nonce after the sting's.
NInv ==
    /\ \A b \in req \cup mevBundles : b.target = loc.target
    /\ State.nonce # 0 => \E b \in mevBundles : b.target <= Len(chain)
    /\ pc \in WithNonce => file.stingNonce = 0
    /\ pc \in WithStinger => file.stinger.target = loc.target
    /\ pc = "send_evidence" /\ Len(chain) < loc.target => loc.tx.nonce = 1
    /\ EvidenceBundleExecutable
FirstRun == reorgs = 0 /\ run = 1 => NInv

\* Before the target block the stinger has sent nothing.
LEMMA FreshNonce ==
    ASSUME IInv, NInv, run = 1, pc \in Before \/ Len(chain) < loc.target
    PROVE  /\ State.nonce = 0
           /\ pc \in Before => req \cup mevBundles = {}
  <1>1. pc \in Before => req \cup mevBundles = {}
    <2> SUFFICES ASSUME pc \in Before, NEW b \in req \cup mevBundles PROVE FALSE
      OBVIOUS
    <2>1. PICK r \in Run : r <= run /\ r # run
      BY DEF IInv, ScriptInv, Sent, BundleOK
    <2> QED
      BY <2>1, StingConstants DEF Run
  <1>2. ASSUME NEW b \in mevBundles, b.target <= Len(chain), Len(chain) < loc.target
        PROVE  FALSE
    <2>1. b.target = loc.target
      BY DEF NInv
    <2>2. b.target \in Nat /\ Len(chain) \in Nat
      BY StateTyped DEF IInv, ScriptInv, Sent, BundleOK, ChainInv
    <2> QED
      BY <1>2, <2>1, <2>2
  <1> QED
    BY <1>1, <1>2 DEF NInv

\* Steps that send no bundle and keep nonces and target.
LEMMA QuietNonce ==
    ASSUME NInv, UNCHANGED chain, loc'.target = loc.target,
           req' \cup mevBundles' = req \cup mevBundles, mevBundles \subseteq mevBundles',
           pc' \in WithNonce => pc \in WithNonce /\ file'.stingNonce = file.stingNonce,
           pc' \in WithStinger => pc \in WithStinger /\ file'.stinger = file.stinger,
           pc' = "send_evidence" => pc = "send_evidence" /\ UNCHANGED loc
    PROVE  NInv'
  <1> USE DEF NInv
  <1>1. \A b \in req' \cup mevBundles' : b.target = loc'.target
    OBVIOUS
  <1>2. State'.nonce # 0 => \E b \in mevBundles' : b.target <= Len(chain')
    BY DEF State, BlockNumber
  <1>3. EvidenceBundleExecutable'
    BY DEF EvidenceBundleExecutable
  <1> QED
    BY <1>1, <1>2, <1>3

\* Commands that send no bundle.
LEMMA ScriptNonce ==
    ASSUME IInv, NInv,
           \/ CleanShared \/ gen_signingKey \/ SgxQuote \/ PollLeak
           \/ CleanLeak("clean_leak", "generate_bundle") \/ CleanLeak("clean_up", "done")
           \/ Timeout \/ Crash \/ Builder
           \/ setup_bounty_contract \/ submit_enclave \/ approve_enclave \/ collect_bounty
           \/ OpenLeak \/ WaitTarget
           \/ GetReceipt("victim_receipt", "victim_proof", loc.victim) \/ VictimProof
           \/ GetReceipt("adv_receipt", "adv_proof", loc.tx) \/ AdvProof
           \/ VerifyAdv \/ VerifyVictim \/ SignEvidence
    PROVE  NInv'
  <1> USE DEF IInv, ScriptInv, Shape, Step, chainVars, builderVars, history
  <1>1. CASE Builder
    <2>1. /\ UNCHANGED <<chain, pc, file, loc>> /\ mevBundles \subseteq mevBundles'
          /\ req' \cup mevBundles' = req \cup mevBundles
      BY <1>1 DEF Builder, AddMevBundle
    <2> QED
      BY <2>1, QuietNonce
  <1>2. CASE CleanShared \/ gen_signingKey \/ SgxQuote \/ PollLeak \/ Timeout \/ Crash
             \/ CleanLeak("clean_leak", "generate_bundle") \/ CleanLeak("clean_up", "done")
    <2>1. UNCHANGED <<chain, loc, req, mevBundles>>
      BY <1>2 DEF CleanShared, gen_signingKey, SgxQuote, PollLeak, CleanLeak, Timeout, Crash
    <2>2. \/ pc' \in {"aborted", "gen_signing_key", "sgx_quote", "setup_bounty",
                      "generate_bundle"}
          \/ pc = "poll" /\ pc' = "make_evidence" /\ UNCHANGED file
          \/ pc = "clean_up" /\ pc' = "done" /\ UNCHANGED file
      BY <1>2 DEF CleanShared, gen_signingKey, SgxQuote, PollLeak, CleanLeak, Timeout, Crash
    <2> QED
      BY <2>1, <2>2, QuietNonce DEF WithNonce, WithStinger, AfterPoll, AfterSend, Verifying,
                                    Collecting
  <1>3. CASE setup_bounty_contract \/ submit_enclave \/ approve_enclave \/ collect_bounty
    <2>1. UNCHANGED <<chain, req, mevBundles>> /\ loc'.target = loc.target
      BY <1>3 DEF setup_bounty_contract, submit_enclave, approve_enclave, collect_bounty,
                  SendTx, WaitReceipt, LocFields
    <2>2. \/ pc' \in {"aborted", "deploy_wait", "submit_enclave", "submit_wait",
                      "approve_enclave", "approve_wait", "clean_leak"}
          \/ /\ pc \in Collecting /\ pc' \in {"collect_wait", "collect_check", "clean_up"}
             /\ UNCHANGED file
      BY <1>3 DEF setup_bounty_contract, submit_enclave, approve_enclave, collect_bounty,
                  SendTx, WaitReceipt, Collecting
    <2> QED
      BY <2>1, <2>2, QuietNonce DEF WithNonce, WithStinger, AfterPoll, AfterSend, Verifying,
                                    Collecting
  <1>4. CASE \/ OpenLeak \/ WaitTarget
             \/ GetReceipt("victim_receipt", "victim_proof", loc.victim) \/ VictimProof
             \/ GetReceipt("adv_receipt", "adv_proof", loc.tx) \/ AdvProof
             \/ VerifyAdv \/ VerifyVictim \/ SignEvidence
    <2>1. UNCHANGED <<chain, req, mevBundles>> /\ loc'.target = loc.target
      BY <1>4 DEF OpenLeak, WaitTarget, GetReceipt, VictimProof, AdvProof, VerifyAdv,
                  VerifyVictim, SignEvidence, LocFields
    <2>2. file'.stingNonce = file.stingNonce /\ file'.stinger = file.stinger
      BY <1>4 DEF OpenLeak, WaitTarget, GetReceipt, VictimProof, AdvProof, VerifyAdv,
                  VerifyVictim, SignEvidence, FileFields
    <2>3. /\ pc \in {"make_evidence"} \cup AfterSend /\ pc' # "send_evidence"
      BY <1>4 DEF OpenLeak, WaitTarget, GetReceipt, VictimProof, AdvProof, VerifyAdv,
                  VerifyVictim, SignEvidence, AfterSend, Verifying
    <2>4. pc \in WithNonce /\ pc \in WithStinger
      BY <2>3 DEF WithNonce, WithStinger, AfterPoll
    <2> QED
      BY <2>1, <2>2, <2>3, <2>4, QuietNonce
  <1> QED
    BY <1>1, <1>2, <1>3, <1>4

\* The nonce is read before the first bundle exists.
LEMMA BundleNonce ==
    ASSUME IInv, NInv, run = 1,
           generate_bundle \/ make_bundle_stinger \/ StingerSent \/ EvidenceTx
    PROVE  NInv'
  <1> USE DEF IInv, ScriptInv, Shape, Step, chainVars, builderVars, history, NInv
  <1>1. UNCHANGED <<chain, mevBundles>>
    BY DEF generate_bundle, make_bundle_stinger, StingerSent, EvidenceTx
  <1>2. State'.nonce # 0 => \E b \in mevBundles' : b.target <= Len(chain')
    BY <1>1 DEF State, BlockNumber
  <1>3. CASE generate_bundle
    <2>1. /\ pc = "generate_bundle" /\ pc' = "create_stinger" /\ UNCHANGED <<req, loc>>
          /\ file'.stingNonce = State.nonce
      BY <1>3 DEF generate_bundle, FileFields
    <2>2. State.nonce = 0
      BY <2>1, FreshNonce DEF Before
    <2>3. EvidenceBundleExecutable'
      BY <1>1, <2>1 DEF EvidenceBundleExecutable
    <2> QED
      BY <1>1, <1>2, <2>1, <2>2, <2>3 DEF WithStinger, AfterPoll, AfterSend, Verifying,
                                          Collecting
  <1>4. CASE make_bundle_stinger
    <2>1. PICK b : b = [target |-> BlockNumber + TargetDelay,
                        txs |-> Sting2(run, file.stingNonce)]
      OBVIOUS
    <2>2. /\ pc = "create_stinger" /\ pc' = "stinger_wait" /\ req' = req \cup {b}
          /\ UNCHANGED file /\ loc'.target = b.target
      BY <1>4, <2>1 DEF make_bundle_stinger, Sting2, LocFields
    <2>3. req \cup mevBundles = {} /\ file.stingNonce = 0
      BY <2>2, FreshNonce DEF Before, WithNonce
    <2>4. \A x \in req' \cup mevBundles' : x = b
      BY <1>1, <2>2, <2>3
    <2>5. b.txs = Sting2(run, file.stingNonce)
      BY <2>1
    <2>6. \A tx \in Range(b.txs) : tx.kind # "adv"
      <3>1. Range(b.txs) = {PofTx(run), StingTx(run, file.stingNonce)}
        BY <2>5 DEF Sting2, Range
      <3> QED
        BY <3>1 DEF PofTx, StingTx
    <2>7. EvidenceBundleExecutable'
      BY <2>4, <2>6 DEF EvidenceBundleExecutable
    <2> QED
      BY <1>2, <2>2, <2>3, <2>4, <2>7 DEF WithStinger, AfterPoll, AfterSend, Verifying,
                                          Collecting
  <1>5. CASE StingerSent
    <2>1. /\ pc = "stinger_wait" /\ pc' = "poll" /\ UNCHANGED <<req, loc>>
          /\ file'.stingNonce = file.stingNonce /\ file'.stinger.target = loc.target
      BY <1>5 DEF StingerSent, FileFields
    <2>2. EvidenceBundleExecutable'
      BY <1>1, <2>1 DEF EvidenceBundleExecutable
    <2> QED
      BY <1>1, <1>2, <2>1, <2>2 DEF WithNonce
  <1>6. CASE EvidenceTx
    <2>1. /\ pc = "evidence_tx" /\ pc' = "send_evidence" /\ UNCHANGED <<req, file>>
          /\ loc'.tx = AdvTx(run, State.nonce + 1, loc.victim) /\ loc'.target = loc.target
      BY <1>6 DEF EvidenceTx, LocFields
    <2>2. Len(chain) < loc.target => loc'.tx.nonce = 1
      BY <2>1, FreshNonce DEF AdvTx
    <2>3. EvidenceBundleExecutable'
      BY <1>1, <2>1 DEF EvidenceBundleExecutable
    <2>4. pc \in WithNonce /\ pc \in WithStinger
      BY <2>1 DEF WithNonce, WithStinger, AfterPoll
    <2> QED
      BY <1>1, <1>2, <2>1, <2>2, <2>3, <2>4
  <1> QED
    BY <1>3, <1>4, <1>5, <1>6

\* The evidence bundle is sent before the target block only.
LEMMA SendEvidenceNonce ==
    ASSUME IInv, NInv, SendEvidence
    PROVE  NInv'
  <1> USE DEF IInv, ScriptInv, Shape, Step, chainVars, builderVars, history
  <1>1. /\ pc = "send_evidence" /\ UNCHANGED <<chain, mevBundles, file>>
        /\ loc'.target = loc.target
    BY DEF SendEvidence, LocFields
  <1>2. PICK b : b = [target |-> file.stinger.target,
                      txs |-> Append(file.stinger.bundle, loc.tx)]
    OBVIOUS
  <1>3. \/ pc' = "aborted" /\ UNCHANGED req
        \/ /\ pc' = "evidence_wait" /\ req' = req \cup {b}
           /\ BlockNumber < file.stinger.target
    BY <1>2 DEF SendEvidence
  <1>4. pc \in WithNonce /\ pc \in WithStinger
    BY <1>1 DEF WithNonce, WithStinger, AfterPoll
  <1>5. CASE pc' = "aborted" /\ UNCHANGED req
    BY <1>1, <1>4, <1>5, QuietNonce
  <1>6. CASE /\ pc' = "evidence_wait" /\ req' = req \cup {b}
             /\ BlockNumber < file.stinger.target
    <2>1. b.target = loc.target /\ file.stingNonce = 0 /\ loc.tx.nonce = 1
      BY <1>1, <1>2, <1>4, <1>6 DEF NInv, BlockNumber
    <2>2. PICK m \in Nat : loc.tx = AdvTx(run, m, StingTx(run, file.stingNonce))
      BY <1>1 DEF OwnLocals
    <2>3. /\ file.stinger.bundle = Sting2(run, file.stingNonce)
      BY <1>1 DEF OwnFiles, AfterPoll
    <2>4. b.txs = Sting3(run, file.stingNonce, m)
      <3>1. b.txs = Append(file.stinger.bundle, loc.tx)
        BY <1>2
      <3> QED
        BY <2>2, <2>3, <3>1, AppendPair DEF Sting2, Sting3
    <2>5. \A tx \in Range(b.txs) : tx.kind = "adv" => tx = loc.tx
      <3>1. Range(b.txs) = {PofTx(run), StingTx(run, file.stingNonce),
                            AdvTx(run, m, StingTx(run, file.stingNonce))}
        BY <2>4 DEF Sting3, Range
      <3> QED
        BY <2>2, <3>1 DEF PofTx, StingTx
    <2>6. loc.tx.commit.nonce = 0
      BY <2>1, <2>2 DEF AdvTx, StingTx
    <2>7. EvidenceBundleExecutable'
      BY <1>1, <1>6, <2>1, <2>5, <2>6 DEF NInv, EvidenceBundleExecutable
    <2>8. State'.nonce # 0 => \E x \in mevBundles' : x.target <= Len(chain')
      BY <1>1 DEF NInv, State, BlockNumber
    <2> QED
      BY <1>1, <1>4, <1>6, <2>1, <2>7, <2>8 DEF NInv
  <1> QED
    BY <1>3, <1>5, <1>6

\* A block moves the nonce only when a bundle's target is reached.
LEMMA MineNonce ==
    ASSUME IInv, EInv, NInv, Mine
    PROVE  NInv'
  <1>1. PICK b : MinedBlock(b)
    BY MinesBlock
  <1>2. UNCHANGED <<pc, file, loc, req, mevBundles>>
    BY MinesBlock
  <1>3. Sent
    BY DEF IInv, ScriptInv
  <1>5. Len(chain') = Len(chain) + 1 /\ Len(chain) \in Nat
    BY MinesBlock
  <1>7. State'.nonce # 0 => \E m \in mevBundles : m.target <= Len(chain')
    <2>1. CASE \A i \in 1..Len(b.txs) : ~Stinger(b.txs[i])
      <3>1. State'.nonce = State.nonce
        BY <1>1, <2>1 DEF MinedBlock, EffectAll
      <3>2. ASSUME NEW m \in mevBundles, m.target <= Len(chain) PROVE m.target <= Len(chain')
        <4>1. m.target \in Nat
          BY <1>3 DEF Sent, BundleOK
        <4> QED
          BY <1>5, <3>2, <4>1
      <3> QED
        BY <3>1, <3>2 DEF NInv
    <2>2. CASE \E i \in 1..Len(b.txs) : Stinger(b.txs[i])
      <3>1. PICK tx \in Range(b.txs) : Stinger(tx)
        BY <1>1, <2>2 DEF MinedBlock
      <3>2. tx \notin mempool
        BY <3>1 DEF EInv, PlainMempool, Stinger
      <3>3. PICK m \in mevBundles : m.target = Len(chain) + 1
        BY <1>1, <3>1, <3>2 DEF MinedBlock
      <3> QED
        BY <1>5, <3>3
    <2> QED
      BY <2>1, <2>2
  <1>8. pc = "send_evidence" /\ Len(chain') < loc.target => loc.tx.nonce = 1
    <2> SUFFICES ASSUME pc = "send_evidence", Len(chain') < loc.target
                 PROVE  loc.tx.nonce = 1
      OBVIOUS
    <2>1. loc.target \in Nat
      BY DEF NInv, WithStinger, AfterPoll, IInv, ScriptInv, OwnFiles
    <2>2. Len(chain) < loc.target
      BY <1>5, <2>1
    <2> QED
      BY <2>2 DEF NInv
  <1>9. EvidenceBundleExecutable'
    BY <1>2 DEF NInv, EvidenceBundleExecutable
  <1> QED
    BY <1>2, <1>7, <1>8, <1>9 DEF NInv

\* Every step of the first run keeps the nonces in order.
LEMMA NextFirstRun == IInv /\ Calm /\ FirstRun /\ [Next]_vars => FirstRun'
  <1> SUFFICES ASSUME IInv, Calm, FirstRun, [Next]_vars, reorgs' = 0, run' = 1 PROVE NInv'
    BY DEF FirstRun
  <1>1. reorgs \in Nat /\ run \in Nat \ {0}
    BY StingConstants DEF IInv, ChainInv, ChainOK, ScriptInv, Shape, Run
  <1>2. ~Reorg /\ ~Restart
    BY <1>1 DEF Reorg, Restart
  <1>3. reorgs = 0
    BY <1>1, <1>2, ReorgsCounted
  <1>4. ASSUME UNCHANGED run, Next PROVE NInv'
    <2>1. NInv /\ EInv /\ run = 1
      BY <1>3, <1>4 DEF FirstRun, Calm
    <2> QED
      BY <1>2, <1>4, <2>1, ScriptNonce, BundleNonce, SendEvidenceNonce, MineNonce
      DEF Next, RunSh, make_evidence, verify_evidence
  <1>5. CASE UNCHANGED vars
    <2>1. NInv
      BY <1>3, <1>5 DEF FirstRun, vars
    <2>2. UNCHANGED <<chain, loc, req, mevBundles, pc, file>>
      BY <1>5 DEF vars, chainVars, builderVars
    <2> QED
      BY <2>1, <2>2, QuietNonce
  <1>6. Next => UNCHANGED run
    BY <1>2, RunCounted
  <1> QED
    BY <1>4, <1>5, <1>6

\* Until the chain reorganises, the two stinger transactions of the first
\* run's evidence bundle use consecutive nonces, so that the bundle executes
\* as a whole (generate_tx reads the nonce twice; the assertion on the target
\* block keeps both readings before it).
THEOREM BundleExecutable == Spec => [](reorgs = 0 /\ run = 1 => EvidenceBundleExecutable)
  <1>1. Init => FirstRun
    BY DEF Init, FirstRun, NInv, State, BlockNumber, Genesis, WithNonce, WithStinger,
           AfterPoll, AfterSend, Verifying, Collecting, EvidenceBundleExecutable
  <1>2. FirstRun => (reorgs = 0 /\ run = 1 => EvidenceBundleExecutable)
    BY DEF FirstRun, NInv
  <1> QED
    BY <1>1, <1>2, InitIInv, NextIInv, InitCalm, NextCalm, NextFirstRun, PTL DEF Spec

-----------------------------------------------------------------------------
(* Refinement *)

\* What the stinger account has on the chain came in bundles, an evidence
\* bundle follows the leak of its sting, and leaks come from bundles.
FromBundles ==
    /\ \A tx \in ChainTxs : tx.kind \in {"sting", "adv"} =>
          \E b \in mevBundles : tx \in Range(b.txs)
    /\ \A b \in req \cup mevBundles : Len(b.txs) = 3 =>
          \E l \in leakLog : l.tx = b.txs[2]
    /\ \A l \in leakLog : \E b \in mevBundles : l.tx \in Range(b.txs)
Calm2 == reorgs = 0 => FromBundles

\* The milestones of a run.
SentStings(r) == {tx \in UNION {Range(b.txs) : b \in req \cup mevBundles} :
                    tx.run = r /\ tx.kind = "sting"}
HasLeaked(r) == \E l \in leakLog : l.tx \in SentStings(r)
HasCommitted(r) ==
    \E n \in 1..BlockNumber : \E s, a \in Range(chain[n].txs) :
        s \in SentStings(r) /\ a.kind = "adv" /\ a.commit = s
HasAttested(r) == \E p \in attested : p.signer = r

\* Steps that send no bundle and leave the chain and the leaks alone.
LEMMA BundlesStutter ==
    ASSUME FromBundles, UNCHANGED <<chain, req, mevBundles, leakLog>>
    PROVE  FromBundles'
  BY DEF FromBundles, ChainTxs

\* The bundle of a sting or evidence transaction.
LEMMA BundleShape ==
    ASSUME Sent, NEW b \in req \cup mevBundles
    PROVE  \E r \in Run, n \in Nat :
              /\ r <= run /\ (r = run => pc \notin Before)
              /\ b.txs \in Seq(Tx) /\ Len(b.txs) \in {2, 3}
              /\ b.txs[2] = StingTx(r, n) /\ StingTx(r, n) \in Range(b.txs)
              /\ \A tx \in Range(b.txs) : tx.run = r
              /\ \A tx \in Range(b.txs) : tx.kind = "sting" => tx = StingTx(r, n)
              /\ \A tx \in Range(b.txs) : tx.kind = "adv" =>
                    tx.commit = StingTx(r, n) /\ Len(b.txs) = 3
  <1>1. PICK r \in Run, n \in Nat :
            /\ r <= run /\ (r = run => pc \notin Before)
            /\ \/ b.txs = Sting2(r, n)
               \/ \E m \in Nat : b.txs = Sting3(r, n, m)
    BY DEF Sent, BundleOK
  <1>2. PICK m \in Nat : b.txs = Sting2(r, n) \/ b.txs = Sting3(r, n, m)
    BY <1>1
  <1>3. /\ b.txs \in Seq(Tx) /\ Len(b.txs) \in {2, 3}
        /\ b.txs[2] = StingTx(r, n) /\ StingTx(r, n) \in Range(b.txs)
        /\ \A tx \in Range(b.txs) : tx.run = r
        /\ \A tx \in Range(b.txs) : tx.kind = "sting" => tx = StingTx(r, n)
    BY <1>2, BundleTxs
  <1>4. \A tx \in Range(b.txs) : tx.kind = "adv" =>
            tx.commit = StingTx(r, n) /\ Len(b.txs) = 3
    <2>1. CASE b.txs = Sting2(r, n)
      <3>1. Range(b.txs) = {PofTx(r), StingTx(r, n)}
        BY <2>1 DEF Sting2, Range
      <3> QED
        BY <3>1 DEF PofTx, StingTx
    <2>2. CASE b.txs = Sting3(r, n, m)
      <3>1. Range(b.txs) = {PofTx(r), StingTx(r, n), AdvTx(r, m, StingTx(r, n))}
            /\ Len(b.txs) = 3
        BY <2>2 DEF Sting3, Range
      <3> QED
        BY <3>1 DEF PofTx, StingTx, AdvTx
    <2> QED
      BY <1>2, <2>1, <2>2
  <1> QED
    BY <1>1, <1>3, <1>4

\* The order of the milestones.
LEMMA Milestones ==
    ASSUME IInv, EInv, FromBundles, NEW r \in Run
    PROVE  /\ Claimed(r) => HasAttested(r)
           /\ HasAttested(r) => HasCommitted(r)
           /\ HasCommitted(r) => HasLeaked(r)
           /\ HasLeaked(r) => SentStings(r) # {}
  <1>0. Sent /\ ChainOK
    BY DEF IInv, ChainInv, ScriptInv
  <1>1. Claimed(r) => HasAttested(r)
    BY ClaimIsStanding DEF ClaimStandsOnItsBlock, HasAttested
  <1>2. ASSUME HasAttested(r) PROVE HasCommitted(r)
    <2>1. PICK p \in attested : p.signer = r
      BY <1>2 DEF HasAttested
    <2>2. p.blob.num \in 1..Len(chain) /\ Evidence(r, p.blob.num)
      BY <2>1 DEF EInv, Evidenced
    <2>3. PICK s, a \in Range(chain[p.blob.num].txs) :
             s.kind = "sting" /\ s.run = r /\ a.kind = "adv" /\ a.commit = s
      BY <2>2 DEF Evidence
    <2>4. s \in SentStings(r)
      BY <2>2, <2>3 DEF FromBundles, ChainTxs, SentStings
    <2> QED
      BY <2>2, <2>3, <2>4 DEF HasCommitted, BlockNumber
  <1>3. ASSUME HasCommitted(r) PROVE HasLeaked(r)
    <2>1. PICK n \in 1..Len(chain) : \E s, a \in Range(chain[n].txs) :
             s \in SentStings(r) /\ a.kind = "adv" /\ a.commit = s
      BY <1>3 DEF HasCommitted, BlockNumber
    <2>2. PICK a \in Range(chain[n].txs) : a.kind = "adv" /\ a.commit \in SentStings(r)
      BY <2>1
    <2>3. PICK b \in mevBundles : a \in Range(b.txs)
      BY <2>1, <2>2 DEF FromBundles, ChainTxs
    <2>4. Len(b.txs) = 3 /\ a.commit = b.txs[2]
      BY <1>0, <2>2, <2>3, BundleShape
    <2>5. \E l \in leakLog : l.tx = b.txs[2]
      BY <2>3, <2>4 DEF FromBundles
    <2> QED
      BY <2>2, <2>4, <2>5 DEF HasLeaked
  <1>4. HasLeaked(r) => SentStings(r) # {}
    BY DEF HasLeaked
  <1> QED
    BY <1>1, <1>2, <1>3, <1>4

Ordered == \A r \in Run : /\ Claimed(r) => HasAttested(r)
                          /\ HasAttested(r) => HasCommitted(r)
                          /\ HasCommitted(r) => HasLeaked(r)
                          /\ HasLeaked(r) => SentStings(r) # {}

\* The stage of a run is the last milestone it reached.
Reached(r) == IF Claimed(r) THEN "paid"
              ELSE IF HasAttested(r) THEN "attested"
              ELSE IF HasCommitted(r) THEN "committed"
              ELSE IF HasLeaked(r) THEN "leaked"
              ELSE IF SentStings(r) # {} THEN "stung" ELSE "idle"

\* The refinement mapping, by milestones.
LEMMA StageIs ==
    ASSUME NEW r \in Run
    PROVE  StageOf(r) = Reached(r) /\ StageOf(r)' = Reached(r)'
  <1>1. StageOf(r) = Reached(r)
    BY DEF StageOf, HasAttested, HasCommitted, HasLeaked, SentStings, Reached
  <1>2. StageOf(r)' = Reached(r)'
    BY DEF StageOf, HasAttested, HasCommitted, HasLeaked, SentStings, Reached
  <1> QED
    BY <1>1, <1>2

\* The mapping before and after a step.
LEMMA StagesAre ==
    /\ stages = [r \in Run |-> Reached(r)]
    /\ stages' = [r \in Run |-> Reached(r)']
  BY StageIs DEF stages

-----------------------------------------------------------------------------
(* Each step keeps FromBundles *)

\* A script sends a bundle: an evidence bundle after the leak.
LEMMA BundleSent ==
    ASSUME IInv, EInv, FromBundles, make_bundle_stinger \/ SendEvidence
    PROVE  /\ FromBundles'
           /\ UNCHANGED <<chain, leakLog, attested, mevBundles, run>>
           /\ \/ UNCHANGED req
              \/ \E b : /\ req' = req \cup {b}
                        /\ \A tx \in Range(b.txs) : tx.run = run
                        /\ \A tx \in Range(b.txs) : tx.kind = "sting" =>
                              tx = StingTx(run, file.stingNonce)
                        /\ StingTx(run, file.stingNonce) \in Range(b.txs)
                        /\ pc \in Before \/ pc = "send_evidence"
  <1> USE DEF IInv, ScriptInv, Step, chainVars, history
  <1>1. UNCHANGED <<chain, leakLog, attested, mevBundles, run>>
    BY DEF make_bundle_stinger, SendEvidence
  <1>2. CASE UNCHANGED req
    BY <1>1, <1>2, BundlesStutter
  <1>3. ASSUME NEW b, req' = req \cup {b}, Len(b.txs) = 3 => \E l \in leakLog : l.tx = b.txs[2]
        PROVE  FromBundles'
    BY <1>1, <1>3 DEF FromBundles, ChainTxs
  <1>4. CASE make_bundle_stinger
    <2>1. PICK b : b = [target |-> BlockNumber + TargetDelay,
                        txs |-> Sting2(run, file.stingNonce)]
      OBVIOUS
    <2>2. req' = req \cup {b} /\ pc = "create_stinger"
      BY <1>4, <2>1 DEF make_bundle_stinger, Sting2
    <2>3. b.txs = Sting2(run, file.stingNonce) /\ run \in Run /\ file.stingNonce \in Nat
      BY <2>1, <2>2 DEF OwnFiles, Shape
    <2>4. /\ \A tx \in Range(b.txs) : tx.run = run
          /\ \A tx \in Range(b.txs) : tx.kind = "sting" => tx = StingTx(run, file.stingNonce)
          /\ StingTx(run, file.stingNonce) \in Range(b.txs)
      BY <2>3, BundleTxs
    <2>5. Len(b.txs) = 2
      BY <2>3 DEF Sting2
    <2> QED
      BY <1>1, <1>3, <2>2, <2>4, <2>5 DEF Before
  <1>5. CASE SendEvidence /\ req' # req
    <2>1. PICK b : b = [target |-> file.stinger.target,
                        txs |-> Append(file.stinger.bundle, loc.tx)]
      OBVIOUS
    <2>2. req' = req \cup {b} /\ pc = "send_evidence"
      BY <1>5, <2>1 DEF SendEvidence
    <2>3. PICK m \in Nat : loc.tx = AdvTx(run, m, StingTx(run, file.stingNonce))
      BY <2>2 DEF OwnLocals
    <2>4. /\ file.stinger.bundle = Sting2(run, file.stingNonce)
          /\ run \in Run /\ file.stingNonce \in Nat
      BY <2>2 DEF OwnFiles, AfterPoll, Shape
    <2>5. b.txs = Sting3(run, file.stingNonce, m)
      <3>1. b.txs = Append(file.stinger.bundle, loc.tx)
        BY <2>1
      <3> QED
        BY <2>3, <2>4, <3>1, AppendPair DEF Sting2, Sting3
    <2>6. /\ \A tx \in Range(b.txs) : tx.run = run
          /\ \A tx \in Range(b.txs) : tx.kind = "sting" => tx = StingTx(run, file.stingNonce)
          /\ StingTx(run, file.stingNonce) \in Range(b.txs)
          /\ b.txs[2] = StingTx(run, file.stingNonce)
      BY <2>4, <2>5, BundleTxs
    <2>7. \E l \in leakLog : l.tx = b.txs[2]
      BY <2>2, <2>6 DEF EInv, LeakKnown
    <2> QED
      BY <1>1, <1>3, <2>2, <2>6, <2>7
  <1> QED
    BY <1>1, <1>2, <1>4, <1>5

\* The builder takes a bundle and may leak what is in it.
LEMMA BundleTaken ==
    ASSUME IInv, FromBundles, NEW b \in req, AddMevBundle(b)
    PROVE  /\ FromBundles'
           /\ UNCHANGED <<chain, attested>> /\ leakLog \subseteq leakLog'
           /\ req' \cup mevBundles' = req \cup mevBundles
           /\ \E r \in Run : \A l \in leakLog' \ leakLog : l.tx.run = r
  <1>0. Sent
    BY DEF IInv, ScriptInv
  <1>1. /\ UNCHANGED <<chain, attested>>
        /\ req' = req \ {b} /\ mevBundles' = mevBundles \cup {b}
    BY DEF AddMevBundle, chainVars
  <1>2. PICK k \in 0..Len(b.txs) :
          LET written == {b.txs[i] : i \in 1..k}
          IN  leakLog' = leakLog \cup {[tx |-> tx, at |-> BlockNumber] : tx \in written}
    BY DEF AddMevBundle
  <1>3. PICK r \in Run, n \in Nat : /\ b.txs \in Seq(Tx) /\ b.txs[2] = StingTx(r, n)
                                    /\ \A tx \in Range(b.txs) : tx.run = r
    BY <1>0, BundleShape
  <1>4. \A l \in leakLog' \ leakLog : l.tx \in Range(b.txs)
    BY <1>2, <1>3 DEF Range
  <1>5. leakLog \subseteq leakLog' /\ req' \cup mevBundles' = req \cup mevBundles
    BY <1>1, <1>2
  <1>6. FromBundles'
    BY <1>1, <1>4, <1>5 DEF FromBundles, ChainTxs
  <1> QED
    BY <1>1, <1>3, <1>4, <1>5, <1>6

\* A block takes stings and evidence from bundles.
LEMMA BlockOfBundles ==
    ASSUME IInv, EInv, FromBundles, Mine
    PROVE  /\ FromBundles'
           /\ UNCHANGED <<req, mevBundles, leakLog, attested>>
           /\ Len(chain) \in Nat /\ Len(chain') = Len(chain) + 1
           /\ \A i \in 1..Len(chain) : chain'[i] = chain[i]
  <1>1. PICK b : MinedBlock(b)
    BY MinesBlock
  <1>2. /\ UNCHANGED <<req, mevBundles, leakLog, attested>>
        /\ Len(chain) \in Nat /\ Len(chain') = Len(chain) + 1
        /\ \A i \in 1..Len(chain) : chain'[i] = chain[i]
    BY MinesBlock
  <1>3. FromBundles'
    BY <1>1, <1>2 DEF MinedBlock, FromBundles, EInv, PlainMempool
  <1> QED
    BY <1>2, <1>3

-----------------------------------------------------------------------------
(* Each step is a step of StingAbs or a stutter *)

\* The sting bundle: idle to stung.  The evidence bundle holds the same sting.
LEMMA SendRefines ==
    ASSUME IInv, EInv, FromBundles, Ordered, Ordered', make_bundle_stinger \/ SendEvidence
    PROVE  [Abs!Next]_stages
  <1>0. run \in Run /\ Sent
    BY DEF IInv, ScriptInv, Shape
  <1>1. UNCHANGED <<chain, leakLog, attested, mevBundles, run>>
    BY BundleSent
  <1>2. \A r \in Run : /\ Claimed(r)' = Claimed(r)
                       /\ HasAttested(r)' = HasAttested(r)
    BY <1>1 DEF Claimed, State, BlockNumber, HasAttested
  <1>3. CASE \A r \in Run : SentStings(r)' = SentStings(r)
    <2>1. \A r \in Run : HasLeaked(r)' = HasLeaked(r) /\ HasCommitted(r)' = HasCommitted(r)
      BY <1>1, <1>3 DEF HasLeaked, HasCommitted, BlockNumber
    <2>2. \A r \in Run : Reached(r)' = Reached(r)
      BY <1>2, <1>3, <2>1 DEF Reached
    <2> QED
      BY <2>2, StagesAre
  <1>4. CASE \E r \in Run : SentStings(r)' # SentStings(r)
    <2>1. req' # req
      BY <1>1, <1>4 DEF SentStings
    <2>2. PICK b : /\ req' = req \cup {b}
                   /\ \A tx \in Range(b.txs) : tx.run = run
                   /\ \A tx \in Range(b.txs) : tx.kind = "sting" =>
                         tx = StingTx(run, file.stingNonce)
                   /\ StingTx(run, file.stingNonce) \in Range(b.txs)
                   /\ pc \in Before \/ pc = "send_evidence"
      BY <2>1, BundleSent
    <2>3. StingTx(run, file.stingNonce).run = run /\ StingTx(run, file.stingNonce).kind = "sting"
      BY DEF StingTx
    <2>4. /\ SentStings(run)' = SentStings(run) \cup {StingTx(run, file.stingNonce)}
          /\ \A r \in Run \ {run} : SentStings(r)' = SentStings(r)
      BY <1>1, <2>2, <2>3 DEF SentStings
    <2>5. StingTx(run, file.stingNonce) \notin SentStings(run)
      <3>1. PICK r \in Run : SentStings(r)' # SentStings(r)
        BY <1>4
      <3>2. r = run
        BY <2>4, <3>1
      <3>3. SentStings(r)' = SentStings(r) \cup {StingTx(run, file.stingNonce)}
        BY <1>1, <2>2, <2>3, <3>2 DEF SentStings
      <3> QED
        BY <3>1, <3>2, <3>3
    <2>6. pc # "send_evidence"
      <3> SUFFICES ASSUME pc = "send_evidence" PROVE FALSE
        OBVIOUS
      <3>1. PICK l \in leakLog : l.tx = StingTx(run, file.stingNonce)
        BY DEF EInv, LeakKnown
      <3>2. PICK m \in mevBundles : StingTx(run, file.stingNonce) \in Range(m.txs)
        BY <3>1 DEF FromBundles
      <3> QED
        BY <2>3, <2>5, <3>2 DEF SentStings
    <2>7. \A m \in req \cup mevBundles : \A tx \in Range(m.txs) : tx.run # run
      <3> TAKE m \in req \cup mevBundles
      <3>1. PICK r \in Run : r # run /\ \A tx \in Range(m.txs) : tx.run = r
        BY <1>0, <2>2, <2>6, BundleShape
      <3> QED
        BY <3>1
    <2>8. SentStings(run) = {}
      BY <2>7 DEF SentStings
    <2>9. ~HasLeaked(run)'
      <3>1. \A l \in leakLog : l.tx.run # run
        BY <2>7 DEF FromBundles
      <3>2. \A tx \in SentStings(run)' : tx.run = run
        BY <1>1 DEF SentStings
      <3> QED
        BY <1>1, <3>1, <3>2 DEF HasLeaked
    <2>10. Reached(run) = "idle" /\ Reached(run)' = "stung"
      <3>1. Reached(run) = "idle"
        BY <1>0, <2>8 DEF Ordered, Reached
      <3>2. SentStings(run)' # {}
        BY <2>4
      <3>3. ~HasCommitted(run)' /\ ~HasAttested(run)' /\ ~Claimed(run)'
        BY <1>0, <1>1, <2>9 DEF Ordered
      <3>4. Reached(run)' = "stung"
        BY <1>1, <2>9, <3>2, <3>3 DEF Reached
      <3> QED
        BY <3>1, <3>4
    <2>11. \A r \in Run \ {run} : Reached(r)' = Reached(r)
      <3>1. \A r \in Run \ {run} : HasLeaked(r)' = HasLeaked(r)
                                   /\ HasCommitted(r)' = HasCommitted(r)
        BY <1>1, <2>4 DEF HasLeaked, HasCommitted, BlockNumber
      <3> QED
        BY <1>2, <2>4, <3>1 DEF Reached
    <2>12. Abs!Send(run)
      BY <1>0, <1>1, <2>10, <2>11, StagesAre DEF Abs!Send, Abs!Move
    <2> QED
      BY <1>0, <2>12 DEF Abs!Next
  <1> QED
    BY <1>3, <1>4

\* The builder gives stings away: stung to leaked.
LEMMA BuilderRefines ==
    ASSUME IInv, FromBundles, Ordered, Ordered', NEW b \in req, AddMevBundle(b)
    PROVE  [Abs!Next]_stages
  <1>1. /\ UNCHANGED <<chain, attested>> /\ leakLog \subseteq leakLog'
        /\ req' \cup mevBundles' = req \cup mevBundles
    BY BundleTaken
  <1>2. PICK q \in Run : \A l \in leakLog' \ leakLog : l.tx.run = q
    BY BundleTaken
  <1>3. \A r \in Run : /\ SentStings(r)' = SentStings(r)
                       /\ \A tx \in SentStings(r) : tx.run = r
    BY <1>1 DEF SentStings
  <1>4. \A r \in Run : /\ Claimed(r)' = Claimed(r)
                       /\ HasAttested(r)' = HasAttested(r)
                       /\ HasCommitted(r)' = HasCommitted(r)
    BY <1>1, <1>3 DEF Claimed, State, BlockNumber, HasAttested, HasCommitted
  <1>5. \A r \in Run : HasLeaked(r) => HasLeaked(r)'
    BY <1>1, <1>3 DEF HasLeaked
  <1>6. \A r \in Run \ {q} : HasLeaked(r)' = HasLeaked(r)
    BY <1>2, <1>3, <1>5 DEF HasLeaked
  <1>7. \A r \in Run \ {q} : Reached(r)' = Reached(r)
    BY <1>3, <1>4, <1>6 DEF Reached
  <1>8. CASE HasLeaked(q) \/ ~HasLeaked(q)'
    <2>1. HasLeaked(q)' = HasLeaked(q)
      BY <1>5, <1>8 DEF HasLeaked
    <2>2. Reached(q)' = Reached(q)
      BY <1>3, <1>4, <2>1 DEF Reached
    <2> QED
      BY <1>7, <2>2, StagesAre
  <1>9. CASE ~HasLeaked(q) /\ HasLeaked(q)'
    <2>1. ~HasCommitted(q) /\ ~HasAttested(q) /\ ~Claimed(q)
      BY <1>9 DEF Ordered
    <2>2. SentStings(q) # {}
      BY <1>3, <1>9 DEF Ordered
    <2>3. Reached(q) = "stung" /\ Reached(q)' = "leaked"
      BY <1>3, <1>4, <1>9, <2>1, <2>2 DEF Reached
    <2>4. Abs!Leak(q)
      BY <1>7, <2>3, StagesAre DEF Abs!Leak, Abs!Move
    <2> QED
      BY <2>4 DEF Abs!Next
  <1> QED
    BY <1>8, <1>9

\* A block: evidence on the chain, bounties paid.
LEMMA MineRefines ==
    ASSUME IInv, EInv, FromBundles, Ordered, Ordered', Mine
    PROVE  [Abs!Next]_stages
  <1>1. /\ UNCHANGED <<req, mevBundles, leakLog, attested>>
        /\ Len(chain) \in Nat /\ Len(chain') = Len(chain) + 1
        /\ \A i \in 1..Len(chain) : chain'[i] = chain[i]
    BY BlockOfBundles
  <1>2. \A r \in Run : /\ SentStings(r)' = SentStings(r)
                       /\ HasLeaked(r)' = HasLeaked(r)
                       /\ HasAttested(r)' = HasAttested(r)
    BY <1>1 DEF SentStings, HasLeaked, HasAttested
  <1>3. \A r \in Run : HasCommitted(r) => HasCommitted(r)'
    <2>1. \A i \in 1..Len(chain) : i \in 1..Len(chain')
      BY <1>1
    <2> QED
      BY <1>1, <1>2, <2>1 DEF HasCommitted, BlockNumber
  <1>4. \A r \in Run : Claimed(r) => Claimed(r)'
    BY ClaimsKept
  <1> DEFINE S == {r \in Run : Reached(r) = "leaked" /\ Reached(r)' = "committed"}
             P == {r \in Run : Reached(r) = "attested" /\ Reached(r)' = "paid"}
  <1>5. ASSUME NEW r \in Run
        PROVE  r \in S \/ r \in P \/ Reached(r)' = Reached(r)
    <2>1. CASE Claimed(r)' # Claimed(r)
      <3>1. ~Claimed(r) /\ Claimed(r)'
        BY <1>4, <2>1 DEF Claimed
      <3>2. HasAttested(r)
        BY <1>2, <3>1 DEF Ordered
      <3> QED
        BY <3>1, <3>2 DEF Reached
    <2>2. CASE Claimed(r)' = Claimed(r) /\ HasCommitted(r)' # HasCommitted(r)
      <3>1. ~HasCommitted(r) /\ HasCommitted(r)'
        BY <1>3, <2>2 DEF HasCommitted
      <3>2. ~HasAttested(r) /\ ~Claimed(r) /\ HasLeaked(r)
        BY <1>2, <3>1 DEF Ordered
      <3> QED
        BY <1>2, <2>2, <3>1, <3>2 DEF Reached
    <2>3. CASE Claimed(r)' = Claimed(r) /\ HasCommitted(r)' = HasCommitted(r)
      BY <1>2, <2>3 DEF Reached
    <2> QED
      BY <2>1, <2>2, <2>3
  <1>6. Abs!Block(S, P)
    <2>1. \A r \in S : Reached(r) = "leaked" /\ Reached(r)' = "committed"
      OBVIOUS
    <2>2. \A r \in P : Reached(r) = "attested" /\ Reached(r)' = "paid"
      OBVIOUS
    <2>3. S \subseteq Run /\ P \subseteq Run
      OBVIOUS
    <2> HIDE DEF S, P
    <2>4. \A r \in Run : Reached(r)' = IF r \in S THEN "committed"
                                       ELSE IF r \in P THEN "paid" ELSE Reached(r)
      BY <1>5, <2>1, <2>2
    <2> QED
      BY <2>1, <2>2, <2>3, <2>4, StagesAre DEF Abs!Block
  <1> QED
    BY <1>6 DEF Abs!Next

\* The enclave signs: committed to attested.
LEMMA SignRefines ==
    ASSUME IInv, Ordered, Ordered', SignEvidence
    PROVE  [Abs!Next]_stages
  <1>1. /\ UNCHANGED <<chain, req, mevBundles, leakLog>> /\ attested \subseteq attested'
        /\ \A p \in attested' \ attested : p.signer = file.key
    BY DEF SignEvidence, chainVars, builderVars
  <1>2. file.key = run /\ run \in Run
    BY DEF IInv, ScriptInv, Shape, OwnFiles, SignEvidence, Step
  <1>3. PICK q \in Run : q = run
    BY <1>2
  <1>4. \A r \in Run : /\ SentStings(r)' = SentStings(r)
                       /\ HasLeaked(r)' = HasLeaked(r)
                       /\ HasCommitted(r)' = HasCommitted(r)
                       /\ Claimed(r)' = Claimed(r)
    BY <1>1 DEF SentStings, HasLeaked, HasCommitted, Claimed, State, BlockNumber
  <1>5. /\ \A r \in Run : HasAttested(r) => HasAttested(r)'
        /\ \A r \in Run \ {q} : HasAttested(r)' = HasAttested(r)
    BY <1>1, <1>2, <1>3 DEF HasAttested
  <1>6. \A r \in Run \ {q} : Reached(r)' = Reached(r)
    BY <1>4, <1>5 DEF Reached
  <1>7. CASE HasAttested(q)' = HasAttested(q)
    <2>1. Reached(q)' = Reached(q)
      BY <1>4, <1>7 DEF Reached
    <2> QED
      BY <1>6, <2>1, StagesAre
  <1>8. CASE HasAttested(q)' # HasAttested(q)
    <2>1. ~HasAttested(q) /\ HasAttested(q)'
      BY <1>5, <1>8 DEF HasAttested
    <2>2. ~Claimed(q) /\ HasCommitted(q)
      BY <1>4, <2>1 DEF Ordered
    <2>3. Reached(q) = "committed" /\ Reached(q)' = "attested"
      BY <1>4, <2>1, <2>2 DEF Reached
    <2>4. Abs!Attest(q)
      BY <1>6, <2>3, StagesAre DEF Abs!Attest, Abs!Move
    <2> QED
      BY <2>4 DEF Abs!Next
  <1> QED
    BY <1>7, <1>8

\* Every other step leaves the milestones where they are.
Idle == UNCHANGED <<chain, req, mevBundles, leakLog, attested>>

\* A step that touches no milestone is a stuttering step.
LEMMA IdleRefines ==
    ASSUME Idle
    PROVE  [Abs!Next]_stages
  <1>1. \A r \in Run : Reached(r)' = Reached(r)
    BY DEF Idle, Reached, SentStings, HasLeaked, HasCommitted, HasAttested, Claimed, State,
           BlockNumber
  <1> QED
    BY <1>1, StagesAre

\* Which steps can touch a milestone.
LEMMA StepKinds ==
    ASSUME [Next]_vars, ~Reorg
    PROVE  \/ make_bundle_stinger \/ SendEvidence \/ SignEvidence \/ Mine \/ Idle
           \/ \E b \in req : AddMevBundle(b)
  <1> USE DEF Idle, chainVars, builderVars, history
  <1>1. CASE UNCHANGED vars
    BY <1>1 DEF vars
  <1>2. CASE make_evidence \/ verify_evidence
    BY <1>2 DEF make_evidence, OpenLeak, EvidenceTx, WaitTarget, GetReceipt,
                VictimProof, AdvProof, verify_evidence, VerifyAdv, VerifyVictim
  <1>3. CASE setup_bounty_contract \/ submit_enclave \/ approve_enclave \/ collect_bounty
    BY <1>3 DEF setup_bounty_contract, submit_enclave, approve_enclave, collect_bounty,
                SendTx, WaitReceipt
  <1>4. CASE RunSh
    BY <1>2, <1>3, <1>4 DEF RunSh, CleanShared, gen_signingKey, SgxQuote, CleanLeak,
                generate_bundle, StingerSent, PollLeak
  <1>5. CASE Mine \/ Timeout \/ Crash \/ Restart \/ Builder
    BY <1>5 DEF Timeout, Crash, Restart, Builder
  <1> QED
    BY <1>1, <1>4, <1>5 DEF Next

\* Every step but a reorganisation is a step of StingAbs or a stutter.
LEMMA StepRefines ==
    ASSUME IInv, EInv, FromBundles, Ordered, Ordered', [Next]_vars, ~Reorg
    PROVE  [Abs!Next]_stages
  BY StepKinds, SendRefines, BuilderRefines, MineRefines, SignRefines, IdleRefines

\* Initially all runs are idle.
LEMMA InitBundles == Init => Calm2 /\ Abs!Init
  <1> SUFFICES ASSUME Init PROVE FromBundles /\ Abs!Init
    BY DEF Calm2
  <1> USE DEF Init
  <1>1. chain[1] = Genesis /\ Len(chain) = 1
    OBVIOUS
  <1>2. State.contract = [r \in Run |-> None] /\ ChainTxs = {}
    BY <1>1 DEF State, BlockNumber, Genesis, ChainTxs, Range
  <1>3. FromBundles
    BY <1>2 DEF FromBundles
  <1>4. \A r \in Run : Reached(r) = "idle"
    <2>1. \A r \in Run : SentStings(r) = {} /\ ~Claimed(r) /\ ~HasAttested(r)
      BY <1>2 DEF SentStings, Claimed, HasAttested
    <2>2. \A r \in Run : ~HasLeaked(r) /\ ~HasCommitted(r)
      BY <2>1 DEF HasLeaked, HasCommitted
    <2> QED
      BY <2>1, <2>2 DEF Reached
  <1>5. Abs!Init
    BY <1>4, StagesAre DEF Abs!Init
  <1> QED
    BY <1>3, <1>5

\* As long as there was no reorganisation, FromBundles is kept.
LEMMA NextBundles == IInv /\ Calm /\ Calm2 /\ [Next]_vars => Calm2'
  <1> SUFFICES ASSUME IInv, Calm, Calm2, [Next]_vars, reorgs' = 0 PROVE FromBundles'
    BY DEF Calm2
  <1>1. ~Reorg
    BY DEF Reorg, IInv, ChainInv, ChainOK
  <1>2. reorgs = 0
    BY <1>1, ReorgsCounted
  <1>3. EInv /\ FromBundles
    BY <1>2 DEF Calm, Calm2
  <1>4. CASE SignEvidence \/ Idle
    <2>1. UNCHANGED <<chain, req, mevBundles, leakLog>>
      BY <1>4 DEF SignEvidence, Idle, chainVars, builderVars
    <2> QED
      BY <1>3, <2>1, BundlesStutter
  <1> QED
    BY <1>1, <1>3, <1>4, StepKinds, BundleSent, BundleTaken, BlockOfBundles

\* On a chain that does not reorganise, the scripts, the builder, the chain and
\* the contract together implement the abstract sting.
THEOREM StingImplemented == Spec /\ [](reorgs = 0) => ImplementsSting
  <1> DEFINE I == IInv /\ Calm /\ Calm2
  <1>1. Init => I
    BY InitIInv, InitCalm, InitBundles
  <1>2. I /\ [Next]_vars => I'
    BY NextIInv, NextCalm, NextBundles
  <1>3. I /\ reorgs = 0 => Ordered
    BY Milestones DEF Ordered, Calm, Calm2
  <1>4. I /\ reorgs = 0 /\ Ordered /\ Ordered' /\ [Next]_vars /\ (reorgs = 0)'
            => [Abs!Next]_stages
    <2> SUFFICES ASSUME I, reorgs = 0, Ordered, Ordered', [Next]_vars, (reorgs = 0)'
                 PROVE  [Abs!Next]_stages
      OBVIOUS
    <2>1. ~Reorg
      BY DEF Reorg
    <2> QED
      BY <2>1, StepRefines DEF Calm, Calm2
  <1>5. Init => Abs!Init
    BY InitBundles
  <1> HIDE DEF I
  <1> QED
    BY <1>1, <1>2, <1>3, <1>4, <1>5, PTL DEF Spec, ImplementsSting, Abs!Spec
=============================================================================
