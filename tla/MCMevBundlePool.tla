-------------------------- MODULE MCMevBundlePool --------------------------
(* MevBundlePool for TLC: two adding threads and a call of MevBundles.      *)
EXTENDS MevBundlePool

CONSTANTS a1, a2, k1, sting, other, u1

B(n, lo, hi, key, hash, signer, txs) ==
    [number |-> n, minTime |-> lo, maxTime |-> hi, key |-> key, hash |-> hash,
     signer |-> signer, txs |-> txs]

\* A sting-like bundle, one with a time window, two versions of a cancellable
\* bundle; the first two are added together.
StingB == B(1, 0, 0, None, 1, sting, <<"s1", "s2">>)
TimedB == B(2, 2, 3, None, 2, other, <<"t">>)
Old == B(1, 0, 0, u1, 1, other, <<"o">>)
New == B(1, 0, 0, u1, 2, sting, <<"n">>)

MixedBatches == {<<Old>>, <<New>>, <<TimedB, StingB>>}
====
