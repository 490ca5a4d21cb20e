--------------------------- MODULE MCBundleClient ---------------------------
EXTENDS BundleClient
CONSTANTS a, b, c
MCSenders == <<a, b>>
Unsigned(x) == [form |-> "signer", from |-> x, nonce |-> None]
Copied(x) == [form |-> "dict", from |-> x, nonce |-> 0]
MCTails == {<<>>, <<Unsigned(b), Unsigned(b)>>, <<Unsigned(c), Unsigned(a)>>,
            <<Copied(c), Unsigned(a)>>, <<Copied(c), Unsigned(c)>>, <<Unsigned(c), Copied(c)>>}
=============================================================================
