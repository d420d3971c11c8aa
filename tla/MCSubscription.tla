--------------------------- MODULE MCSubscription ---------------------------
\* Instances of Subscription for TLC.
EXTENDS Subscription

One == {1}

=============================================================================
