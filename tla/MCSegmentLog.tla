---------------------------- MODULE MCSegmentLog ----------------------------
\* Instances of SegmentLog for TLC.
EXTENDS SegmentLog

One == {1}
Two == {2}
OneOrTwo == {1, 2}

=============================================================================
