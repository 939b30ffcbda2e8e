------------------------------- MODULE MCSdk -------------------------------
(* Small instances of the SDK's capture for TLC.                           *)
EXTENDS SdkProperties, TLC

CONSTANTS s1, s2, s3, main, helper

ThreeSpans == {s1, s2, s3}
TwoSpans == {s1, s2}
TwoTasks == {main, helper}
OneTask == {main}

\* Spans are interchangeable (safety runs only).
SameSpans == Permutations(ThreeSpans)

=============================================================================
