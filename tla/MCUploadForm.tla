---------------------------- MODULE MCUploadForm ----------------------------
EXTENDS UploadForm

CONSTANTS tagged, plain, k1, k2, l1, l2

MCFiles == {tagged, plain}
MCTag == [f \in MCFiles |-> IF f = tagged THEN l1 ELSE NoTag]
MCHandSignatures == {[key |-> k1, label |-> l2, file |-> plain]}
=============================================================================
