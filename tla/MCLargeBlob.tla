---------------------------- MODULE MCLargeBlob -----------------------------
(* Arrays of two to five bytes, one of them without its digest.            *)
EXTENDS LargeBlob

CONSTANTS x, y

Seal(s) == Append(s, s)

MCArrays == {Seal(<<x>>), Seal(<<y, x, y>>), Seal(<<x, x, y, y>>), <<x, y, x>>, <<x>>}

MCInitially == {Seal(<<y>>), Seal(<<x, y, x>>)}
=============================================================================
