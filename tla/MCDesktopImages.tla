-------------------------- MODULE MCDesktopImages --------------------------
(* Instances of DesktopImages for TLC. *)
EXTENDS DesktopImages

CONSTANTS k1, k2, p1, p2, t1, t2

TwoKeys == {k1, k2}
OnePassword == {p1}
TwoPasswords == {p1, p2}
OneThread == {t1}
TwoThreads == {t1, t2}
NoneOrFirst == {None, k1}
NoneOnly == {None}
=============================================================================
