----------------------------- MODULE MCTimeObjects -----------------------------
(***************************************************************************)
(* A small instance of TimeObjects: two threads in Peking time, moments at *)
(* the ends of months and years, dates that meet them.                     *)
(***************************************************************************)
EXTENDS TimeObjects, TLC

CONSTANTS t1, t2

MCThreads == {t1, t2}
MCZone == 28800
At(y, m, d, h, ms) == MomentOf(<<y, m, d, h, 0, 0, ms>>)
MCNows == {At(1999, 1, 31, 8, 999), At(2000, 2, 29, 23, 0)}
MCDates == {<<1999, 2, 12, 1, 2, 3, 4>>, <<1996, 3, 31, 23, 59, 59, 999>>, <<2004, 13>>, <<>>}
MCSettings == {<<"year", 1969>>, <<"day", 31>>, <<"millisec", 70000>>}
MCAmounts == {1500, -1}
MCSpans == {11, 13, -1}
MCSymmetry == Permutations(MCThreads)
=============================================================================
