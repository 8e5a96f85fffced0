--------------------------- MODULE MCAuthSession ---------------------------
(* A small instance of AuthSession for TLC: one tab in use and one in the  *)
(* background, two sessions one after the other.                           *)
EXTENDS AuthSession, TLC

CONSTANTS t1, t2

TwoTabs == {t1, t2}
OneTab == {t1}
TwoSids == {1, 2}
=============================================================================
