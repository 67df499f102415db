--------------------------- MODULE MCCaddyRouter ---------------------------
(* Instances of CaddyRouter for TLC. *)
EXTENDS CaddyRouter

CONSTANTS d1, d2, h1, t1, t2

MCDomains == {d1, d2}
MCHosts == {h1}
MCTargets == {t1, t2}
=============================================================================
