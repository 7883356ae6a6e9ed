---------------------------- MODULE MCAuthorityLink ----------------------------
(* Instances of AuthorityLink for TLC.                                      *)
EXTENDS AuthorityLink
CONSTANT Bound

\* Track 1 is visible, or is not.
MCViews == {{1}, {}}
MCSessions == 1 .. Bound
=============================================================================
