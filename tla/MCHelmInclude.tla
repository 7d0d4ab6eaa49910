--------------------------- MODULE MCHelmInclude ---------------------------
(* Two branches that include and tpl, with the properties of the session.   *)
EXTENDS HelmInclude
============================================================================
