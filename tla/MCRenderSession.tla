-------------------------- MODULE MCRenderSession --------------------------
(* Instances of RenderSession on their own: one branch, and two.            *)
EXTENDS RenderSession
============================================================================
