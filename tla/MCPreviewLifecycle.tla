-------------------------- MODULE MCPreviewLifecycle --------------------------
(* Instances of PreviewLifecycle for TLC.                                  *)
EXTENDS PreviewLifecycle
==============================================================================
