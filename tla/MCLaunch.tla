------------------------------ MODULE MCLaunch ------------------------------
(* Model values of Launch for TLC: where convert.sh may be killed. *)
EXTENDS Launch

\* Step 1 to 3 of convert.sh.
StepsOneToThree ==
  {"convert", "payload", "sidecar", "index", "bitrates", "manifest",
   "make_config", "draft"}

\* Step 4.
StepFour ==
  {"keep_config", "keep_index", "keep_manifest", "vision_index", "vision_manifest",
   "add_vision", "vis_sidecar", "add_index", "add_manifest", "vision_config"}

\* Step 5, use_vision.sh on.
StepFive == {"on_config", "on_index", "on_manifest"}

Anywhere == Commands
=============================================================================
