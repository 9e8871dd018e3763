---------------------------- MODULE MCGuiLifecycle ----------------------------
(* The plugin window with three generations and eight host calls.            *)
EXTENDS GuiLifecycle
=============================================================================
