---------------------------- MODULE MCWebVault ----------------------------
(* WebVault.tla on small sets, for TLC.                                    *)
EXTENDS WebVault
=============================================================================
