---------------------------- MODULE MCDashboard ----------------------------
(* Dashboard.tla on small sets, for TLC.                                   *)
EXTENDS Dashboard, TLC

\* Lists differ only in that web_device may skip its refresh: one of the two
\* that do not is enough beside it.
MCOrder == <<"devices", "files">>
=============================================================================
