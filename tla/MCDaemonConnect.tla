-------------------------- MODULE MCDaemonConnect --------------------------
(***************************************************************************)
(* DaemonConnect with two clients at once, a daemon started by hand and a  *)
(* daemon left from before.                                                *)
(***************************************************************************)
EXTENDS DaemonConnect

CONSTANTS c1, c2, m1
MCClients == {c1, c2}
MCManual  == {m1}
MCNobody  == {}

MCAnyHost    == {TRUE, FALSE}
MCPromptHost == {TRUE}
=============================================================================
