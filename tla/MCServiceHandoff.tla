-------------------------- MODULE MCServiceHandoff --------------------------
(***************************************************************************)
(* ServiceHandoff with another inference service started by hand and a     *)
(* process that listens on every address of the port.                      *)
(***************************************************************************)
EXTENDS ServiceHandoff

CONSTANTS byHand, wildcard
MCOthers     == {byHand, wildcard}
MCWildcards  == {wildcard}
MCInferences == {byHand}

MCAnyHost == {TRUE, FALSE}
=============================================================================
