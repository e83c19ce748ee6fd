------------------------------ MODULE MCPcapIngest ------------------------------
(***************************************************************************)
(* Two capture files of two packets and one dump.  The second packet of    *)
(* one file is a malformed fragment, that of the other a whole one.        *)
(***************************************************************************)
EXTENDS PcapIngest

CONSTANTS c1, c2

MCMalformed == {<<c2, 2>>}
================================================================================
