-------------------------------- MODULE MCExt ---------------------------------
(* The ext of the editor and its counterpart at Rider.                       *)
EXTENDS ExtWire
CONSTANTS editor, rider
MCPeers == {editor, rider}
MCSends == [p \in MCPeers |-> IF p = editor THEN 2 ELSE 0]
MCBindsAgain == [p \in MCPeers |-> IF p = editor THEN 1 ELSE 2]
===============================================================================
