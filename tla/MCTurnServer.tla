----------------------------- MODULE MCTurnServer -----------------------------
(* A client that allocates, binds a channel, refreshes and deletes, and     *)
(* whose Allocate may come again, with two peers behind one address; a       *)
(* second client, of the same user, that finds the only session taken.       *)
EXTENDS TurnServer

CONSTANTS a1, b1, del, bind, ref, c1, c2, us, p1, p2, ip, ch

MCClient == [r \in Request |-> IF r = b1 THEN c2 ELSE c1]
MCUser == [r \in Request |-> us]
MCMethod == [r \in Request |-> CASE r = del -> "Delete" [] r = bind -> "ChannelBind"
                                 [] r = ref -> "Refresh"
                                 [] OTHER -> "Allocate"]
MCPeer == [r \in Request |-> IF r = bind THEN p1 ELSE None]
MCChannel == [r \in Request |-> IF r = bind THEN ch ELSE None]
MCIp == [p \in {p1, p2} |-> ip]
=============================================================================
