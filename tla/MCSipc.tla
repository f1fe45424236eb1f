------------------------------- MODULE MCSipc -------------------------------
(* Instances of Sipc for TLC. *)
EXTENDS Sipc

(* A client that binds, sends and receives; a host that connects and sends, *)
(* and never receives, so that the client's data stays with it.             *)
ServerDoes == [e \in End |->
    IF e = "host" THEN {"connect", "send", "disconnect"}
                  ELSE {"bind", "send", "recv", "freebuf"}]

HostsTwo == [e \in End |-> IF e = "host" THEN 2 ELSE 1]

(* The host's packets are whole ones.  Each takes the client's buffer over  *)
(* its capacity, and one is still too much when a byte of it has been read. *)
Chunks == [e \in End |-> IF e = "host" THEN <<2, 2>> ELSE <<1>>]
Bytes  == [e \in End |-> IF e = "host" THEN 2 ELSE 1]
=============================================================================
