------------------------------- MODULE MCPipe -------------------------------
(* Instances of Pipe for TLC. *)
EXTENDS Pipe

CONSTANTS Reader, Writer    \* the other tasks close the pipe

(* A shell's pipeline: one program owns the reading end, one writes, the   *)
(* shell closes the pipe; all of them may close it.                        *)
OwnerCalls == [t \in Task |->
    CASE t = Reader -> {"read", "clear", "permanent", "close"}
      [] t = Writer -> {"write", "close"}
      [] OTHER      -> {"close"}]

(* One program that only reads and one that writes and closes. *)
StreamCalls == [t \in Task |-> IF t = Reader THEN {"read"} ELSE {"write", "close"}]
=============================================================================
