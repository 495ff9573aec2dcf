----------------------------- MODULE MCIoWait -----------------------------
(***************************************************************************)
(* IoWait for a task that reads and writes with a timeout and one that     *)
(* connects without, and for the first one alone, reading.                 *)
(***************************************************************************)
EXTENDS IoWait

CONSTANTS session, client

MCUses == [t \in {session, client} |->
              IF t = session THEN {"READ", "WRITE"} ELSE {"CONNECT"}]
MCReads == [t \in {session} |-> {"READ"}]
=============================================================================
