------------------------------ MODULE MCConsole ------------------------------
(***************************************************************************)
(* Instances of Console for TLC.                                           *)
(***************************************************************************)
EXTENDS Console

MCRole == <<"ADMIN", "MANAGER", "ENGINEER", "ENGINEER", "ENGINEER">>
MCExisting == <<"admin", "manager", "engineer">>
MCAssigned == {[id |-> 1, user |-> 3, skill |-> "python", level |-> "BEGINNER"],
               [id |-> 2, user |-> 3, skill |-> "tla", level |-> "BEGINNER"]}
=============================================================================
