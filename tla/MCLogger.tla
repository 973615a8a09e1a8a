------------------------------ MODULE MCLogger -------------------------------
(* Logger in front of AsyncLogging, with buffers of one line, a limit of three  *)
(* buffers to take, and enough lines to go past it, and to fill three buffers   *)
(* while an earlier one is written.                                             *)
EXTENDS Logger
=============================================================================
