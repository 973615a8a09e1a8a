------------------------------ MODULE MCLogFile -------------------------------
(* Days of three seconds, files of three bytes, a check every two lines.         *)
EXTENDS LogFile
=============================================================================
