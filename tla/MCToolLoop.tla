------------------------------- MODULE MCToolLoop -------------------------------
(***************************************************************************)
(* Small instances of ToolLoop for TLC.                                    *)
(***************************************************************************)
EXTENDS ToolLoop
================================================================================
