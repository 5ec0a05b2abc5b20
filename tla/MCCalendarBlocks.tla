-------------------------- MODULE MCCalendarBlocks --------------------------
(***************************************************************************)
(* Two days of two slots.                                                   *)
(***************************************************************************)
EXTENDS CalendarBlocks
=============================================================================
