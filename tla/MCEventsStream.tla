--------------------------- MODULE MCEventsStream ---------------------------
(* A dashboard, three rows, one in each table, of which two are written in    *)
(* one window, and the shortest window that WideWindow admits.                *)
EXTENDS EventsStream, TLC

CONSTANTS x1, q1, a1

ASSUME Assumptions == StreamAssumption /\ WideWindow /\ RoomForBursts
=============================================================================
