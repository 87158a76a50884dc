--------------------------- MODULE MCIngestionApi ---------------------------
(* A small instance of IngestionApi for TLC. *)
EXTENDS IngestionApi

CONSTANT z1

MCReading ==
  [status |-> "moving", battery |-> 50, speed |-> 0, x |-> 0, y |-> 0, at |-> 0]

\* Every event is for the same row and the same zone: all contend.
MCEvents ==
  { [vehicle |-> v, zone |-> z1, aware |-> TRUE, errors |-> FALSE, reading |-> MCReading] :
      v \in Reporting }
=============================================================================
