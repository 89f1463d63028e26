----------------------------- MODULE MCAuditSink -----------------------------
(***************************************************************************)
(* AuditSink on a small instance: a buffer of three and batches of two, so *)
(* that a flush takes several rounds, and four events, so that the last    *)
(* one drops the first when the loop is slow, and may meet a batch that is *)
(* already on its way. Two events reach both limits of a full buffer.      *)
(***************************************************************************)
EXTENDS AuditSink
=============================================================================
