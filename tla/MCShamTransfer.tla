--------------------------- MODULE MCShamTransfer ---------------------------
(* Instances of ShamTransfer for TLC, and its refinement of FileDelivery.  *)
EXTENDS ShamTransfer

Delivery == INSTANCE FileDelivery WITH
              Total <- NChunks, file <- out,
              done <- server \in {"last", "exit"}

\* Without faults the server's file is always a prefix of the client's, and it
\* is complete before the server answers FIN.
ImplementsDelivery == Delivery!Spec
=============================================================================
