----------------------------- MODULE MCProcessor ------------------------------
(* The sender alone, with a peer that may acknowledge anything transmitted.  *)
EXTENDS ByteBufferAsyncProcessor
===============================================================================
