--------------------------- MODULE MC_AweLifecycle ---------------------------
(***************************************************************************)
(* A wake engine of two work buffers, so that an open may fail with none,  *)
(* some and all of them allocated, and seven calls: enough to create, fail *)
(* to open, open again, close, close again and destroy.                    *)
(***************************************************************************)
EXTENDS AweLifecycle
=============================================================================
