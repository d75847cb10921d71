------------------------- MODULE MCExecutableCache -------------------------
(***************************************************************************)
(* A driver with two loaders, two devices, a cache, one allocator and one  *)
(* provider of the application, and one object of the other kinds.         *)
(***************************************************************************)
EXTENDS ExecutableCache

CONSTANTS l1, l2

MCLoaderSeq == <<l1, l2>>
=============================================================================
