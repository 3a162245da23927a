----------------------------- MODULE StoreCallers -----------------------------
(***************************************************************************)
(* What the two stores share: who calls them, and the digests that name      *)
(* archives in both.  A digest stands for the byte string it is the SHA-256   *)
(* of; collisions are assumed away, as the code does.                         *)
(***************************************************************************)
CONSTANTS Callers,   \* the goroutines handling publishes
          Digests    \* the digests, and so the archives, in play
=============================================================================
