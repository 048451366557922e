---------------------------- MODULE MCOperations ----------------------------
(* Small instances of Operations for TLC. *)
EXTENDS Operations, TLC

\* Three images: one lacks a migration that comes late in the second, and the third changes a
\* migration of the two others.
Releases == {2 :> "a", 1 :> "a" @@ 2 :> "a", 1 :> "a" @@ 2 :> "b"}

=============================================================================
