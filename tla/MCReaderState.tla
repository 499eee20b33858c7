--------------------------- MODULE MCReaderState ---------------------------
(***************************************************************************)
(* ReaderState for TLC.  Two entries: one for a mutation, one whose marker *)
(* or temporary file meets the publication of the other's.                 *)
(***************************************************************************)
EXTENDS ReaderState, TLC

\* Entries are only compared with each other.
EntrySymmetry == Permutations(Entries)
=============================================================================
