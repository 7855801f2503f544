----------------------------- MODULE MCSupplier -----------------------------
(***************************************************************************)
(* Input files for the supplier.                                           *)
(***************************************************************************)
EXTENDS Supplier, TLC

\* Three consumers of two pairs each; two '2's are left over, and one
\* character is neither.
Mixed == <<"1", "1", "2", "?", "2", "2", "1", "1", "1", "2", "2", "1",
           "2", "2", "2">>
=============================================================================
