---------------------------- MODULE MCRendezvous ----------------------------
(***************************************************************************)
(* Input files for the matrices of Homework 5.                             *)
(***************************************************************************)
EXTENDS Rendezvous

\* Files that are long enough for an 8 x 8 matrix, that end within a row, and
\* that end after the seventh row.
LongOrShort == {56, 60, 64}
=============================================================================
