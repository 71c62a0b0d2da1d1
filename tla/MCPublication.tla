---------------------------- MODULE MCPublication -----------------------------
(* Two exporters that may replace a bundle of two files. *)
EXTENDS Publication

BundlePaths == <<"a", "b">>
===============================================================================
