---------------------------- MODULE MCModelCache ----------------------------
(* Instances of ModelCache for TLC; the .cfg files give the constants. *)
EXTENDS ModelCache, TLC

(* The order of fetch on POSIX, with and without libcurl. *)
PosixWays == <<"libcurl", "curl", "wget">>

(* All runs are alike. *)
Alike == Permutations(Runs)
=============================================================================
