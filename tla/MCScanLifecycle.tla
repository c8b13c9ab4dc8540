-------------------------- MODULE MCScanLifecycle --------------------------
(* The model-checking instance of ScanLifecycle.                           *)
EXTENDS ScanLifecycle, TLC

\* Scan requests are interchangeable, and so are modules: no definition singles one
\* out.  For safety only; the liveness properties follow one request.
Symmetry == Permutations(Jobs) \cup Permutations(Modules)
=============================================================================
