----------------------------- MODULE MCFecLink -----------------------------
(* FecLink with groups of one packet and moving parity, groups of two with *)
(* fixed parity, packets of one length and of two, a scheme that is        *)
(* switched off, an invalid setting that falls back to the defaults, and   *)
(* more initial than maximal parity. *)
EXTENDS FecLink, ReedSolomon

Shape(active, k, min_m, max_m, initial_m, data, lens, samples) ==
  [active |-> active, k |-> k, min_m |-> min_m, max_m |-> max_m,
   initial_m |-> initial_m, data |-> data, lens |-> lens,
   samples |-> samples]

Groups ==
  {Shape(TRUE, 1, 0, 2, 2, 3, {2}, 2), Shape(TRUE, 2, 2, 2, 2, 4, {2}, 0),
   Shape(TRUE, 2, 2, 2, 2, 3, {1, 2}, 0), Shape(FALSE, 2, 1, 2, 1, 2, {1, 2}, 1),
   Shape(TRUE, 0, 0, 2, 2, 1, {2}, 2), Shape(TRUE, 1, 0, 1, 2, 2, {1, 2}, 1)}

(* Groups of two whose parity may grow. *)
Growing == {Shape(TRUE, 2, 1, 3, 1, 4, {2}, 3)}
=============================================================================
