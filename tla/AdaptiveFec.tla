---------------------------- MODULE AdaptiveFec ----------------------------
(***************************************************************************)
(* The controller of fec/adaptive.rs, which turns samples of the loss      *)
(* ratio into the number of parities per group, and how configure_fec      *)
(* builds it.  Ratios are in thousandths, rounded down.                    *)
(***************************************************************************)
EXTENDS Integers, Sequences, FiniteSets, FiniteSetsExt

(* default_for_vpn *)
DefaultForVpn ==
  [k |-> 1, min_m |-> 0, max_m |-> 4, current_m |-> 2, smoothed_loss |-> 0,
   up |-> <<50, 120, 220, 350>>, down |-> <<30, 72, 132, 210>>]

(* with_params: thresholds spread over the bands. *)
WithParams(k, min_m, max_m, initial_m) ==
  LET n_bands == Max({max_m, 1})
      up(i)   == IF n_bands = 1 THEN 30 ELSE 30 + (860 * (i - 1)) \div (n_bands - 1)
  IN  [k |-> k, min_m |-> min_m, max_m |-> max_m, current_m |-> initial_m,
       smoothed_loss |-> 0,
       up |-> [i \in 1 .. n_bands |-> up(i)],
       down |-> [i \in 1 .. n_bands |-> (7 * up(i)) \div 10]]

(* The first loop of observe: the highest band crossed, whether it is more *)
(* parity than now or less. *)
Crossed(f, s) ==
  LET over == {i \in DOMAIN f.up : s > f.up[i]}
  IN  IF over = {} THEN f.current_m ELSE Min({Max(over), f.max_m})

(* The second loop: down to the lowest band whose lower threshold is not   *)
(* reached. *)
Lowered(f, s, m) ==
  LET under == {i \in DOMAIN f.down : i < m /\ s < f.down[i]}
  IN  IF under = {} THEN m ELSE Max({Min(under), f.min_m})

Clamped(f, m) == Max({f.min_m, Min({m, f.max_m})})

(* observe, with the ema_alpha of 0.25 that every caller passes. *)
Observe(f, loss) ==
  LET s == (3 * f.smoothed_loss + loss) \div 4
      m == Lowered(f, s, Crossed(f, s))
  IN  [f EXCEPT !.smoothed_loss = s,
                !.current_m = Clamped(f, IF s < f.down[1] THEN f.min_m ELSE m)]

(* params: k gives way when k + m would pass 255. *)
Params(f) == [k |-> Min({f.k, 255 - f.current_m}), m |-> f.current_m]

(* Tunnel::configure_fec: an inactive scheme has no parity, and parameters *)
(* that leave no source fall back to the defaults.  Nothing orders min_m,  *)
(* initial_m and max_m. *)
ConfigureFec(c) ==
  LET asked == WithParams(c.k, c.min_m, c.max_m, c.initial_m)
  IN  IF ~c.active THEN WithParams(c.k, 0, 0, 0)
      ELSE IF Params(asked).k = 0 THEN DefaultForVpn
      ELSE asked
=============================================================================
