--------------------------- MODULE MCConfigPoller ---------------------------
(***************************************************************************)
(* ConfigPoller with two signed configurations, one unsigned (which also   *)
(* overrides the fee), and one estimate at a time.  The process starts     *)
(* with a minimum above the default maximum: an estimate throws until a    *)
(* configuration is applied.                                               *)
(***************************************************************************)
EXTENDS ConfigPoller, TLC

CONSTANTS c1, p1, p2

Bounds(base, min, max, cacheMs) ==
  ("base" :> base) @@ ("min" :> min) @@ ("max" :> max) @@ ("cacheMs" :> cacheMs)

DefaultC == Bounds(1, 1, 9, 0) @@ ("override" :> Unset)
EnvironmentC == {("min" :> 10) @@ ("cacheMs" :> 1)}
ContentC == [signed   |-> <<Bounds(2, 1, 3, 1), Bounds(2, 6, 8, 1)>>,
             unsigned |-> <<Bounds(7, 7, 8, 0) @@ ("override" :> 9)>>]
StatsC == {[p75 |-> 0, p70 |-> 4, p80 |-> 5]}
FeeOverrideC == {Unset, 0}
=============================================================================
