--------------------------- MODULE MatchingConfig ---------------------------
(***************************************************************************)
(* How the server gets its configuration (src/src/config.rs): from_env      *)
(* reads eight variables of the environment, repairs one, checks the rest,  *)
(* and any failure on the way makes from_env_or_default take the defaults   *)
(* for all of them, without a word.  One action per stage.                  *)
(*                                                                          *)
(* Numbers are small integers, weights are in tenths.  The four f64 can     *)
(* also be NaN, of which every comparison is false.                         *)
(***************************************************************************)
EXTENDS Integers

CONSTANTS
    Unset,      \* the variable is not in the environment
    Malformed,  \* its text is not a number of its type
    NaN,
    Setting,    \* for each variable, what the environment may hold
    Default     \* impl Default for MatchingConfig, whose numbers are positive

Field == {"max_distance_meters", "max_time_diff_ms", "default_ttl_ms",
          "temporal_weight", "spatial_weight", "cleanup_interval_ms",
          "earth_radius_meters", "max_queue_size"}

\* The fields that are f64.
Float == {"max_distance_meters", "temporal_weight", "spatial_weight", "earth_radius_meters"}

ASSUME ConfigAssumption ==
    /\ \A f \in Field : Setting[f] \subseteq Int \union {Unset, Malformed, NaN}
    /\ \A f \in Field \ Float : NaN \notin Setting[f]
    /\ Default \in [Field -> Nat \ {0}]
    /\ {Unset, Malformed, NaN} \intersect Int = {}

VARIABLES
    env,        \* the BUMP_ variables
    config,     \* the configuration so far
    stage       \* the next stage, or "failed" or "loaded"

configVars == <<env, config, stage>>

\* IEEE comparisons.
Negative(x) == x # NaN /\ x < 0
NotPositive(x) == x # NaN /\ x <= 0

ConfigInit ==
    /\ env \in [max_distance_meters : Setting["max_distance_meters"],
                max_time_diff_ms    : Setting["max_time_diff_ms"],
                default_ttl_ms      : Setting["default_ttl_ms"],
                temporal_weight     : Setting["temporal_weight"],
                spatial_weight      : Setting["spatial_weight"],
                cleanup_interval_ms : Setting["cleanup_interval_ms"],
                earth_radius_meters : Setting["earth_radius_meters"],
                max_queue_size      : Setting["max_queue_size"]]
    /\ config = env
    /\ stage = "parse"

Proceed(ok, next) == stage' = IF ok THEN next ELSE "failed"

\* envy::from_iter: no field of the struct has a default.
Parse ==
    /\ stage = "parse"
    /\ Proceed(\A f \in Field : env[f] \notin {Unset, Malformed}, "radius")
    /\ UNCHANGED <<env, config>>

\* An earth radius of exactly zero is replaced.
FixRadius ==
    /\ stage = "radius"
    /\ Proceed(~Negative(config.earth_radius_meters), "validate")
    /\ config' = IF config.earth_radius_meters = 0
                 THEN [config EXCEPT !.earth_radius_meters = Default.earth_radius_meters]
                 ELSE config
    /\ UNCHANGED env

\* Variants of validate: the interval is not tested; weights must be positive.
ValidatesAnyInterval(c) ==
    /\ \A f \in {"max_distance_meters", "max_time_diff_ms", "default_ttl_ms",
                 "max_queue_size", "earth_radius_meters"} : ~NotPositive(c[f])
    /\ \A f \in {"temporal_weight", "spatial_weight"} : ~Negative(c[f])
    /\ NaN \notin {c.temporal_weight, c.spatial_weight} => c.temporal_weight + c.spatial_weight = 10

ValidatesPositiveWeights(c) ==
    /\ \A f \in Field : ~NotPositive(c[f])
    /\ NaN \notin {c.temporal_weight, c.spatial_weight} => c.temporal_weight + c.spatial_weight = 10

\* What validate accepts (the distance is tested once more before it).
Validates(c) ==
    /\ \A f \in Field \ {"temporal_weight", "spatial_weight"} : ~NotPositive(c[f])
    /\ \A f \in {"temporal_weight", "spatial_weight"} : ~Negative(c[f])
    /\ NaN \notin {c.temporal_weight, c.spatial_weight} => c.temporal_weight + c.spatial_weight = 10

Validate ==
    /\ stage = "validate"
    /\ Proceed(~NotPositive(config.max_distance_meters) /\ Validates(config), "loaded")
    /\ UNCHANGED <<env, config>>

\* Variant: only what is missing is replaced.
FallBackFieldwise ==
    /\ stage = "failed"
    /\ config' = [f \in Field |-> IF env[f] \in {Unset, Malformed} THEN Default[f] ELSE env[f]]
    /\ stage' = "loaded"
    /\ UNCHANGED env

\* unwrap_or_default: the error is dropped with everything that was read.
FallBack ==
    /\ stage = "failed"
    /\ config' = Default
    /\ stage' = "loaded"
    /\ UNCHANGED env

ConfigNext == Parse \/ FixRadius \/ Validate \/ FallBack

ConfigSpec == ConfigInit /\ [][ConfigNext]_configVars

-----------------------------------------------------------------------------
(* Properties *)

\* Every variable is there, every number positive (weights not negative), and
\* the weights sum to one.
Proper(e) ==
    /\ \A f \in Field : e[f] \in Nat
    /\ \A f \in Field \ {"temporal_weight", "spatial_weight"} : e[f] > 0
    /\ e.temporal_weight + e.spatial_weight = 10

\* Whatever the environment, the service starts with a window, a capacity and a
\* cleanup interval that are positive (an interval of zero would panic the
\* cleanup task), and with a radius that is positive or NaN, with which no two
\* places are near (config.rs:180-206, service.rs:97).
StartsUsable ==
    stage = "loaded" =>
        /\ \A f \in Field \ Float : config[f] > 0
        /\ \A f \in {"max_distance_meters", "earth_radius_meters"} :
              config[f] = NaN \/ config[f] > 0

\* A proper environment is taken as it is (config.rs:75-108).
ProperIsHonoured == stage = "loaded" /\ Proper(env) => config = env

\* No configuration mixes the environment with defaults, but for a radius of
\* zero: one variable that is unset, malformed or refused loses all the others
\* (config.rs:112-114).
AllOrNothing ==
    stage = "loaded" =>
        \/ config = Default
        \/ \A f \in Field :
              \/ config[f] = env[f]
              \/ f = "earth_radius_meters" /\ env[f] = 0 /\ config[f] = Default[f]

-----------------------------------------------------------------------------
(* A statement of the code's comments that it does not meet *)

\* "Set earth_radius_meters to default if not provided" (config.rs:92): an
\* environment that is proper but for the radius, which it does not have, is
\* taken with the default radius.
RadiusMayBeLeftOut ==
    LET filled == [env EXCEPT !.earth_radius_meters = Default.earth_radius_meters]
    IN  stage = "loaded" /\ env.earth_radius_meters = Unset /\ Proper(filled)
            => config = filled
=============================================================================
