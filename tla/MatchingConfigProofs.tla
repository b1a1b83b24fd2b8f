------------------------ MODULE MatchingConfigProofs ------------------------
(***************************************************************************)
(* Theorems about MatchingConfig for every environment and every positive   *)
(* defaults: what from_env_or_default loads is usable, is the environment   *)
(* if that is proper, and is never half of it.                              *)
(***************************************************************************)
EXTENDS MatchingConfig, TLAPS

\* What is left of the environment once the radius has been repaired: all of it,
\* but for a radius of zero.
Repaired ==
    \A f \in Field :
        \/ config[f] = env[f]
        \/ f = "earth_radius_meters" /\ env[f] = 0 /\ config[f] = Default[f]

\* What each stage can rely on.
ConfigInv ==
    /\ DOMAIN env = Field /\ \A f \in Field : env[f] \in Setting[f]
    /\ stage \in {"parse", "radius", "validate", "failed", "loaded"}
    /\ stage \in {"parse", "radius"} => config = env
    /\ stage \in {"radius", "validate"} => \A f \in Field : env[f] \notin {Unset, Malformed}
    /\ stage = "validate" => Repaired /\ (env.earth_radius_meters # 0 => config = env)
    /\ stage = "failed" => ~Proper(env)
    /\ stage = "loaded" =>
          \/ config = Default /\ ~Proper(env)
          \/ /\ \A f \in Field : env[f] \notin {Unset, Malformed}
             /\ Repaired /\ (env.earth_radius_meters # 0 => config = env)
             /\ Validates(config)

LEMMA ConfigInvInit == ConfigInit => ConfigInv
BY DEF ConfigInit, ConfigInv, Field

\* A proper environment has a number in every variable.
LEMMA ProperIsNumbers ==
    ASSUME Proper(env), NEW f \in Field
    PROVE  env[f] \notin {Unset, Malformed, NaN} /\ env[f] \in Nat
BY ConfigAssumption DEF Proper

\* validate accepts a proper environment (config.rs:180-206).
LEMMA ProperValidates == Proper(env) => Validates(env) /\ ~NotPositive(env.max_distance_meters)
<1> SUFFICES ASSUME Proper(env) PROVE Validates(env) /\ ~NotPositive(env.max_distance_meters)
  OBVIOUS
<1>1. \A f \in Field \ {"temporal_weight", "spatial_weight"} : ~NotPositive(env[f])
  BY DEF Proper, NotPositive
<1>2. \A f \in {"temporal_weight", "spatial_weight"} : ~Negative(env[f])
  BY DEF Proper, Negative, Field
<1> QED BY <1>1, <1>2 DEF Proper, Validates, Field

LEMMA ConfigInvStep == ConfigInv /\ [ConfigNext]_configVars => ConfigInv'
<1> SUFFICES ASSUME ConfigInv, [ConfigNext]_configVars PROVE ConfigInv'
  OBVIOUS
<1> USE DEF ConfigInv, Proceed
<1>1. CASE Parse
  <2>1. CASE \A f \in Field : env[f] \notin {Unset, Malformed}
    BY <1>1, <2>1 DEF Parse
  <2>2. CASE ~\A f \in Field : env[f] \notin {Unset, Malformed}
    <3>1. ~Proper(env)
      BY <2>2, ProperIsNumbers
    <3> QED BY <1>1, <2>2, <3>1 DEF Parse, Proper
  <2> QED BY <2>1, <2>2
<1>2. CASE FixRadius
  <2>1. config = env /\ env' = env /\ \A f \in Field : env[f] \notin {Unset, Malformed}
    BY <1>2 DEF FixRadius
  <2>2. CASE Negative(env.earth_radius_meters)
    <3>1. ~Proper(env)
      BY <2>2 DEF Negative, Proper, Field
    <3> QED BY <1>2, <2>1, <2>2, <3>1 DEF FixRadius, Proper
  <2>3. CASE ~Negative(env.earth_radius_meters)
    <3>1. Repaired'
      <4>1. CASE env.earth_radius_meters = 0
        <5>1. config' = [env EXCEPT !["earth_radius_meters"] = Default["earth_radius_meters"]]
          BY <1>2, <2>1, <4>1 DEF FixRadius
        <5> QED BY <2>1, <4>1, <5>1 DEF Repaired
      <4>2. CASE env.earth_radius_meters # 0
        BY <1>2, <2>1, <4>2 DEF FixRadius, Repaired
      <4> QED BY <4>1, <4>2
    <3>2. stage' = "validate" /\ (env.earth_radius_meters # 0 => config' = env)
      BY <1>2, <2>1, <2>3 DEF FixRadius
    <3> QED BY <2>1, <3>1, <3>2
  <2> QED BY <2>2, <2>3
<1>3. CASE Validate
  <2>1. UNCHANGED <<env, config>> /\ stage = "validate"
    BY <1>3 DEF Validate
  <2>2. CASE ~NotPositive(config.max_distance_meters) /\ Validates(config)
    BY <1>3, <2>1, <2>2 DEF Validate, Repaired, Validates
  <2>3. CASE ~(~NotPositive(config.max_distance_meters) /\ Validates(config))
    <3>1. ~Proper(env)
      BY <2>1, <2>3, ProperValidates DEF Proper, Field
    <3> QED BY <1>3, <2>1, <2>3, <3>1 DEF Validate, Proper
  <2> QED BY <2>2, <2>3
<1>4. CASE FallBack
  BY <1>4 DEF FallBack, Proper
<1>5. CASE UNCHANGED configVars
  BY <1>5 DEF configVars, Repaired, Proper, Validates
<1> QED BY <1>1, <1>2, <1>3, <1>4, <1>5 DEF ConfigNext

LEMMA ConfigInvHolds == ConfigSpec => []ConfigInv
BY ConfigInvInit, ConfigInvStep, PTL DEF ConfigSpec

\* Whatever the environment, the service starts with a window, a capacity and a
\* cleanup interval that are positive (config.rs:75-114, 180-206).
THEOREM AlwaysUsable == ConfigSpec => []StartsUsable
<1>1. ConfigInv => StartsUsable
  <2> SUFFICES ASSUME ConfigInv, stage = "loaded"
               PROVE  /\ \A f \in Field \ Float : config[f] > 0
                      /\ \A f \in {"max_distance_meters", "earth_radius_meters"} :
                            config[f] = NaN \/ config[f] > 0
    BY DEF StartsUsable
  <2>d. \A f \in Field : Default[f] \in Nat /\ Default[f] > 0
    BY ConfigAssumption
  <2>1. CASE config = Default
    BY <2>1, <2>d DEF Field
  <2>2. CASE config # Default
    <3>1. /\ \A f \in Field : env[f] \in Setting[f] /\ env[f] \notin {Unset, Malformed}
          /\ Repaired /\ Validates(config)
      BY <2>2 DEF ConfigInv
    <3>2. ASSUME NEW f \in Field PROVE config[f] \in Int \union {NaN}
      BY <2>d, <3>1, ConfigAssumption DEF Repaired
    <3>3. ASSUME NEW f \in Field \ Float PROVE config[f] \in Int /\ config[f] # NaN
      <4>1. config[f] = env[f] /\ env[f] # NaN
        BY <3>1, ConfigAssumption DEF Repaired, Float
      <4> QED BY <3>2, <4>1
    <3>4. ASSUME NEW f \in Field \ {"temporal_weight", "spatial_weight"}
          PROVE  config[f] = NaN \/ config[f] > 0
      BY <3>1, <3>2 DEF Validates, NotPositive
    <3> QED BY <3>3, <3>4 DEF Field, Float
  <2> QED BY <2>1, <2>2
<1> QED BY <1>1, ConfigInvHolds, PTL

\* A proper environment is taken as it is (config.rs:75-108).
THEOREM ProperIsTaken == ConfigSpec => []ProperIsHonoured
<1>1. ConfigInv => ProperIsHonoured
  BY DEF ConfigInv, ProperIsHonoured, Proper, Field
<1> QED BY <1>1, ConfigInvHolds, PTL

\* No configuration mixes the environment with defaults, but for the radius
\* (config.rs:89-95, 112-114).
THEOREM NeverHalf == ConfigSpec => []AllOrNothing
<1>1. ConfigInv => AllOrNothing
  BY DEF ConfigInv, AllOrNothing, Repaired
<1> QED BY <1>1, ConfigInvHolds, PTL
=============================================================================
