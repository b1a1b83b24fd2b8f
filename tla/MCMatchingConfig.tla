-------------------------- MODULE MCMatchingConfig --------------------------
(* Values at a boundary and beyond it, and some of the special ones, for each   *)
(* variable; between them the variables take every special value.              *)
EXTENDS MatchingConfig

MCSetting ==
    [max_distance_meters |-> {Unset, NaN, -1, 0, 1},
     max_time_diff_ms    |-> {Unset, Malformed, -1, 0, 1},
     default_ttl_ms      |-> {Unset, 0, 1},
     temporal_weight     |-> {Unset, NaN, -1, 0, 4, 10},
     spatial_weight      |-> {NaN, 0, 6, 10, 11},
     cleanup_interval_ms |-> {Unset, 0, 1},
     earth_radius_meters |-> {Unset, Malformed, NaN, -1, 0, 1},
     max_queue_size      |-> {Malformed, 0, 1}]

\* No default equals a value of the environment but the weights' sum.
MCDefault ==
    [max_distance_meters |-> 250, max_time_diff_ms |-> 1500, default_ttl_ms |-> 500,
     temporal_weight |-> 7, spatial_weight |-> 3, cleanup_interval_ms |-> 1000,
     earth_radius_meters |-> 6371, max_queue_size |-> 1000]
=============================================================================
