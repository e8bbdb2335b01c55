------------------------------ MODULE MCStartup ------------------------------
(***************************************************************************)
(* Instances of Startup for TLC: any sources enabled, with any values of   *)
(* one source's flags or one other flag out of the ordinary, and, with all *)
(* sources enabled, any telemetry path of up to two segments; and any      *)
(* place for each credential.                                              *)
(***************************************************************************)
EXTENDS Startup

Literal(text) == [kind |-> "literal", text |-> text, name |-> text]

Source(e, i, t, l) == [enabled |-> e, interval |-> i, timeout |-> t, lookback |-> l]

Default ==
  [organizationID |-> "", projectIDs |-> {}, httpTimeout |-> Minute,
   profile |-> "", secretKeyFile |-> "",
   source |-> [s \in Names |-> Source(TRUE, 60 * Minute, 2 * Minute, IF s = "finops" THEN 0 ELSE 1)],
   maxSeries |-> 2000, dailyOffsetDays |-> 1,
   telemetryPath |-> <<Literal("metrics")>>, shutdownTimeout |-> 1]

Delays == {<<0, 0>>, <<1, 1>>, <<2, 2>>, <<3, 3>>, <<4, 0>>, <<4, 4>>, <<4, 5>>, <<4, 1>>}

Enabled(on, c) == [c EXCEPT !.source = [s \in Names |-> [@[s] EXCEPT !.enabled = s \in on]]]

OneSource ==
  {Enabled(on, [Default EXCEPT !.source[s] = Source(TRUE, d[1], d[2], l)]) :
     on \in SUBSET Names, s \in Names, d \in Delays, l \in {-1, 0, 1, 12, 13}}

OneOther(c) ==
  {c} \cup {[c EXCEPT !.organizationID = v] : v \in {"uuid", "name"}}
      \cup {[c EXCEPT !.projectIDs = v] : v \in {{"uuid"}, {"uuid", "name"}}}
      \cup {[c EXCEPT !.httpTimeout = 0], [c EXCEPT !.shutdownTimeout = 0]}
      \cup {[c EXCEPT !.maxSeries = v] : v \in {0, 1}}
      \cup {[c EXCEPT !.dailyOffsetDays = v] : v \in {0, 31, 32}}

Segments ==
  {Literal(t) : t \in {"", ".", "metrics", "healthz", "readyz"}}
  \cup {[kind |-> "literal", text |-> "%68ealthz", name |-> "healthz"],
        [kind |-> "wildcard", text |-> "{a}", name |-> "a"],
        [kind |-> "rest", text |-> "{a...}", name |-> "a"],
        [kind |-> "end", text |-> "{$}", name |-> ""],
        [kind |-> "bad", text |-> "{", name |-> ""]}

Paths == {[Default EXCEPT !.telemetryPath = path] :
            path \in UNION {[1 .. n -> Segments] : n \in 0 .. 2}}

Places(place) == [access : {Nil, place}, secret : {Nil, place}, org : {Nil, place}]

World ==
  [flags |-> "parsed", file |-> "missing", active |-> "default", profiles |-> <<>>,
   env |-> [access |-> "env", secret |-> "env", org |-> "env"], secretFile |-> "filled"]

Profiles ==
  {[p \in {"default", "other"} |-> IF p = "default" THEN d ELSE o] :
     d \in Places("default"), o \in {[access |-> "other", secret |-> "", org |-> "other"],
                                     [access |-> "other", secret |-> "other", org |-> Nil]}}

Worlds ==
  [flags : {"parsed"}, file : {"present"}, active : {"default", "gone"},
   profiles : Profiles, env : Places("env"), secretFile : {"filled"}]
  \cup {[World EXCEPT !.flags = f] : f \in {"help", "malformed"}}
  \cup {[World EXCEPT !.file = f, !.secretFile = b] :
          f \in {"missing", "broken"}, b \in {"filled", "blank", "unreadable"}}

Overrides ==
  {[Default EXCEPT !.profile = p, !.secretKeyFile = k, !.organizationID = o] :
     p \in {"", "other", "gone"}, k \in {"", "key"}, o \in {"", "uuid"}}

MCStarts == [cfg : OneSource \cup Paths
                     \cup UNION {OneOther(Enabled(on, Default)) : on \in SUBSET Names},
             world : {World}]
            \cup [cfg : Overrides, world : Worlds]
=============================================================================
