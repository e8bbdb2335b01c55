------------------------------- MODULE Startup -------------------------------
(***************************************************************************)
(* The start of the exporter: flags are parsed and validated               *)
(* (internal/config), credentials resolved (internal/scaleway/client.go),  *)
(* the enabled sources and their refreshers made and wired, and the HTTP   *)
(* handler built (cmd/scaleway-finops-exporter/main.go, run), each step    *)
(* with checks of its own.  What runs then is the process of Exporter.     *)
(*                                                                         *)
(* Durations are in units of 15 seconds.  A credential is the place it     *)
(* came from.  A path is the sequence of what stands between its slashes,  *)
(* and empty when it does not start with one; each segment is spelled by   *)
(* its text and is, to a pattern of http.ServeMux, a literal, a wildcard   *)
(* ("{x}"), the rest of a path ("{x...}"), the end of one ("{$}") or bad;  *)
(* its name is that of the wildcard or the text with escapes resolved.     *)
(***************************************************************************)
EXTENDS Integers, Sequences, FiniteSetsExt

CONSTANTS
  Starts,   \* the flags, and the environment they are used in
  Uuids,    \* the values uuidPattern matches
  Nil       \* the nil pointer

Names == {"billing", "finops", "footprint"}
Credentials == {"access", "secret", "org"}

(* The numbers that flags are parsed as, and the profiles of the SDK.      *)
SegmentKinds == {"literal", "wildcard", "rest", "end", "bad"}
Typed(start) ==
  /\ start.cfg.telemetryPath \in Seq([kind : SegmentKinds, text : STRING, name : STRING])
  /\ \A s \in Names : {start.cfg.source[s].interval, start.cfg.source[s].timeout,
                        start.cfg.source[s].lookback} \subseteq Int
  /\ {start.cfg.maxSeries, start.cfg.dailyOffsetDays} \subseteq Int
  /\ start.world.file \in {"present", "missing", "broken"}
  /\ DOMAIN start.world.env = Credentials
  /\ \A p \in DOMAIN start.world.profiles : DOMAIN start.world.profiles[p] = Credentials

ASSUME StartupAssumption ==
  /\ \A start \in Starts : Typed(start)
  /\ Nil \notin {"", "flag", "secret file"}

VARIABLES
  cfg,          \* the values of the flags
  world,        \* the environment, the configuration file, the secret file
  step,         \* how far run has come
  failed,       \* the problems it ended with
  client,       \* the credentials of the SDK client
  lookback,     \* of the periods collector
  registered,   \* the collectors of the registry
  runners,      \* the options of the refreshers to run
  readyFuncs    \* the sources the readiness check asks

wiring == <<registered, runners, readyFuncs>>
startVars == <<cfg, world, step, failed, client, lookback, wiring>>

Steps == <<"parse", "metrics", "client", "periods", "billing", "finops", "footprint",
           "handler", "running">>

At(s) == Steps[step] = s /\ failed = {}
Proceed == step' = step + 1 /\ UNCHANGED <<cfg, world, failed>>
Fail(problems) == failed' = problems /\ UNCHANGED <<cfg, world, step>>
Check(problem, holds) == IF holds THEN {} ELSE {problem}

NoProfile == [access |-> Nil, secret |-> Nil, org |-> Nil]

StartInit ==
  /\ \E start \in Starts : cfg = start.cfg /\ world = start.world
  /\ step = 1 /\ failed = {}
  /\ client = NoProfile
  /\ lookback = 0
  /\ registered = {} /\ runners = <<>> /\ readyFuncs = <<>>

(***************************************************************************)
(* Flags.                                                                  *)
(***************************************************************************)

Minute == 4
MaxLookbackPeriods == 12

(* Faulty: any positive interval will do. *)
SourceProblemsAnyInterval(c, s) ==
  LET src == c.source[s]
  IN  IF ~ src.enabled THEN {}
      ELSE Check("interval", src.interval > 0)
           \cup Check("timeout", src.timeout > 0 /\ src.timeout <= src.interval)

SourceProblems(c, s) ==
  LET src == c.source[s]
  IN  IF ~ src.enabled THEN {}
      ELSE Check("interval", src.interval >= Minute)
           \cup Check("timeout", src.timeout > 0 /\ src.timeout <= src.interval)

(* Validate compares the path as it is spelled with the built-in ones. *)
ValidPath(path) ==
  path # <<>> /\ ~ (Len(path) = 1 /\ path[1].text \in {"", "healthz", "readyz"})

(* Every problem Validate finds.  The lookback of a source is checked also *)
(* when it is disabled.                                                    *)
Problems(c) ==
  Check("organization-id", c.organizationID \in Uuids \cup {""})
  \cup Check("project-id", c.projectIDs \subseteq Uuids)
  \cup Check("http-timeout", c.httpTimeout > 0)
  \cup Check("enabled", \E s \in Names : c.source[s].enabled)
  \cup (UNION {SourceProblems(c, s) : s \in Names})
  \cup Check("lookback-periods", \A s \in Names : c.source[s].lookback \in 0 .. MaxLookbackPeriods)
  \cup Check("max-series", c.maxSeries >= 1)
  \cup Check("daily-offset-days", c.dailyOffsetDays \in 1 .. 31)
  \cup Check("telemetry-path", ValidPath(c.telemetryPath))
  \cup Check("shutdown-timeout", c.shutdownTimeout > 0)

(* The process ends here if help was asked for or the flags are malformed. *)
ParseFlags ==
  /\ At("parse")
  /\ IF world.flags # "parsed" THEN Fail({world.flags})
     ELSE IF Problems(cfg) # {} THEN Fail(Problems(cfg))
     ELSE Proceed
  /\ UNCHANGED <<client, lookback, wiring>>

RegisterMetrics ==
  /\ At("metrics")
  /\ Proceed
  /\ registered' = {"go", "process", "version", "refreshers"}
  /\ UNCHANGED <<client, lookback, runners, readyFuncs>>

(***************************************************************************)
(* Credentials.                                                            *)
(***************************************************************************)

(* Faulty: the file wins over the environment. *)
MergeFileFirst(file, env) ==
  [f \in DOMAIN file |-> IF file[f] = Nil THEN env[f] ELSE file[f]]

Merge(file, env) ==
  [f \in DOMAIN file |-> IF env[f] = Nil THEN file[f] ELSE env[f]]

(* The configuration file may be missing, unless it is asked for a profile *)
(* by name, but not broken.                                                *)
ProfileName == IF cfg.profile = "" THEN world.active ELSE cfg.profile
ProfileProblem ==
  \/ world.file = "broken"
  \/ world.file = "missing" /\ cfg.profile # ""
  \/ world.file = "present" /\ ProfileName \notin DOMAIN world.profiles

LoadProfile ==
  Merge(IF world.file = "missing" THEN NoProfile ELSE world.profiles[ProfileName], world.env)

(* The flags override what the file and the environment say. *)
Override(profile) ==
  [profile EXCEPT
     !.secret = IF cfg.secretKeyFile = "" THEN @ ELSE "secret file",
     !.org = IF cfg.organizationID = "" THEN @ ELSE "flag"]

MakeClient ==
  /\ At("client")
  /\ IF ProfileProblem THEN Fail({"profile"}) /\ UNCHANGED client
     ELSE IF cfg.secretKeyFile # "" /\ world.secretFile # "filled"
          THEN Fail({"secret file"}) /\ UNCHANGED client
     ELSE LET resolved == Override(LoadProfile)
          IN  IF \E f \in DOMAIN resolved : resolved[f] \in {Nil, ""}
              THEN Fail({"credentials"}) /\ UNCHANGED client
              ELSE \/ Proceed /\ client' = resolved
                   \/ Fail({"SDK"}) /\ UNCHANGED client   \* the SDK validates their form
  /\ UNCHANGED <<lookback, wiring>>

(***************************************************************************)
(* Wiring.                                                                 *)
(***************************************************************************)

RegisterPeriods ==
  /\ At("periods")
  /\ Proceed
  /\ lookback' = Max({cfg.source[s].lookback : s \in Names})
  /\ registered' = registered \cup {"periods"}
  /\ UNCHANGED <<client, runners, readyFuncs>>

(* billing.New, finops.New, footprint.New *)
SourceAccepts(s) ==
  /\ client.org # ""
  /\ s = "finops" => cfg.maxSeries >= 1
  /\ s = "footprint" => cfg.dailyOffsetDays >= 1

(* The options addSource gives to refresher.New, its defaults applied. *)
DefaultMinBackoff == 2
Options(s) ==
  [name |-> s, interval |-> cfg.source[s].interval, timeout |-> cfg.source[s].timeout,
   minBackoff |-> DefaultMinBackoff, maxBackoff |-> cfg.source[s].interval]

RefresherAccepts(o) == o.interval > 0 /\ o.timeout > 0 /\ o.minBackoff <= o.maxBackoff

(* The collectors of a source; no two of the process have the same name. *)
Collectors(s) == {s} \cup (IF s = "finops" THEN {"series limit"} ELSE {})

SetupSource(s) ==
  /\ At(s)
  /\ IF ~ cfg.source[s].enabled THEN Proceed /\ UNCHANGED wiring
     ELSE IF ~ SourceAccepts(s) \/ ~ RefresherAccepts(Options(s))
          THEN /\ Fail({"options"})
               /\ registered' = registered \cup (Collectors(s) \ {s})
               /\ UNCHANGED <<runners, readyFuncs>>
     ELSE /\ Proceed
          /\ runners' = Append(runners, Options(s))
          /\ readyFuncs' = Append(readyFuncs, s)
          /\ registered' = registered \cup Collectors(s)
  /\ UNCHANGED <<client, lookback>>

(* What http.ServeMux panics on: a path that is not clean, segments that   *)
(* do not parse, and a pattern for the one path another is for.            *)
Unclean(path) ==
  \E i \in DOMAIN path : path[i].text \in {".", ".."} \/ (path[i].text = "" /\ i < Len(path))
Unparsable(path) ==
  \/ \E i \in DOMAIN path : path[i].kind = "bad"
  \/ \E i \in DOMAIN path : path[i].kind \in {"rest", "end"} /\ i < Len(path)
  \/ \E i, j \in DOMAIN path :
       /\ i # j /\ {path[i].kind, path[j].kind} \subseteq {"wildcard", "rest"}
       /\ path[i].name = path[j].name
BuiltIn(path) ==
  /\ Len(path) = 1
  /\ \/ path[1].kind = "end"
     \/ path[1].kind = "literal" /\ path[1].name \in {"healthz", "readyz"}
MuxPanics(path) == Unclean(path) \/ Unparsable(path) \/ BuiltIn(path)

BuildHandler ==
  /\ At("handler")
  /\ IF MuxPanics(cfg.telemetryPath) THEN Fail({"pattern"}) ELSE Proceed
  /\ UNCHANGED <<client, lookback, wiring>>

StartNext ==
  \/ ParseFlags \/ RegisterMetrics \/ MakeClient \/ RegisterPeriods \/ BuildHandler
  \/ \E s \in Names : SetupSource(s)

StartSpec == StartInit /\ [][StartNext]_startVars

-----------------------------------------------------------------------------
(***************************************************************************)
(* Safety.                                                                 *)
(***************************************************************************)

(* A path of literals only, without escapes. *)
Plain(path) ==
  \A i \in DOMAIN path :
    /\ path[i].kind = "literal" /\ path[i].name = path[i].text
    /\ path[i].text \notin {".", ".."} /\ (path[i].text = "" => i = Len(path))

(* What Validate accepts and the credentials complete no later step        *)
(* refuses: the checks of config, of the sources and of the refresher with *)
(* its default backoff agree, and so do those of config and of ServeMux    *)
(* for every plain telemetry path.                                         *)
ValidatedNeverRejected ==
  failed # {} =>
    \/ Steps[step] \in {"parse", "client"}
    \/ Steps[step] = "handler" /\ ~ Plain(cfg.telemetryPath)

(* "The configuration is validated at startup and every problem is         *)
(* reported at once" (README): no later step finds one in the flags.  It   *)
(* is not so: ServeMux panics on telemetry paths that Validate accepts.    *)
EveryProblemReported == failed \cap {"options", "pattern"} = {}

(* The sources whose refreshers run, are asked for readiness and are       *)
(* collected are those enabled, in order.                                  *)
Wanted(s) == IF cfg.source[s].enabled THEN <<s>> ELSE <<>>
EnabledNames == Wanted("billing") \o Wanted("finops") \o Wanted("footprint")
RunsTheEnabled ==
  /\ readyFuncs = EnabledNames /\ EnabledNames # <<>>
  /\ [i \in DOMAIN runners |-> runners[i].name] = EnabledNames
  /\ registered \cap Names = {EnabledNames[i] : i \in DOMAIN EnabledNames}

(* Their delays are what the refreshers rely on, and the periods collector *)
(* names each of their periods.                                            *)
DelaysInOrder ==
  \A i \in DOMAIN runners :
    /\ runners[i].timeout \in 1 .. runners[i].interval
    /\ runners[i].minBackoff \in 1 .. runners[i].maxBackoff
    /\ runners[i].maxBackoff = runners[i].interval
    /\ cfg.source[runners[i].name].lookback <= lookback

(* Every credential is that of the most specific place that has one.       *)
MostSpecific(places) == places[CHOOSE i \in DOMAIN places :
                          /\ places[i] # Nil
                          /\ \A j \in 1 .. i - 1 : places[j] = Nil]
InFile(f) == IF world.file = "missing" THEN Nil ELSE world.profiles[ProfileName][f]
AccessOf == <<world.env.access, InFile("access")>>
SecretOf ==
  <<IF cfg.secretKeyFile = "" THEN Nil ELSE "secret file", world.env.secret, InFile("secret")>>
OrgOf == <<IF cfg.organizationID = "" THEN Nil ELSE "flag", world.env.org, InFile("org")>>
CredentialsResolved ==
  /\ client.access = MostSpecific(AccessOf)
  /\ client.secret = MostSpecific(SecretOf)
  /\ client.org = MostSpecific(OrgOf)

(* A process that runs is the one that was asked for. *)
RunsAsConfigured ==
  At("running") => RunsTheEnabled /\ DelaysInOrder /\ CredentialsResolved
=============================================================================
