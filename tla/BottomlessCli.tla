---------------------------- MODULE BottomlessCli ----------------------------
(***************************************************************************)
(* The object-store backup tool (bottomless-cli/src/main.rs): run() and   *)
(* main().  The tool parses its command line, exports the endpoint,       *)
(* bucket and namespace to LIBSQL_BOTTOMLESS_* environment variables (or  *)
(* reads back the ones already set), finds the database name (-d, or      *)
(* detect_db in the bucket), builds the database path                    *)
(* <db>/dbs/<namespace without ns->/data, opens a Replicator on it and     *)
(* runs one subcommand.  main() exits with 1 when run() returns an error. *)
(*                                                                         *)
(* The Replicator and detect_db live in replicator_extras.rs, which is    *)
(* not in this tree: they are modelled from the spec.  The Replicator     *)
(* finds its endpoint, bucket and database id in the LIBSQL_BOTTOMLESS_*  *)
(* variables, with the bucket "bottomless" when none is set; every call   *)
(* to it or to the file system may fail.  Strings are sequences of       *)
(* tokens, so that strip_prefix and the path concatenation are what they  *)
(* do; the dates, limits and uuids of the subcommands are only present or *)
(* absent, which is all the control flow looks at.                        *)
(***************************************************************************)
EXTENDS Naturals, Sequences

None == "none"     \* Option::None of a name, and an unset environment variable
NoPath == <<>>     \* Option::None of a database or a namespace

(* The subcommands and the options of each that the code looks at.      *)
(* "filter" stands for --limit, --older-than and --newer-than of ls.    *)
SubOptions == [ls |-> {"generation", "filter"},
               restore |-> {"generation", "utc_time"},
               rm |-> {"generation", "older_than"}]

(* Command lines: a subcommand and its options, and the global options. *)
Args ==
  [cmd : {"ls", "restore", "rm"}, sub : SUBSET {"generation", "filter", "utc_time", "older_than"},
   endpoint : {None, "e1"}, bucket : {None, "b1"}, database : {NoPath, <<"d1">>},
   namespace : {NoPath, <<"ns-", "a">>, <<"a">>}]

CommandLines == {a \in Args : a.sub \subseteq SubOptions[a.cmd]}

(* What the shell may already have exported. *)
Environments == [endpoint : {None, "e0"}, bucket : {None, "b0"}, database_id : {NoPath}]

VARIABLES
  args,      \* the command line
  env,       \* the process's LIBSQL_BOTTOMLESS_* variables
  options,   \* options.endpoint and options.bucket after run() updates them
  database,  \* the database name, then its path
  step,      \* where run() is
  status,    \* "running", or how the process ended: "ok", "err", "usage", "panic"
  detected,  \* ghost: where detect_db looked, or NoTarget
  opened,    \* ghost: what the Replicator opened, or NoTarget
  called     \* ghost: the Replicator operation run, or None

bottomlessVars == <<args, env, options, database, step, status, detected, opened, called>>

(* An object-store location: endpoint, bucket and database id. *)
Target(endpoint, bucket, id) == [endpoint |-> endpoint, bucket |-> bucket, id |-> id]

NoTarget == Target(None, None, NoPath)

BucketOrDefault(b) == IF b = None THEN "bottomless" ELSE b

(* options.namespace.as_deref().unwrap_or("ns-default") *)
Namespace == IF args.namespace = NoPath THEN <<"ns-", "default">> ELSE args.namespace

(* Replicator::new reads its location from the environment. *)
ReplicatorTarget(e) == Target(e.endpoint, BucketOrDefault(e.bucket), e.database_id)

(* Every ? in run() ends it with Err, and main() exits with 1. *)
Returns(how) ==
  /\ status' = how
  /\ step' = "done"

-----------------------------------------------------------------------------
BottomlessInit ==
  /\ args \in CommandLines
  /\ env \in Environments
  /\ options = [endpoint |-> None, bucket |-> None]
  /\ database = NoPath
  /\ step = "parse"
  /\ status = "running"
  /\ detected = NoTarget
  /\ opened = NoTarget
  /\ called = None

(* Mutant: rm's --older-than without its conflicts_with = "generation". *)
ArgsOkNoRmConflict(a) ==
  ("generation" \in a.sub /\ a.cmd # "rm") => a.sub = {"generation"}

(* The conflicts_with of the subcommands: --generation excludes the     *)
(* other options of each one.                                            *)
ArgsOk(a) == "generation" \in a.sub => a.sub = {"generation"}

(* Cli::parse() exits with a usage error when clap rejects the line. *)
ParseArgs ==
  /\ step = "parse"
  /\ IF ArgsOk(args) THEN step' = "env" /\ UNCHANGED status
                     ELSE Returns("usage")
  /\ UNCHANGED <<args, env, options, database, detected, opened, called>>

(* Mutant: -b is kept in options but not exported to the environment. *)
ExportEnvNoBucket ==
  /\ step = "env"
  /\ LET ep == IF args.endpoint # None THEN args.endpoint ELSE env.endpoint
         bk == IF args.bucket # None THEN args.bucket ELSE env.bucket
     IN /\ env' = [endpoint |-> ep, bucket |-> env.bucket, database_id |-> Namespace]
        /\ options' = [endpoint |-> ep, bucket |-> bk]
  /\ step' = "database"
  /\ UNCHANGED <<args, database, status, detected, opened, called>>

(* A given -e or -b is exported; a missing one is read from the         *)
(* environment into options; the namespace is always exported.         *)
ExportEnv ==
  /\ step = "env"
  /\ LET ep == IF args.endpoint # None THEN args.endpoint ELSE env.endpoint
         bk == IF args.bucket # None THEN args.bucket ELSE env.bucket
     IN /\ env' = [endpoint |-> ep, bucket |-> bk, database_id |-> Namespace]
        /\ options' = [endpoint |-> ep, bucket |-> bk]
  /\ step' = "database"
  /\ UNCHANGED <<args, database, status, detected, opened, called>>

(* -d names the database; without it an S3 client on options.endpoint  *)
(* asks detect_db for the database of the namespace in options.bucket   *)
(* (or "bottomless").  When none is found run() prints a hint and       *)
(* returns Ok.                                                           *)
ResolveDatabase ==
  /\ step = "database"
  /\ IF args.database # NoPath
       THEN /\ database' = args.database
            /\ step' = "path"
            /\ UNCHANGED <<status, detected>>
       ELSE /\ detected' = Target(options.endpoint, BucketOrDefault(options.bucket), Namespace)
            /\ \E found \in {NoPath, <<"d2">>} :
                 IF found = NoPath THEN Returns("ok") /\ UNCHANGED database
                 ELSE database' = found /\ step' = "path" /\ UNCHANGED status
  /\ UNCHANGED <<args, env, options, opened, called>>

(* database + "/dbs/" + namespace.strip_prefix("ns-").unwrap() + "/data": *)
(* a namespace without the prefix panics.                                *)
BuildPath ==
  /\ step = "path"
  /\ IF Head(Namespace) = "ns-"
       THEN /\ database' = database \o <<"/dbs/">> \o Tail(Namespace) \o <<"/data">>
            /\ step' = "replicator"
            /\ UNCHANGED status
       ELSE Returns("panic") /\ UNCHANGED database
  /\ UNCHANGED <<args, env, options, detected, opened, called>>

(* Replicator::new(database)? *)
NewReplicator ==
  /\ step = "replicator"
  /\ \/ /\ opened' = ReplicatorTarget(env)
        /\ step' = "command"
        /\ UNCHANGED status
     \/ Returns("err") /\ UNCHANGED opened
  /\ UNCHANGED <<args, env, options, database, detected, called>>

(* The Replicator operation a subcommand runs, or None when rm has      *)
(* nothing to remove; rm with both options is the unreachable!() arm.   *)
Operation(a) ==
  CASE a.cmd = "ls" -> IF "generation" \in a.sub THEN "list_generation" ELSE "list_generations"
    [] a.cmd = "restore" -> "restore"
    [] a.cmd = "rm" /\ a.sub = {"older_than"} -> "remove_many"
    [] a.cmd = "rm" /\ a.sub = {"generation"} -> "remove"
    [] a.cmd = "rm" /\ a.sub = {"generation", "older_than"} -> "unreachable"
    [] OTHER -> None

(* The match on options.command.  restore first creates the database's  *)
(* directory (create_dir_all)?; each awaited call may fail with ?.      *)
RunCommand ==
  /\ step = "command"
  /\ LET op == Operation(args) IN
       CASE op = "unreachable" -> Returns("panic") /\ UNCHANGED called
         [] op = None -> Returns("ok") /\ UNCHANGED called
         [] op = "restore" ->
              \/ Returns("err") /\ UNCHANGED called          \* create_dir_all
              \/ /\ called' = op
                 /\ \E ok \in BOOLEAN : Returns(IF ok THEN "ok" ELSE "err")
         [] OTHER ->
              /\ called' = op
              /\ \E ok \in BOOLEAN : Returns(IF ok THEN "ok" ELSE "err")
  /\ UNCHANGED <<args, env, options, database, detected, opened>>

(* The process has exited. *)
Ended ==
  /\ step = "done"
  /\ UNCHANGED bottomlessVars

BottomlessNext ==
  \/ ParseArgs \/ ExportEnv \/ ResolveDatabase \/ BuildPath
  \/ NewReplicator \/ RunCommand \/ Ended

BottomlessSpec == BottomlessInit /\ [][BottomlessNext]_bottomlessVars

-----------------------------------------------------------------------------
(* The Replicator works on the bucket, endpoint and namespace in which  *)
(* detect_db found the database: run() keeps two copies of -e and -b,   *)
(* options for the S3 client of detect_db and the environment for the   *)
(* Replicator, and they must agree whether the values came from the     *)
(* command line, from the shell or from the defaults.                   *)
(* bottomless-cli panics only at the namespace's strip_prefix unwrap,   *)
(* on a namespace without the ns- prefix: clap's conflicts_with keeps  *)
(* every command line that reaches the match on options.command away    *)
(* from the unreachable!() arm of rm.                                   *)
PanicsOnlyOnNamespace ==
  status = "panic" => Head(Namespace) # "ns-"

ReplicatorSeesDetectedTarget ==
  (detected # NoTarget /\ opened # NoTarget) => opened = detected

(* The spec's CLI surface: the tool exits nonzero on error, so status 0 *)
(* means the subcommand's Replicator operation ran and succeeded.  run() *)
(* returns Ok(()) after printing a hint when detect_db finds nothing and *)
(* when rm is given neither --generation nor --older-than.              *)
ExitsZeroOnlyWhenDone ==
  status = "ok" => called # None
=============================================================================
