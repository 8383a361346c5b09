----------------------------- MODULE ServerMain -----------------------------
(***************************************************************************)
(* The sqld process (sqld/src/main.rs): parse the command line, then       *)
(* either dump one namespace to a file or stdout, or print the welcome    *)
(* banner, build the server's configuration one part at a time (each      *)
(* `?` ends main with an error), spawn the CTRL-C task and run the server *)
(* until it is shut down.                                                  *)
(*                                                                         *)
(* The command line is the set of options present.  The environment       *)
(* (bind(), file reads, environment variables, the engine) may fail any   *)
(* step that touches it; which one fails is a nondeterministic choice.   *)
(* The CTRL-C task loops on tokio::signal::ctrl_c() and calls             *)
(* Notify::notify_waiters(), which wakes only tasks already waiting and   *)
(* stores no permit.  Server::start (lib.rs, not in this tree) is          *)
(* modelled from the spec: it sets the server up, then waits on           *)
(* shutdown.notified() and returns once notified.  Until the first        *)
(* ctrl_c() call installs tokio's handler, SIGINT has its default action  *)
(* and kills the process.                                                  *)
(***************************************************************************)
EXTENDS Naturals, FiniteSets, ServerConfig

(* Options of the command line that change what main does. *)
Flags == {"dump", "dump_path", "no_welcome", "bottomless", "jwt_file",
          "admin", "grpc_listen", "grpc_tls", "grpc_certs",
          "primary_url", "primary_tls", "primary_certs"}

(* Command lines a user can type: --path exists only under `dump`;     *)
(* *_certs stands for all three of cert, key and CA file being given.  *)
Inputs == {c \in SUBSET Flags : "dump_path" \in c => "dump" \in c}

VARIABLES
  cli,      \* the options given
  nsDir,    \* <db_path>/dbs/<namespace> exists
  out,      \* the dump path: "absent", "old", "partial" or "dump"
  pc,       \* where main is
  sig,      \* the CTRL-C task: "none", "spawned", "listening", "woken"
  server,   \* Server::start: "none", "starting", "waiting", "notified"
  exit,     \* how the process ended: "none", "ok", "err", "panic", "killed"
  cause,    \* what an error came from: "none", "env", "usage", "config"
  announced \* ghost: the task logged "received CTRL-C, shutting down"

vars == <<cli, nsDir, out, pc, sig, server, exit, cause, announced>>

Alive == exit = "none"

(* main returns Err (or panics) because of `why`. *)
Fail(kind, why) ==
  /\ exit' = kind
  /\ cause' = why
  /\ pc' = "done"

Exit(kind) == Fail(kind, "none")

(* The next step of main; a step that fails takes the `Fail` branch. *)
Step(ok, next, why) ==
  IF ok THEN /\ pc' = next /\ UNCHANGED <<exit, cause>>
        ELSE Fail("err", why)

-----------------------------------------------------------------------------
(* Mutant: clap without the `requires` of --grpc-tls and --primary-grpc-tls. *)
ParseOkNoRequires(c) ==
  ~({"grpc_listen", "primary_url"} \subseteq c)

(* The constraints clap checks: --grpc-listen-addr conflicts with        *)
(* --primary-grpc-url, and each --*-tls requires its three files.        *)
ParseOk(c) ==
  /\ ~({"grpc_listen", "primary_url"} \subseteq c)
  /\ "grpc_tls" \in c => "grpc_certs" \in c
  /\ "primary_tls" \in c => "primary_certs" \in c

Init ==
  /\ cli \in Inputs
  /\ nsDir \in BOOLEAN
  /\ out \in {"absent", "old"}
  /\ pc = "parse"
  /\ sig = "none"
  /\ server = "none"
  /\ exit = "none"
  /\ cause = "none"
  /\ announced = FALSE

(* Cli::parse() exits with a usage error when clap rejects the line;   *)
(* then main takes the dump or the server branch.                      *)
Parse ==
  /\ Alive /\ pc = "parse"
  /\ Step(ParseOk(cli), IF "dump" \in cli THEN "dump_check" ELSE "welcome", "usage")
  /\ UNCHANGED <<cli, nsDir, out, sig, server, announced>>

(* The dump branch bails when the namespace's directory is missing. *)
DumpCheck ==
  /\ Alive /\ pc = "dump_check"
  /\ Step(nsDir, "open_out", "env")
  /\ UNCHANGED <<cli, nsDir, out, sig, server, announced>>

(* perform_dump: with --path, create_new the file (an existing file, or  *)
(* any other open error, ends main); without it, write to stdout.        *)
OpenOut ==
  /\ Alive /\ pc = "open_out"
  /\ IF "dump_path" \in cli
       THEN \E ok \in BOOLEAN :
              /\ ok => out = "absent"
              /\ Step(ok, "export", "env")
              /\ out' = IF ok THEN "partial" ELSE out
       ELSE /\ Step(TRUE, "export", "env")
            /\ UNCHANGED out
  /\ UNCHANGED <<cli, nsDir, sig, server, announced>>

(* Open the namespace's database and export_dump into the output; either *)
(* may fail, leaving a partly written file behind.                      *)
RunExport ==
  /\ Alive /\ pc = "export"
  /\ \E ok \in BOOLEAN :
       /\ IF ok THEN Exit("ok") ELSE Fail("err", "env")
       /\ out' = IF ok /\ "dump_path" \in cli THEN "dump" ELSE out
  /\ UNCHANGED <<cli, nsDir, sig, server, announced>>

(* print_welcome_message: unless --no-welcome, the mode is printed from  *)
(* the gRPC options, and both present is unreachable!().                 *)
Welcome ==
  /\ Alive /\ pc = "welcome"
  /\ IF "no_welcome" \notin cli /\ {"grpc_listen", "primary_url"} \subseteq cli
       THEN Fail("panic", "config")
       ELSE /\ pc' = "db_config"
            /\ UNCHANGED <<exit, cause>>
  /\ UNCHANGED <<cli, nsDir, out, sig, server, announced>>

(* make_db_config: bottomless Options::from_env may fail. *)
DbConfig ==
  /\ Alive /\ pc = "db_config"
  /\ \E ok \in BOOLEAN :
       /\ ~ok => "bottomless" \in cli
       /\ Step(ok, "user_api", "env")
  /\ UNCHANGED <<cli, nsDir, out, sig, server, announced>>

(* make_user_api_config: read the JWT key file or SQLD_AUTH_JWT_KEY (not *)
(* Unicode is an error) and bind the HTTP and Hrana listeners.           *)
UserApi ==
  /\ Alive /\ pc = "user_api"
  /\ \E ok \in BOOLEAN : Step(ok, "admin_api", "env")
  /\ UNCHANGED <<cli, nsDir, out, sig, server, announced>>

(* make_admin_api_config: bind the admin listener when one is asked for. *)
AdminApi ==
  /\ Alive /\ pc = "admin_api"
  /\ \E ok \in BOOLEAN :
       /\ ~ok => "admin" \in cli
       /\ Step(ok, "rpc_server", "env")
  /\ UNCHANGED <<cli, nsDir, out, sig, server, announced>>

(* make_rpc_server_config: bind the gRPC listener, then, with TLS, every *)
(* one of the three files must be given.                                 *)
RpcServer ==
  /\ Alive /\ pc = "rpc_server"
  /\ IF "grpc_listen" \notin cli
       THEN Step(TRUE, "rpc_client", "env")
       ELSE \E bound \in BOOLEAN :
              IF ~bound THEN Fail("err", "env")
              ELSE Step("grpc_tls" \notin cli \/ "grpc_certs" \in cli,
                        "rpc_client", "config")
  /\ UNCHANGED <<cli, nsDir, out, sig, server, announced>>

(* make_rpc_client_config: with TLS, every one of the three files must  *)
(* be given.                                                             *)
RpcClient ==
  /\ Alive /\ pc = "rpc_client"
  /\ Step("primary_url" \notin cli \/ "primary_tls" \notin cli
            \/ "primary_certs" \in cli,
          "spawn", "config")
  /\ UNCHANGED <<cli, nsDir, out, sig, server, announced>>

(* The heartbeat config, the Notify, the spawned CTRL-C loop and the    *)
(* Server value; main then runs server.start().                         *)
SpawnAndStart ==
  /\ Alive /\ pc = "spawn"
  /\ sig' = "spawned"
  /\ server' = "starting"
  /\ pc' = "serve"
  /\ UNCHANGED <<cli, nsDir, out, exit, cause, announced>>

-----------------------------------------------------------------------------
(* The CTRL-C task's first poll of ctrl_c() installs tokio's handler. *)
ListenSignal ==
  /\ Alive /\ sig = "spawned"
  /\ sig' = "listening"
  /\ UNCHANGED <<cli, nsDir, out, pc, server, exit, cause, announced>>

(* The user presses CTRL-C: without tokio's handler the process dies;   *)
(* a listening task wakes up; a press while the task is between two     *)
(* ctrl_c() calls is not seen by the next one, and is lost.             *)
Press ==
  /\ Alive
  /\ CASE sig \in {"none", "spawned"} ->
            /\ exit' = "killed"
            /\ pc' = "done"
            /\ UNCHANGED <<sig, cause>>
       [] sig = "listening" ->
            /\ sig' = "woken"
            /\ UNCHANGED <<pc, exit, cause>>
       [] OTHER -> UNCHANGED <<sig, pc, exit, cause>>
  /\ UNCHANGED <<cli, nsDir, out, server, announced>>

(* Mutant: the task handles one CTRL-C and returns instead of looping. *)
NotifyOnce ==
  /\ Alive /\ sig = "woken"
  /\ sig' = "gone"
  /\ announced' = TRUE
  /\ server' = IF server = "waiting" THEN "notified" ELSE server
  /\ UNCHANGED <<cli, nsDir, out, pc, exit, cause>>

(* The task logs the CTRL-C, calls notify_waiters(), which wakes the    *)
(* server only if it is already waiting, and loops to ctrl_c() again.   *)
Notify ==
  /\ Alive /\ sig = "woken"
  /\ sig' = "listening"
  /\ announced' = TRUE
  /\ server' = IF server = "waiting" THEN "notified" ELSE server
  /\ UNCHANGED <<cli, nsDir, out, pc, exit, cause>>

(* Server::start sets up its services, then waits on notified(); or it *)
(* fails first and main returns its error.                             *)
ServerWait ==
  /\ Alive /\ server = "starting"
  /\ server' = "waiting"
  /\ UNCHANGED <<cli, nsDir, out, pc, sig, exit, cause, announced>>

ServerFails ==
  /\ Alive /\ server = "starting"
  /\ Fail("err", "env")
  /\ UNCHANGED <<cli, nsDir, out, sig, server, announced>>

(* The notified server shuts down; start() and main return Ok. *)
ServerStop ==
  /\ Alive /\ server = "notified"
  /\ Exit("ok")
  /\ UNCHANGED <<cli, nsDir, out, sig, server, announced>>

(* The process has exited. *)
Exited ==
  /\ ~Alive
  /\ UNCHANGED vars

Main ==
  \/ Parse \/ DumpCheck \/ OpenOut \/ RunExport
  \/ Welcome \/ DbConfig \/ UserApi \/ AdminApi \/ RpcServer \/ RpcClient
  \/ SpawnAndStart

Next ==
  \/ Main
  \/ ListenSignal \/ Notify
  \/ ServerWait \/ ServerFails \/ ServerStop
  \/ Press
  \/ Exited

(* main, the spawned task and the server are run by the tokio runtime; *)
(* the user presses CTRL-C whenever they like.                          *)
Fairness ==
  /\ WF_vars(Main) /\ WF_vars(ListenSignal) /\ WF_vars(Notify)
  /\ WF_vars(ServerWait \/ ServerFails) /\ WF_vars(ServerStop)

Spec == Init /\ [][Next]_vars /\ Fairness

(* A user who keeps pressing CTRL-C until the process is gone. *)
SpecInsist == Spec /\ WF_vars(Press)

-----------------------------------------------------------------------------
(* No command line that clap accepts makes main fail or panic because of *)
(* the command line itself: the unreachable!() of the welcome banner and *)
(* the "tls is enabled but ... file is missing" errors of the gRPC       *)
(* configs are ruled out by conflicts_with and requires.                 *)
StartupFailsOnlyOnEnvironment ==
  exit \in {"err", "panic"} => cause \in {"env", "usage"}

(* Once main has handed its DbConfig to Server::start, the extension     *)
(* allow-list DbConfig::validate_extensions derives from it, for every   *)
(* --extensions-path, trusted.lst and disk, is exactly the listed        *)
(* extensions when each has its digest, and an error otherwise.          *)
ExtensionListChecked == server # "none" => ExtensionsMatchList

(* A user who keeps pressing CTRL-C eventually sees the process end. *)
ShutdownEventually == <>(~Alive)

(* Once the CTRL-C task has logged "shutting down gracefully", the      *)
(* process ends, without the user having to press again.                *)
AnnouncedShutdownHappens == announced ~> ~Alive
=============================================================================
