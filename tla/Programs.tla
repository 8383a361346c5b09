------------------------------ MODULE Programs ------------------------------
(***************************************************************************)
(* The repository's two executables: the sqld server (ServerMain) and the  *)
(* object-store backup tool (BottomlessCli).  They share no state; a      *)
(* behaviour starts one of them, and the variables of the other keep the  *)
(* values of a process that was never started.  The state space is the    *)
(* sum of the two, so both are checked in one run.                         *)
(***************************************************************************)
EXTENDS ServerMain, BottomlessCli

VARIABLE prog   \* which executable was started

allVars == <<prog, vars, bottomlessVars>>

SqldNotStarted ==
  /\ cli = {} /\ nsDir = FALSE /\ out = "absent"
  /\ pc = "parse" /\ sig = "none" /\ server = "none"
  /\ exit = "none" /\ cause = "none" /\ announced = FALSE

BottomlessNotStarted ==
  /\ args = [cmd |-> "ls", sub |-> {}, endpoint |-> None, bucket |-> None,
             database |-> NoPath, namespace |-> NoPath]
  /\ env = [endpoint |-> None, bucket |-> None, database_id |-> NoPath]
  /\ options = [endpoint |-> None, bucket |-> None]
  /\ database = NoPath /\ step = "parse" /\ status = "running"
  /\ detected = NoTarget /\ opened = NoTarget /\ called = None

ProgramsInit ==
  \/ prog = "sqld" /\ Init /\ BottomlessNotStarted
  \/ prog = "bottomless" /\ SqldNotStarted /\ BottomlessInit

(* A step of the started executable. *)
Sqld(A) == prog = "sqld" /\ A /\ UNCHANGED <<prog, bottomlessVars>>
Bottomless(A) == prog = "bottomless" /\ A /\ UNCHANGED <<prog, vars>>

ProgramsNext == Sqld(Next) \/ Bottomless(BottomlessNext)

(* ServerMain's fairness, for a user who keeps pressing CTRL-C. *)
ProgramsFairness ==
  /\ WF_allVars(Sqld(Main)) /\ WF_allVars(Sqld(ListenSignal))
  /\ WF_allVars(Sqld(Notify)) /\ WF_allVars(Sqld(ServerWait \/ ServerFails))
  /\ WF_allVars(Sqld(ServerStop)) /\ WF_allVars(Sqld(Press))

ProgramsSpec == ProgramsInit /\ [][ProgramsNext]_allVars /\ ProgramsFairness

-----------------------------------------------------------------------------
(* A user who keeps pressing CTRL-C at sqld eventually sees it end        *)
(* (ShutdownEventually, for the behaviours that start sqld).             *)
SqldShutsDownEventually == prog = "sqld" => ShutdownEventually
=============================================================================
