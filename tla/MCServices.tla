----------------------------- MODULE MCServices ------------------------------
(***************************************************************************)
(* The servers around the file server: the block service under it          *)
(* (BlockService), the servers of /proc, /dev and of component names       *)
(* (Servers), and init, which starts the first processes and the shell     *)
(* (also Servers).  They share no state but the processes' pids: a         *)
(* behaviour is one of them at work while the others rest.                 *)
(***************************************************************************)
EXTENDS BlockService, Servers

VARIABLES scene

servicesVars == <<scene, blkVars, srvVars, initVars>>

Scenes == {"blk", "srv", "init"}

\* A part that rests starts in one of its initial states.
ServicesInit ==
  /\ scene \in Scenes
  /\ BlkInit /\ SrvInit /\ InitInit
  /\ scene # "blk" => dev.present /\ left = CHOOSE l \in BlkScenes : TRUE
  /\ scene # "srv" => todo = CHOOSE t \in Questions : TRUE

ServicesNext ==
  \/ scene = "blk" /\ BlkStep /\ UNCHANGED <<scene, srvVars, initVars>>
  \/ scene = "srv" /\ SrvStep /\ UNCHANGED <<scene, blkVars, initVars>>
  \/ scene = "init" /\ InitStep /\ UNCHANGED <<scene, blkVars, srvVars>>

\* Processes that can run do so, interrupts arrive, and the device finishes
\* what it was given.
ServicesFairness ==
  /\ WF_blkVars(scene = "blk" /\ RsProgress)
  /\ \A d \in Drivers : WF_blkVars(scene = "blk" /\ LifeProgress(d))
  /\ WF_blkVars(scene = "blk" /\ DriverProgress) /\ WF_blkVars(scene = "blk" /\ ServeRequest)
  /\ WF_blkVars(scene = "blk" /\ DeviceProgress) /\ WF_blkVars(scene = "blk" /\ Interrupt)
  /\ WF_blkVars(scene = "blk" /\ VfsReturns)
  /\ WF_srvVars(scene = "srv" /\ ServerProgress)
  /\ WF_initVars(scene = "init" /\ InitProgress) /\ WF_initVars(scene = "init" /\ ExitProgress)

ServicesSpec == ServicesInit /\ [][ServicesNext]_servicesVars /\ ServicesFairness

-----------------------------------------------------------------------------
\* The variables of the parts keep their types.
ServicesTypeOK == BlkTypeOK /\ SrvTypeOK

\* Those who wait for a server get on, as far as the kernel's calls let them: a
\* block call returns while the driver lives; a driver that crashes and a shell
\* that exits come back, unless waitpid or a mailbox misses what it waits for;
\* requests are answered; and a name registered stays with its owner.
ServicesGoOn ==
  CallsReturn /\ DriverComesBack /\ RequestsAnswered /\ ShellRespawned /\ NameIsKept

-----------------------------------------------------------------------------
(* An instance of Services. *)
Scene(crashes, fails, strays, configs, blocks) ==
  [crashes |-> crashes, fails |-> fails, failed |-> FALSE, strays |-> strays, configs |-> configs, blocks |-> blocks]
CrashScenes == {Scene(2, 1, 0, 0, {}), Scene(1, 0, 1, 0, {}), Scene(1, 0, 0, 0, {1}),
                Scene(0, 0, 0, 1, {1}), Scene(0, 0, 0, 0, {1, 2})}

TwoClients == {"c1", "c2"}
ToVfs(op, arg, off) == Request("vfs", op, arg, off)
ToCm(op) == Request("cm", op, "n1", 0)
Asking(one, two) == ("c1" :> one) @@ ("c2" :> two)
OneReads   == ToVfs("proc_read", "p1", 1)
OtherAsks  == {ToVfs("proc_read", "p1", 3), ToVfs("proc_list", "", 0), ToVfs("proc_stat", "p1", 0),
               ToVfs("proc_stat", "root", 0), ToVfs("dev_stat", "other", 0), ToVfs("dev_list", "", 0)}
VfsAsked == {Asking({OneReads}, {s}) : s \in OtherAsks \cup {ToVfs("dev_read", "zero", 2)}}
CmAsked  == {Asking({ToCm("register"), ToCm("unregister")}, {ToCm("register"), ToCm("lookup")}),
             Asking({ToCm("register"), ToCm("unregister")}, {ToCm("list")}),
             Asking({ToCm("register")}, {ToCm("unregister")})}
AllAsked == VfsAsked \cup CmAsked
=============================================================================
