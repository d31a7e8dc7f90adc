----------------------------- MODULE NodeProcess -----------------------------
(***************************************************************************)
(* The life of the node process: main and xsan_node_main_spdk_thread_start *)
(* of main/xsan_node.c with core/spdk_manager.c, the initialisation and    *)
(* finalisation of every module they call, the built-in end-to-end test    *)
(* that follows start-up, the way down, and a crash and restart at any     *)
(* point.  The test's disk group and volume are persistent.                *)
(***************************************************************************)
EXTENDS Naturals, Sequences, FiniteSets

CONSTANTS MaxBoots     \* bound: how often the process is started

ASSUME BootAssumption == MaxBoots \in Nat \ {0}

VARIABLES at,          \* where the main thread is
          up,          \* the modules that are initialised
          kept,        \* what failed or incomplete clean-up leaves behind in this process
          objects,     \* what of the end-to-end test exists: its group, volume, namespace, and
                       \* the record of a volume that an earlier process left
          undeleted,   \* history: objects a deletion failed for, or an earlier process left
          startFailed, \* history: the NVMe-oF subsystem did not start
          boots        \* how often the process was started

nodeVars == <<at, up, kept, objects, undeleted, startFailed, boots>>

\* The modules in the order they are initialised in; each uses those before it.
Order == <<"config", "cluster", "disks", "volumes", "comm", "target">>

Starting == {"config", "cluster", "disks", "volumes", "comm", "handlers", "target"}

Testing == {"group", "volume", "namespace", "buffers", "write", "writing", "read", "reading",
            "no_namespace", "no_volume", "no_group"}

Cleanup == {"fini_target", "fini_comm", "fini_volumes", "fini_disks", "fini_cluster", "fini_config"}

NodeInit == /\ at = "off" /\ up = {} /\ kept = {} /\ objects = {} /\ undeleted = {}
            /\ startFailed = FALSE /\ boots = 0

-----------------------------------------------------------------------------
Go(there) == at' = there

Walk(from, next) == /\ at = from /\ Go(next)
                    /\ UNCHANGED <<up, kept, objects, undeleted, startFailed, boots>>

\* A module is initialised, or its initialisation fails and control goes to label,
\* leaving something behind.
Initialise(module, next, label, behind) ==
  /\ at = module
  /\ \/ Go(next) /\ up' = up \cup {module} /\ UNCHANGED kept
     \/ Go(label) /\ UNCHANGED up /\ \E b \in behind : kept' = kept \cup b
  /\ UNCHANGED <<objects, undeleted, startFailed, boots>>

\* The next volume of the test has an identity of its own.
Left(O) == IF "volume" \in O THEN (O \ {"volume"}) \cup {"old_volume"} ELSE O

\* main and xsan_spdk_manager_start_app: SPDK starts and calls
\* xsan_node_main_spdk_thread_start, or fails, is finalised and the process exits.
\* The options are never customised: xsan_spdk_manager_opts_init refuses a missing
\* configuration file, which is what main passes, and main ignores the refusal.
Boot == /\ at \in {"off", "exited"} /\ boots < MaxBoots
        /\ boots' = boots + 1
        /\ kept' = {} /\ startFailed' = FALSE
        /\ objects' = Left(objects) /\ undeleted' = Left(objects)
        /\ Go("config") \/ Go("exited")
        /\ UNCHANGED up

\* Faulty variant of StartConfig: without a configuration the thread just returns.
StartConfigSilent ==
  /\ at = "config"
  /\ \/ Go("idle") /\ UNCHANGED up
     \/ up' = up \cup {"config"} /\ (Go("cluster") \/ Go("fini_config"))
  /\ UNCHANGED <<kept, objects, undeleted, startFailed, boots>>

\* xsan_config_create, loading the file, xsan_config_load_node_config: without memory for
\* the configuration the thread only asks SPDK to stop; a file that cannot be loaded is
\* not an error; a bad node section, or an empty node id, is.
StartConfig ==
  /\ at = "config"
  /\ \/ Go("stopping") /\ UNCHANGED up
     \/ up' = up \cup {"config"} /\ (Go("cluster") \/ Go("fini_config"))
  /\ UNCHANGED <<kept, objects, undeleted, startFailed, boots>>

StartCluster == Initialise("cluster", "disks", "fini_config", {{}})

\* xsan_disk_manager_init undoes what it did when a step fails.
StartDisks == Initialise("disks", "volumes", "fini_cluster", {{}})

\* Faulty variant of StartVolumes: the label of the module before is used.
StartVolumesWrong == Initialise("volumes", "comm", "fini_cluster", {{}, {"volume_list"}})

\* xsan_volume_manager_init: when the list or a mutex fails only the manager is freed.  A
\* stored volume is loaded under a lock that the loader then waits for itself (module
\* VolumeLifecycle), unless its record cannot be read.
StartVolumes == \/ Initialise("volumes", "comm", "fini_disks", {{}, {"volume_list"}})
                \/ "old_volume" \in objects /\ Walk("volumes", "locked")

\* xsan_node_comm_init
StartComm == Initialise("comm", "handlers", "fini_volumes", {{}})

\* xsan_node_comm_register_message_handler, twice: the types are valid and the module is up.
StartHandlers == /\ at = "handlers" /\ Go("target")
                 /\ UNCHANGED <<up, kept, objects, undeleted, startFailed, boots>>

\* xsan_nvmf_target_init: the target; the transport, which nothing destroys; the
\* subsystem; its start.  A failed start leaves the target standing, and the caller
\* goes to the label behind xsan_nvmf_target_fini.
StartTarget ==
  /\ at = "target"
  /\ \/ Go("group") /\ up' = up \cup {"target"} /\ kept' = kept \cup {"transport"} /\ UNCHANGED startFailed
     \/ /\ Go("fini_comm")
        /\ \/ UNCHANGED <<kept, startFailed>>
           \/ kept' = kept \cup {"transport"} /\ UNCHANGED startFailed
           \/ kept' = kept \cup {"transport", "target"} /\ startFailed' = TRUE
        /\ UNCHANGED up
  /\ UNCHANGED <<objects, undeleted, boots>>

-----------------------------------------------------------------------------
(* _run_e2e_core_logic_tests *)

\* An object of the test is created, unless it is there, or is not, and control goes to label.
Create(point, object, next, label) ==
  /\ at = point
  /\ \/ object \notin objects /\ objects' = objects \cup {object} /\ Go(next)
     \/ UNCHANGED objects /\ Go(label)
  /\ UNCHANGED <<up, kept, undeleted, startFailed, boots>>

TestGroup == Create("group", "group", "volume", "fini_target")

\* The look-up after the creation finds the volume: nobody else deletes one meanwhile.
TestVolume == Create("volume", "volume", "namespace", "no_group")

\* xsan_nvmf_target_add_namespace, to which the target and the subsystem are known.
AddNamespace(next) == Create("namespace", "namespace", next, next)

\* The namespace is optional: without it, or without the record of the volume that names
\* its disk, the test goes on.
TestNamespace == AddNamespace("buffers")

\* The DMA buffers are there, or the I/O is left out.
TestBuffers == Walk("buffers", "write") \/ Walk("buffers", "no_namespace")

\* xsan_volume_write_async is accepted and the thread polls until the callback has been
\* called, with success or not; or the call fails.  The read follows a successful write.
\* A completion that the volume manager drops is waited for without end.
TestWrite == Walk("write", "writing") \/ Walk("write", "no_namespace")
TestWriteDone == Walk("writing", "read") \/ Walk("writing", "no_namespace")
TestRead == Walk("read", "reading") \/ Walk("read", "no_namespace")
TestReadDone == Walk("reading", "no_namespace")
IoLost == Walk("writing", "hung") \/ Walk("reading", "hung")

\* An object of the test is deleted, or its deletion fails; what is not there is skipped.
Delete(point, object, next) ==
  /\ at = point /\ Go(next)
  /\ \/ objects' = objects \ {object} /\ UNCHANGED undeleted
     \/ object \in objects /\ undeleted' = undeleted \cup {object} /\ UNCHANGED objects
  /\ UNCHANGED <<up, kept, startFailed, boots>>

\* xsan_nvmf_target_remove_namespace
RemoveNamespace(next) == Delete("no_namespace", "namespace", next)

DeleteNamespace == RemoveNamespace("no_volume")

DeleteVolume == Delete("no_volume", "volume", "no_group")

\* Faulty variant of DeleteGroup: after a failed volume creation the group is forgotten.
DeleteGroupNever == Walk("no_group", "fini_target")

DeleteGroup == Delete("no_group", "group", "fini_target")

-----------------------------------------------------------------------------
\* The labels at the end of xsan_node_main_spdk_thread_start, entered anywhere and run
\* through to the end, where SPDK is asked to stop.
Finalise(label, module, next) ==
  /\ at = label /\ Go(next) /\ up' = up \ {module}
  /\ objects' = IF module = "target" THEN objects \ {"namespace"} ELSE objects
  /\ UNCHANGED <<kept, undeleted, startFailed, boots>>

FiniTarget == Finalise("fini_target", "target", "fini_comm")
FiniComm == Finalise("fini_comm", "comm", "fini_volumes")
FiniVolumes == Finalise("fini_volumes", "volumes", "fini_disks")
FiniDisks == Finalise("fini_disks", "disks", "fini_cluster")
FiniCluster == Finalise("fini_cluster", "cluster", "fini_config")
FiniConfig == Finalise("fini_config", "config", "stopping")

\* spdk_app_start returns, SPDK is finalised by xsan_spdk_manager_start_app and again
\* by xsan_spdk_manager_app_fini, and main returns.
Exit == Walk("stopping", "exited")

\* The process dies: its memory is gone, what is persistent stays.
NodeCrash == /\ at \notin {"off", "exited"}
             /\ Go("off") /\ up' = {}
             /\ objects' = objects \ {"namespace"}
             /\ UNCHANGED <<kept, undeleted, startFailed, boots>>

Steps == \/ StartConfig \/ StartCluster \/ StartDisks \/ StartVolumes \/ StartComm \/ StartHandlers
         \/ StartTarget
         \/ TestGroup \/ TestVolume \/ TestNamespace \/ TestBuffers \/ TestWrite \/ TestRead
         \/ DeleteNamespace \/ DeleteVolume \/ DeleteGroup
         \/ FiniTarget \/ FiniComm \/ FiniVolumes \/ FiniDisks \/ FiniCluster \/ FiniConfig \/ Exit
         \/ TestWriteDone \/ TestReadDone

NodeNext == Boot \/ Steps \/ IoLost \/ NodeCrash

NodeSpec == NodeInit /\ [][NodeNext]_nodeVars

\* The main thread runs, and SPDK completes I/O.
NodeFairness == WF_nodeVars(Steps)

LiveNodeSpec == NodeSpec /\ NodeFairness

-----------------------------------------------------------------------------
(* Properties *)

\* At every point of start-up, test and shutdown, whatever has failed before, a module is
\* up only together with all modules it was built on, and once the process has exited
\* none is up; what is left is a transport, a target whose subsystem did not start, or
\* the list of a volume manager that was not built.
ModulesNest ==
  /\ \A i, j \in 1 .. Len(Order) : i < j /\ Order[j] \in up => Order[i] \in up
  /\ at = "exited" => /\ up = {}
                      /\ kept \subseteq {"transport", "target", "volume_list"}
                      /\ "target" \in kept => startFailed
  /\ "target" \in kept => "target" \notin up

\* A process that exits leaves of the test's group and volume only what it failed to
\* delete (a deletion may report success and fail) or found when it started.
TestLeavesNothing == at = "exited" => objects \subseteq undeleted

\* A process that is started exits, crashes, or waits for ever: for an I/O whose completion
\* was lost, or, where an earlier one left a volume, for the lock of the volume manager.
NodeEnds ==
  at \in Starting \cup Testing \cup Cleanup ~>
    at \in {"exited", "off", "hung"} \/ (at = "locked" /\ "old_volume" \in undeleted)
=============================================================================
