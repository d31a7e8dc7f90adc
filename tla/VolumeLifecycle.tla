-------------------------- MODULE VolumeLifecycle --------------------------
(***************************************************************************)
(* Creation, deletion and loading of volumes in storage/volume_manager.c:  *)
(* the in-memory list, the two records a volume has in the metadata store  *)
(* ("v:<id>" and "volalloc:<id>"), the extents of the disk group, and the  *)
(* process, which may crash between any two effects on the store.          *)
(*                                                                         *)
(* create and delete hold vm->lock throughout, so at most one of them is   *)
(* in progress; it is a sequence of steps, one per effect that survives a  *)
(* crash.                                                                  *)
(***************************************************************************)
EXTENDS FiniteSets

CONSTANTS VolumeIds,     \* the ids spdk_uuid_generate hands out, each once
          Names,         \* volume names
          GroupExtents,  \* the extents of the disk group
          VolumeFaults   \* what goes wrong

VolumeFaultKinds ==
  {"refuse",  \* bad parameters, group not online, no node info, no space
   "oom",     \* no memory
   "put",     \* rocksdb_put fails
   "get",     \* the allocation record cannot be read or parsed
   "delete",  \* rocksdb_delete fails
   "free",    \* xsan_disk_group_free_extents fails
   "skip",    \* a stored volume cannot be parsed or appended when loading
   "crash"}   \* the process dies

ASSUME LifecycleAssumption == VolumeFaults \subseteq VolumeFaultKinds

VARIABLES process,  \* "running", "down", or "hung": waiting for a lock it holds
          pc, cur,  \* the next step of the operation holding vm->lock, and its volume
          managed,  \* vm->managed_volumes
          vrec,     \* volumes with a "v:" record
          arec,     \* volumes with a "volalloc:" record
          volName,  \* the name of each volume
          ext,      \* the extents the allocation record of each volume names
          used,     \* the extents the disk manager holds as allocated; survives a crash
          reply,    \* what the caller of create or delete was told last
          leaks     \* history: why store, list and extents may disagree

volumeVars == <<process, pc, cur, managed, vrec, arec, volName, ext, used, reply, leaks>>

CreateSteps == {"put_alloc", "put_vol", "append", "undo_alloc", "undo_vol", "undo_extents"}
DeleteSteps == {"free", "del_alloc", "del_vol"}

VolumeInit == /\ process = "running" /\ pc = "idle" /\ cur \in VolumeIds
              /\ managed = {} /\ vrec = {} /\ arec = {} /\ used = {} /\ leaks = {}
              /\ volName \in [VolumeIds -> Names]
              /\ ext = [v \in VolumeIds |-> {}]
              /\ reply = [v \in VolumeIds |-> "none"]

At(step) == process = "running" /\ pc = step

Tell(v, what) == reply' = [reply EXCEPT ![v] = what]

Possible(fault) == fault \in VolumeFaults

-----------------------------------------------------------------------------
(* xsan_volume_create *)

VolumeNameTaken(v) == \E u \in managed : volName[u] = volName[v]

\* Every return of create before an extent is allocated.
CreateRefused(v) ==
  /\ At("idle") /\ reply[v] = "none"
  /\ VolumeNameTaken(v) \/ Possible("refuse") \/ Possible("oom")
  /\ Tell(v, "refused")
  /\ UNCHANGED <<process, pc, cur, managed, vrec, arec, volName, ext, used, leaks>>

\* The volume gets its extents, none of them when it is thin.
CreateBegin(v) ==
  /\ At("idle") /\ reply[v] = "none"
  /\ ~VolumeNameTaken(v)
  /\ \E E \in SUBSET (GroupExtents \ used) : ext' = [ext EXCEPT ![v] = E] /\ used' = used \cup E
  /\ pc' = "put_alloc" /\ cur' = v
  /\ Tell(v, "pending")
  /\ UNCHANGED <<process, managed, vrec, arec, volName, leaks>>

PutAlloc ==
  /\ At("put_alloc")
  /\ \/ arec' = arec \cup {cur} /\ pc' = "put_vol"
     \/ /\ Possible("put") \/ Possible("oom")
        /\ arec' = arec /\ pc' = "undo_extents"
  /\ UNCHANGED <<process, cur, managed, vrec, volName, ext, used, reply, leaks>>

\* Faulty variant of PutVol: the error of save_volume_meta is ignored.
PutVolUnchecked ==
  /\ At("put_vol")
  /\ \/ vrec' = vrec \cup {cur}
     \/ Possible("put") /\ vrec' = vrec
  /\ pc' = "append"
  /\ UNCHANGED <<process, cur, managed, arec, volName, ext, used, reply, leaks>>

PutVol ==
  /\ At("put_vol")
  /\ \/ vrec' = vrec \cup {cur} /\ pc' = "append"
     \/ /\ Possible("put") \/ Possible("oom")
        /\ vrec' = vrec /\ pc' = "undo_alloc"
  /\ UNCHANGED <<process, cur, managed, arec, volName, ext, used, reply, leaks>>

AppendManaged ==
  /\ At("append")
  /\ \/ managed' = managed \cup {cur} /\ pc' = "idle" /\ Tell(cur, "created")
     \/ Possible("oom") /\ pc' = "undo_alloc" /\ UNCHANGED <<managed, reply>>
  /\ UNCHANGED <<process, cur, vrec, arec, volName, ext, used, leaks>>

\* xsan_metadata_store_delete of cur's record in the set rec; every caller goes
\* on whatever it returns.
Erase(rec, rest) ==
  \/ rest = rec \ {cur} /\ leaks' = leaks
  \/ Possible("delete") /\ rest = rec /\ leaks' = leaks \cup {"delete"}

\* Faulty variant of UndoAlloc: the allocation record is left behind.
UndoAllocForgotten ==
  /\ At("undo_alloc")
  /\ pc' = IF cur \in vrec THEN "undo_vol" ELSE "undo_extents"
  /\ UNCHANGED <<process, cur, managed, vrec, arec, volName, ext, used, reply, leaks>>

UndoAlloc ==
  /\ At("undo_alloc")
  /\ Erase(arec, arec')
  /\ pc' = IF cur \in vrec THEN "undo_vol" ELSE "undo_extents"
  /\ UNCHANGED <<process, cur, managed, vrec, volName, ext, used, reply>>

UndoVol ==
  /\ At("undo_vol")
  /\ Erase(vrec, vrec')
  /\ pc' = "undo_extents"
  /\ UNCHANGED <<process, cur, managed, arec, volName, ext, used, reply>>

\* xsan_disk_group_free_extents of the extents of cur; a failure is logged.
FreeExtents ==
  \/ used' = used \ ext[cur] /\ leaks' = leaks
  \/ Possible("free") /\ ext[cur] # {} /\ used' = used /\ leaks' = leaks \cup {"free"}

UndoExtents ==
  /\ At("undo_extents")
  /\ FreeExtents
  /\ pc' = "idle" /\ Tell(cur, "refused")
  /\ UNCHANGED <<process, cur, managed, vrec, arec, volName, ext>>

-----------------------------------------------------------------------------
(* xsan_volume_delete; of a volume that is not in the list it changes nothing *)

\* The allocation record is read; when it cannot be, no extent is freed.
DeleteBegin(v) ==
  /\ At("idle") /\ v \in managed
  /\ cur' = v
  /\ \/ pc' = "free" /\ leaks' = leaks
     \/ Possible("get") /\ pc' = "del_alloc" /\ leaks' = leaks \cup {"get"}
  /\ Tell(v, "pending")
  /\ UNCHANGED <<process, managed, vrec, arec, volName, ext, used>>

DeleteFree ==
  /\ At("free")
  /\ FreeExtents
  /\ pc' = "del_alloc"
  /\ UNCHANGED <<process, cur, managed, vrec, arec, volName, ext, reply>>

DeleteAlloc ==
  /\ At("del_alloc")
  /\ Erase(arec, arec')
  /\ pc' = "del_vol"
  /\ UNCHANGED <<process, cur, managed, vrec, volName, ext, used, reply>>

\* Faulty variant of DeleteVol: the outcome of the store is returned as it is.
DeleteVolReporting ==
  /\ At("del_vol")
  /\ Erase(vrec, vrec')
  /\ managed' = managed \ {cur}
  /\ pc' = "idle" /\ Tell(cur, IF vrec' = vrec THEN "XSAN_ERROR_IO" ELSE "deleted")
  /\ UNCHANGED <<process, cur, arec, volName, ext, used>>

\* The volume leaves the list and the caller is told XSAN_OK even when its
\* record is still there.
DeleteVol ==
  /\ At("del_vol")
  /\ Erase(vrec, vrec')
  /\ managed' = managed \ {cur}
  /\ pc' = "idle" /\ Tell(cur, "deleted")
  /\ UNCHANGED <<process, cur, arec, volName, ext, used>>

-----------------------------------------------------------------------------
(* The process *)

\* xsan_volume_manager_fini waits for vm->lock.
Fini ==
  /\ At("idle")
  /\ process' = "down" /\ managed' = {}
  /\ UNCHANGED <<pc, cur, vrec, arec, volName, ext, used, reply, leaks>>

Crash ==
  /\ Possible("crash") /\ process # "down"
  /\ process' = "down" /\ pc' = "idle" /\ managed' = {}
  /\ leaks' = IF pc = "idle" THEN leaks ELSE leaks \cup {"crash"}
  /\ UNCHANGED <<cur, vrec, arec, volName, ext, used, reply>>

\* xsan_volume_manager_init and load_metadata.  The loader holds vm->lock; after
\* the first volume it appends, _xsan_volume_update_overall_state locks it again.
\* A volume it cannot parse or append is passed over.
Load ==
  /\ process = "down"
  /\ \/ /\ vrec = {} \/ Possible("skip")
        /\ process' = "running" /\ managed' = {}
        /\ leaks' = IF vrec = {} THEN leaks ELSE leaks \cup {"skip"}
     \/ \E v \in vrec : process' = "hung" /\ managed' = {v} /\ leaks' = leaks
  /\ UNCHANGED <<pc, cur, vrec, arec, volName, ext, used, reply>>

VolumeNext == \/ \E v \in VolumeIds : CreateRefused(v) \/ CreateBegin(v) \/ DeleteBegin(v)
              \/ PutAlloc \/ PutVol \/ AppendManaged
              \/ UndoAlloc \/ UndoVol \/ UndoExtents
              \/ DeleteFree \/ DeleteAlloc \/ DeleteVol
              \/ Fini \/ Crash \/ Load

VolumeSpec == VolumeInit /\ [][VolumeNext]_volumeVars

-----------------------------------------------------------------------------
(* Properties *)

\* The types of the process, the operation in progress, the store and the list;
\* the caller is told one of the outcomes create and delete have.
VolumeTypeOK == /\ process \in {"running", "down", "hung"}
                /\ pc \in {"idle"} \cup CreateSteps \cup DeleteSteps
                /\ cur \in VolumeIds
                /\ managed \subseteq VolumeIds /\ vrec \subseteq VolumeIds /\ arec \subseteq VolumeIds
                /\ volName \in [VolumeIds -> Names]
                /\ ext \in [VolumeIds -> SUBSET GroupExtents]
                /\ used \subseteq GroupExtents
                /\ reply \in [VolumeIds -> {"none", "pending", "created", "refused", "deleted"}]
                /\ leaks \subseteq VolumeFaultKinds

\* A volume create reported as created, and nobody asked to delete, keeps both
\* its records and its extents, and shares no extent with another such volume,
\* through every failure, roll-back, deletion and crash around it.
CreatedIsSafe ==
  \A v \in VolumeIds : reply[v] = "created" =>
    /\ v \in vrec /\ v \in arec /\ ext[v] \subseteq used
    /\ \A u \in VolumeIds \ {v} : reply[u] = "created" => ext[u] \cap ext[v] = {}

\* Between operations the list, the records and the allocated extents agree, and
\* no two volumes have one name, unless a step went wrong that the code only
\* logs: failed puts and failed allocations are rolled back completely.
Consistent ==
  At("idle") /\ leaks = {} =>
    /\ managed = vrec /\ managed = arec
    /\ used = UNION {ext[v] : v \in managed}
    /\ \A u, v \in managed : u # v => volName[u] # volName[v]

\* xsan_volume_delete says it deletes the volume: after XSAN_OK no record of it
\* brings it back at the next start.
DeletedIsGone == \A v \in VolumeIds : reply[v] = "deleted" => v \notin vrec

\* xsan_volume_manager_init returns: it does not wait for a lock it holds.
InitReturns == process # "hung"
=============================================================================
