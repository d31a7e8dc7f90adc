-------------------------------- MODULE Vhost --------------------------------
(***************************************************************************)
(* vhost/xsan_vhost.c: volumes exposed as virtual block devices, and the   *)
(* I/O of guests on them.  xsan_vhost_expose_volume_as_vbdev looks for the *)
(* name and inserts the new device under two acquisitions of the lock, so  *)
(* calls on different SPDK threads interleave in between.  SPDK itself     *)
(* (external) refuses a second device of a name, and runs the destructor   *)
(* of an unregistered device later, once its I/O has ended.                *)
(***************************************************************************)
EXTENDS Naturals, Sequences, FiniteSets

CONSTANTS DeviceNames, \* names callers ask for
          Devices,     \* addresses of xsan_vbdev_t
          Exposers,    \* threads that expose volumes
          GuestIos     \* I/Os of guests

VARIABLES manager,     \* g_volume_manager is set
          deviceList,  \* g_xsan_vbdev_head and what follows
          nameOf,      \* the name of each device in memory; free addresses have none
          registered,  \* devices SPDK knows
          unregistering, \* devices whose destructor is still to run
          expose,      \* how far each exposing call has got
          volumeFreed, \* the exposed volume was deleted; the devices keep their pointer to it
          guest,       \* each guest I/O: its device and how often it was completed
          doubled,     \* history: I/Os the volume manager refused after calling back
          vhostFate    \* "up" or "crashed"

vhostVars == <<manager, deviceList, nameOf, registered, unregistering, expose, volumeFreed,
               guest, doubled, vhostFate>>

Idle == [at |-> "idle"]

VhostInit == /\ manager = FALSE
             /\ deviceList = <<>>
             /\ nameOf = << >>
             /\ registered = {} /\ unregistering = {}
             /\ expose = [t \in Exposers |-> Idle]
             /\ volumeFreed = FALSE
             /\ guest = << >>
             /\ doubled = {}
             /\ vhostFate = "up"

InMemory == DOMAIN nameOf

Freed(d) == [e \in InMemory \ {d} |-> nameOf[e]]

\* The list without the device at position i.
Without(i) == SubSeq(deviceList, 1, i - 1) \o SubSeq(deviceList, i + 1, Len(deviceList))

First(places) == CHOOSE i \in places : \A j \in places : i <= j

Unlink(d) == LET places == {i \in 1 .. Len(deviceList) : deviceList[i] = d}
             IN  IF places = {} THEN deviceList ELSE Without(First(places))

Listed(name) == {i \in 1 .. Len(deviceList) : nameOf[deviceList[i]] = name}

-----------------------------------------------------------------------------
(* Devices *)

\* xsan_vhost_subsystem_init
SubsystemInit == /\ manager' = TRUE
                 /\ UNCHANGED <<deviceList, nameOf, registered, unregistering, expose, volumeFreed,
                                guest, doubled, vhostFate>>

\* Faulty variant of SubsystemFini: only the head of the list is unregistered.
SubsystemFiniHead == /\ manager
                     /\ manager' = FALSE
                     /\ deviceList' = <<>>
                     /\ unregistering' = unregistering \cup {deviceList[i] : i \in {1} \cap DOMAIN deviceList}
                     /\ UNCHANGED <<nameOf, registered, expose, volumeFreed, guest, doubled, vhostFate>>

\* xsan_vhost_subsystem_fini: every listed device is unregistered under the lock.
SubsystemFini == /\ manager
                 /\ manager' = FALSE
                 /\ deviceList' = <<>>
                 /\ unregistering' = unregistering \cup {deviceList[i] : i \in DOMAIN deviceList}
                 /\ UNCHANGED <<nameOf, registered, expose, volumeFreed, guest, doubled, vhostFate>>

\* xsan_vhost_expose_volume_as_vbdev up to the first unlock.
ExposeCheck(t, name) ==
  /\ expose[t].at = "idle" /\ manager /\ ~volumeFreed
  /\ Listed(name) = {}
  /\ expose' = [expose EXCEPT ![t] = [at |-> "checked", name |-> name]]
  /\ UNCHANGED <<manager, deviceList, nameOf, registered, unregistering, volumeFreed, guest,
                 doubled, vhostFate>>

\* What using the pointer to the volume may lead to: once the volume is freed, anything.
VolumeUse == IF volumeFreed THEN {"up", "crashed"} ELSE {"up"}

NameTaken(name) == \E d \in registered : nameOf[d] = name

\* Faulty variant of ExposeRegister: the result of spdk_bdev_register is ignored.
ExposeRegisterAnyway(t) ==
  /\ expose[t].at = "checked"
  /\ \E d \in Devices \ InMemory :
       /\ nameOf' = [e \in InMemory \cup {d} |-> IF e = d THEN expose[t].name ELSE nameOf[e]]
       /\ registered' = IF NameTaken(expose[t].name) THEN registered ELSE registered \cup {d}
       /\ expose' = [expose EXCEPT ![t] = [at |-> "registered", device |-> d]]
  /\ UNCHANGED <<manager, deviceList, unregistering, volumeFreed, guest, doubled, vhostFate>>

\* The device is built from the volume that was looked up before the lock was taken, and
\* registered; no memory, or a refusal of SPDK, frees it again.
ExposeRegister(t) ==
  /\ expose[t].at = "checked"
  /\ \/ /\ ~NameTaken(expose[t].name)
        /\ \E d \in Devices \ InMemory :
             /\ nameOf' = [e \in InMemory \cup {d} |-> IF e = d THEN expose[t].name ELSE nameOf[e]]
             /\ registered' = registered \cup {d}
             /\ expose' = [expose EXCEPT ![t] = [at |-> "registered", device |-> d]]
        /\ vhostFate' = "up"
     \/ /\ expose' = [expose EXCEPT ![t] = Idle]
        /\ vhostFate' \in VolumeUse
        /\ UNCHANGED <<nameOf, registered>>
  /\ UNCHANGED <<manager, deviceList, unregistering, volumeFreed, guest, doubled>>

\* The second acquisition of the lock; then the name of the volume is logged.
ExposeInsert(t) ==
  /\ expose[t].at = "registered"
  /\ deviceList' = <<expose[t].device>> \o deviceList
  /\ expose' = [expose EXCEPT ![t] = Idle]
  /\ vhostFate' \in VolumeUse
  /\ UNCHANGED <<manager, nameOf, registered, unregistering, volumeFreed, guest, doubled>>

\* xsan_vhost_unexpose_volume_vbdev: the first device of the name is unlinked and unregistered.
Unexpose(name) ==
  /\ Listed(name) # {}
  /\ LET first == First(Listed(name))
     IN  /\ deviceList' = Without(first)
         /\ unregistering' = unregistering \cup {deviceList[first]}
  /\ UNCHANGED <<manager, nameOf, registered, expose, volumeFreed, guest, doubled, vhostFate>>

Waiting(d) == \E g \in DOMAIN guest : guest[g].device = d /\ guest[g].completed = 0

\* _xsan_vbdev_destruct
Destruct(d) ==
  /\ d \in unregistering /\ ~Waiting(d)
  /\ deviceList' = Unlink(d)
  /\ nameOf' = Freed(d)
  /\ registered' = registered \ {d}
  /\ unregistering' = unregistering \ {d}
  /\ UNCHANGED <<manager, expose, volumeFreed, guest, doubled, vhostFate>>

\* xsan_volume_delete in the volume manager; nobody asks whether the volume is exposed.
VolumeDelete == /\ ~volumeFreed
                /\ volumeFreed' = TRUE
                /\ UNCHANGED <<manager, deviceList, nameOf, registered, unregistering, expose, guest,
                               doubled, vhostFate>>

-----------------------------------------------------------------------------
(* Guest I/O *)

Issue(g, d, n) == guest' = [h \in DOMAIN guest \cup {g} |->
                              IF h = g THEN [device |-> d, completed |-> n] ELSE guest[h]]

Completes(g) == guest' = [guest EXCEPT ![g].completed = @ + 1]

\* _xsan_vbdev_submit_request.  Completed at once: no memory, nothing to do, no buffers
\* given, or an error of the volume manager.  Left to the callback.  Or the volume manager
\* calls back and returns an error as well: the context is freed and the I/O completed twice.
GuestSubmit(g, d) ==
  /\ d \in registered \ unregistering /\ g \notin DOMAIN guest
  /\ \/ Issue(g, d, 1) /\ UNCHANGED <<doubled, vhostFate>>
     \/ manager /\ ~volumeFreed /\ Issue(g, d, 0) /\ UNCHANGED <<doubled, vhostFate>>
     \/ /\ manager /\ ~volumeFreed
        /\ Issue(g, d, 2)
        /\ doubled' = doubled \cup {g}
        /\ vhostFate' = "crashed"
  /\ UNCHANGED <<manager, deviceList, nameOf, registered, unregistering, expose, volumeFreed>>

\* _xsan_vbdev_io_complete_cb.  After an error it logs the name of the volume, which may
\* have been freed.
GuestComplete(g) ==
  /\ g \in DOMAIN guest /\ guest[g].completed = 0
  /\ Completes(g)
  /\ vhostFate' \in VolumeUse
  /\ UNCHANGED <<manager, deviceList, nameOf, registered, unregistering, expose, volumeFreed, doubled>>

VhostNext ==
  /\ vhostFate = "up"
  /\ \/ SubsystemInit \/ SubsystemFini \/ VolumeDelete
     \/ \E t \in Exposers : \/ ExposeRegister(t) \/ ExposeInsert(t)
                            \/ \E n \in DeviceNames : ExposeCheck(t, n)
     \/ \E n \in DeviceNames : Unexpose(n)
     \/ \E d \in Devices : Destruct(d) \/ \E g \in GuestIos : GuestSubmit(g, d)
     \/ \E g \in GuestIos : GuestComplete(g)

VhostSpec == VhostInit /\ [][VhostNext]_vhostVars

-----------------------------------------------------------------------------
(* Properties *)

\* Although the look for a name and the insertion are separate, no two devices of the list
\* have the same name, every one of them is in memory and registered with SPDK, and
\* none is about to be destructed.
DeviceListSound ==
  /\ \A i, j \in DOMAIN deviceList : i # j => nameOf[deviceList[i]] # nameOf[deviceList[j]]
  /\ \A i \in DOMAIN deviceList : deviceList[i] \in registered \ unregistering

\* The places a registered device can be in: on the list, in the hands of one thread that
\* is about to insert it, waiting for its destructor.
Places(d) == {<<"list", i>> : i \in {i \in DOMAIN deviceList : deviceList[i] = d}}
             \cup {<<"thread", t>> : t \in {t \in Exposers : expose[t].at = "registered" /\ expose[t].device = d}}
             \cup (IF d \in unregistering THEN {<<"leaving", d>>} ELSE {})

\* No device is lost and none is reached twice, whatever calls of expose, unexpose and fini
\* overlap: the devices in memory are those SPDK knows, and each is in one place.
NoDeviceLost == /\ InMemory = registered
                /\ \A d \in registered : Cardinality(Places(d)) = 1

\* xsan_volume_delete refuses a volume that is in use: no guest waits for an I/O on a
\* volume that was deleted.
DeletedIsUnused == volumeFreed => \A g \in DOMAIN guest : guest[g].completed > 0
=============================================================================
