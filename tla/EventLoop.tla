------------------------------ MODULE EventLoop ------------------------------
(***************************************************************************)
(* network/event_loop.c: descriptors registered with epoll, the table from *)
(* a descriptor to its callback, and xsan_event_loop_poll, which looks the *)
(* callback up when it comes to an event of the batch epoll_wait returned. *)
(* By then an earlier callback of the batch may have removed, closed or    *)
(* reused the descriptor.  The loop belongs to one thread: what changes    *)
(* between two events of a batch is the work of a callback.                *)
(***************************************************************************)
EXTENDS Naturals, Sequences, FiniteSets

CONSTANTS Fds,         \* descriptors, small numbers
          Handlers,    \* callbacks a caller may register
          NoHandler,   \* NULL
          FirstMap,    \* XSAN_EVENT_LOOP_DEFAULT_MAP_SIZE
          MapLimit,    \* the largest table, 1024 * 1024 entries in the code
          MaxEvents,   \* max_events_per_poll
          MaxFiles     \* bound: the files ever opened

ASSUME EventAssumption == /\ Fds \subseteq Nat
                          /\ NoHandler \notin Handlers
                          /\ FirstMap \in Nat \ {0} /\ MapLimit \in Nat
                          /\ MaxEvents \in Nat \ {0} /\ MaxFiles \in Nat

VARIABLES loop,      \* the caller holds a loop
          fdMap,     \* fd_data_map: the callback of each descriptor
          mapSize,   \* fd_data_map_capacity
          files,     \* the file open at each descriptor, numbered in order of opening; 0: none
          opened,    \* how many files were opened
          interest,  \* epoll's own record: the file registered at each descriptor; 0: none
          owner,     \* history: the file each callback of the table was registered for
          batch,     \* the events of the current poll still to be delivered
          running,   \* a callback of the current batch has been called
          readded,   \* history: descriptors registered anew since epoll_wait returned
          lastCall   \* history: the last call of the batch: the files of its event and of its callback

eventVars == <<loop, fdMap, mapSize, files, opened, interest, owner, batch, running, readded, lastCall>>

EventInit == /\ loop = FALSE
             /\ fdMap = [fd \in Fds |-> NoHandler] /\ mapSize = 0
             /\ files = [fd \in Fds |-> 0] /\ opened = 0
             /\ interest = [fd \in Fds |-> 0] /\ owner = [fd \in Fds |-> 0]
             /\ batch = <<>> /\ running = FALSE /\ readded = {}
             /\ lastCall = <<>>

\* The caller's code runs outside xsan_event_loop_poll or inside a callback of it.
CallerRuns == batch = <<>> \/ running

\* xsan_event_loop_create; a failure leaves nothing behind.
LoopCreate == /\ ~loop
              /\ loop' = TRUE
              /\ mapSize' = FirstMap
              /\ UNCHANGED <<fdMap, files, opened, interest, owner, batch, running, readded, lastCall>>

\* xsan_event_loop_destroy, not from within a callback.
LoopDestroy == /\ loop /\ batch = <<>>
               /\ loop' = FALSE /\ mapSize' = 0
               /\ fdMap' = [fd \in Fds |-> NoHandler]
               /\ interest' = [fd \in Fds |-> 0]
               /\ owner' = [fd \in Fds |-> 0]
               /\ UNCHANGED <<files, opened, batch, running, readded, lastCall>>

\* The caller opens a file at a free descriptor, or closes one: epoll forgets it.
OpenFile(fd) == /\ CallerRuns /\ files[fd] = 0 /\ opened < MaxFiles
                /\ opened' = opened + 1
                /\ files' = [files EXCEPT ![fd] = opened + 1]
                /\ UNCHANGED <<loop, fdMap, mapSize, interest, owner, batch, running, readded, lastCall>>

CloseFile(fd) == /\ CallerRuns /\ files[fd] # 0
                 /\ files' = [files EXCEPT ![fd] = 0]
                 /\ interest' = [interest EXCEPT ![fd] = 0]
                 /\ UNCHANGED <<loop, fdMap, mapSize, opened, owner, batch, running, readded, lastCall>>

\* The size the table is doubled to until it has an entry for fd.
Doubled(fd) == LET grow[n \in 1 .. 2 * (fd + mapSize)] == IF fd < n THEN n ELSE grow[2 * n]
               IN  grow[mapSize]

\* Faulty variant of EnsureMap: the table is enlarged by one entry.
EnsureMapOne(fd) == IF fd < mapSize THEN {mapSize} ELSE {mapSize + 1}

\* ensure_fd_map_capacity: the sizes the table may have after a success.
EnsureMap(fd) == IF fd < mapSize THEN {mapSize} ELSE {Doubled(fd)} \cap (0 .. MapLimit)

Store(fd, h) == /\ fdMap' = [fdMap EXCEPT ![fd] = h]
                /\ owner' = [owner EXCEPT ![fd] = files[fd]]
                /\ interest' = [interest EXCEPT ![fd] = files[fd]]

\* The table may have grown when the call fails after that, in epoll_ctl.
Rejected(fd) == /\ mapSize' \in EnsureMap(fd)
                /\ UNCHANGED <<fdMap, owner, interest>>

\* xsan_event_loop_add_fd: epoll_ctl refuses a closed descriptor and one it knows.
AddFd(fd, h) ==
  /\ loop /\ CallerRuns
  /\ \/ files[fd] # 0 /\ interest[fd] = 0 /\ mapSize' \in EnsureMap(fd) /\ Store(fd, h)
     \/ (files[fd] = 0 \/ interest[fd] # 0) /\ Rejected(fd)
  /\ readded' = IF interest' = interest THEN readded ELSE readded \cup {fd}
  /\ UNCHANGED <<loop, files, opened, batch, running, lastCall>>

\* xsan_event_loop_modify_fd: epoll_ctl refuses a descriptor it does not know.
ModifyFd(fd, h) ==
  /\ loop /\ CallerRuns
  /\ \/ interest[fd] # 0 /\ mapSize' \in EnsureMap(fd) /\ Store(fd, h)
     \/ interest[fd] = 0 /\ Rejected(fd)
  /\ UNCHANGED <<loop, files, opened, batch, running, readded, lastCall>>

\* xsan_event_loop_remove_fd.  When epoll does not know the descriptor the call fails and
\* changes nothing.
RemoveFd(fd) ==
  /\ loop /\ CallerRuns /\ interest[fd] # 0
  /\ interest' = [interest EXCEPT ![fd] = 0]
  /\ fdMap' = [fdMap EXCEPT ![fd] = NoHandler]
  /\ owner' = [owner EXCEPT ![fd] = 0]
  /\ UNCHANGED <<loop, mapSize, files, opened, batch, running, readded, lastCall>>

\* epoll_wait returns events of some of the registered descriptors.  Interrupted by a
\* signal or failing, it returns none and the poll ends.
PollWait ==
  /\ loop /\ batch = <<>>
  /\ \E fds \in SUBSET {fd \in Fds : interest[fd] # 0} :
       /\ Cardinality(fds) \in 1 .. MaxEvents
       /\ \E order \in [1 .. Cardinality(fds) -> fds] :
            /\ \A fd \in fds : \E i \in DOMAIN order : order[i] = fd
            /\ batch' = [i \in DOMAIN order |-> [fd |-> order[i], file |-> interest[order[i]]]]
  /\ running' = FALSE
  /\ readded' = {}
  /\ lastCall' = <<>>
  /\ UNCHANGED <<loop, fdMap, mapSize, files, opened, interest, owner>>

\* The next event of the batch goes to the callback its descriptor has now.
PollDispatch ==
  /\ batch # <<>>
  /\ LET e == Head(batch)
     IN  IF e.fd < mapSize /\ fdMap[e.fd] # NoHandler
         THEN /\ running' = TRUE
              /\ lastCall' = <<[fd |-> e.fd, event |-> e.file, callback |-> owner[e.fd]]>>
         ELSE UNCHANGED <<running, lastCall>>
  /\ batch' = Tail(batch)
  /\ UNCHANGED <<loop, fdMap, mapSize, files, opened, interest, owner, readded>>

EventNext == \/ LoopCreate \/ LoopDestroy \/ PollWait \/ PollDispatch
             \/ \E fd \in Fds : \/ OpenFile(fd) \/ CloseFile(fd) \/ RemoveFd(fd)
                                \/ \E h \in Handlers : AddFd(fd, h) \/ ModifyFd(fd, h)

EventSpec == EventInit /\ [][EventNext]_eventVars

-----------------------------------------------------------------------------
(* Properties *)

\* Every descriptor epoll watches has a callback inside the table, and an event reaches
\* only a callback that was registered for the very file that had the event, unless
\* the descriptor was registered anew since epoll_wait returned.
EventsReachOwner ==
  /\ \A fd \in Fds : interest[fd] # 0 => fdMap[fd] # NoHandler /\ fd < mapSize
  /\ \A i \in DOMAIN lastCall : LET c == lastCall[i] IN c.event = c.callback \/ c.fd \in readded
=============================================================================
