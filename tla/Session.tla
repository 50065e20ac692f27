------------------------------- MODULE Session -------------------------------
(***************************************************************************)
(* The server of fs/tfs_server.c, one thread that serves the requests of   *)
(* all clients in the order of its pipe, and the clients of                *)
(* client/tecnicofs_client_api.c, each blocked in one call at a time.  Of  *)
(* the file system behind the server there are the open handles, and where *)
(* the offset of each stands.                                              *)
(***************************************************************************)
EXTENDS Integers, Sequences, FiniteSets

CONSTANTS
  Clients,           \* the client processes
  NoClient,          \* a descriptor that leads to no client
  MAX_OPEN_FILES,    \* fs/config.h
  ClientCalls,       \* the calls clients make once they are mounted
  PipeRoom,          \* bound: the requests that wait in the server's pipe
  ClientsDie         \* may a client process end at any point?

Handles == 0 .. MAX_OPEN_FILES - 1

ASSUME SessionAssumption ==
  /\ NoClient \notin Clients /\ MAX_OPEN_FILES \in Nat \ {0}
  /\ PipeRoom \in Nat \ {0}
  /\ ClientCalls \subseteq {"open", "close", "write", "read", "unmount", "shutdown"}
  /\ ClientsDie \in BOOLEAN

VARIABLES
  pc,        \* where each client stands
  call,      \* the call each client makes, or made last
  id,        \* the variable id of each client
  requests,  \* the server's pipe
  inbox,     \* the pipe of each client
  writers,   \* the clients that hold the server's pipe open
  ends,      \* the clients whose pipe the server holds open
  fcl,       \* the client the server's variable fcl leads to
  ses_id,    \* -1, a client, or -2 after an unmount; SES_ID is 1
  server,    \* "up", "hung" in a call that never returns, or "stopped"
  open,      \* the open handles of the file system
  offset     \* where of_offset of each handle stands: "within" its file, "ahead"
             \* of its end, or "past" the block

clientVars == <<pc, call, id, writers>>
files == <<open, offset>>
serverVars == <<inbox, ends, fcl, ses_id, server, files>>
vars == <<clientVars, serverVars, requests>>

NoCall == [op |-> "none", fh |-> -1]

\* ses_id[0] is -1, every id a zeroed global.
Init ==
  /\ pc = [c \in Clients |-> "outside"]
  /\ call = [c \in Clients |-> NoCall]
  /\ id = [c \in Clients |-> 0]
  /\ requests = <<>>
  /\ inbox = [c \in Clients |-> <<>>]
  /\ writers = {} /\ ends = {}
  /\ fcl = NoClient /\ ses_id = -1
  /\ server = "up" /\ open = {} /\ offset = [h \in Handles |-> "within"]

-----------------------------------------------------------------------------
(***************************************************************************)
(* The client.                                                             *)
(***************************************************************************)

\* A write to a pipe without a reader ends the process (SIGPIPE); a write to
\* a full one waits.
Send(c, op, fh, label, request) ==
  /\ call' = [call EXCEPT ![c] = [op |-> op, fh |-> fh]]
  /\ IF server = "stopped"
     THEN /\ pc' = [pc EXCEPT ![c] = "gone"]
          /\ writers' = writers \ {c}
          /\ UNCHANGED requests
     ELSE /\ Len(requests) < PipeRoom
          /\ pc' = [pc EXCEPT ![c] = label]
          /\ writers' = writers \cup {c}
          /\ requests' = Append(requests, request)
  /\ UNCHANGED id

\* Mutant: the two numbers of a request are swapped.
SwapsFields(c, op, session, fh) ==
  [from |-> c, op |-> op, id |-> fh, fh |-> session]

Request(c, op, session, fh) ==
  [from |-> c, op |-> op, id |-> session, fh |-> fh]

\* tfs_mount: a new pipe, the request, and an open that waits for the server
\* to open the other end.  Without a server the open of its pipe blocks.
Mount(c) ==
  /\ pc[c] = "outside" /\ server # "stopped"
  /\ Send(c, "mount", -1, "opening", Request(c, "mount", 0, -1))
  /\ inbox' = [inbox EXCEPT ![c] = <<>>]
  /\ UNCHANGED <<ends, fcl, ses_id, server, files>>

\* Only the low byte of id is copied into an unmount: -3 is any other id.
UnmountId(c) == {id[c], -3}

\* tfs_close writes the handle three bytes to the right of where the server
\* reads it: its low byte arrives as the high one, above three bytes never
\* written, so handle 0 arrives as any number and any other handle as one out of
\* range (-1).  The three bytes left in the pipe are 0 or 255, which are no
\* opcodes: the loop of the server ignores them.
HandleOnTheWire(fh) == IF fh = 0 THEN Handles \cup {-1} ELSE {-1}

\* tfs_shutdown_after_all_closed sends five bytes of a buffer never written.
\* The opcode of tfs_mount comes without a path ("nopath"); other opcodes wait
\* for bytes that do not come ("partial").
Unwritten(c) ==
  {Request(c, op, session, -1) :
     op \in {"ignored", "nopath", "unmount", "shutdown", "partial"}, session \in {0, -3}}

Call(c) ==
  /\ pc[c] = "mounted"
  /\ \E op \in ClientCalls, fh \in Handles \cup {-1} :
       /\ op \notin {"close", "write", "read"} => fh = -1
       /\ \E request \in
            CASE op = "close"    -> {Request(c, op, id[c], h) : h \in HandleOnTheWire(fh)}
              [] op = "unmount"  -> {Request(c, op, i, -1) : i \in UnmountId(c)}
              [] op = "shutdown" -> Unwritten(c)
              [] OTHER           -> {Request(c, op, id[c], fh)} :
            Send(c, op, fh, "waiting", request)
  /\ UNCHANGED serverVars

\* Mutant: tfs_read leaves the bytes that follow the length in the pipe.
AfterLength(op) == IF op = "unmount" THEN "outside" ELSE "mounted"

\* tfs_read goes on to read the bytes; the server's pipe stays open.
AfterReply(op) == CASE op = "unmount" -> "outside"
                    [] op = "read"    -> "filling"
                    [] OTHER          -> "mounted"

\* The answer n arrives: a mount and a close store it in id, whatever it is.
\* Nothing the client does later depends on what its calls return.
Accept(c, n) ==
  LET op == call[c].op
  IN  /\ pc' = [pc EXCEPT ![c] = AfterReply(op)]
      /\ id' = IF op \in {"mount", "close"} THEN [id EXCEPT ![c] = n] ELSE id
      /\ UNCHANGED <<call, writers>>

\* read finds no writer and returns 0: id, a global, stays what it was.
Hangup(c) ==
  /\ inbox[c] = <<>> /\ c \notin ends
  /\ Accept(c, id[c])
  /\ UNCHANGED <<inbox, requests>>

Receive(c) ==
  /\ pc[c] = "waiting"
  /\ \/ Hangup(c)
     \/ /\ inbox[c] # <<>>
        /\ Accept(c, Head(inbox[c]).ret)
        /\ inbox' = [inbox EXCEPT ![c] = Tail(@)]
        /\ UNCHANGED requests
  /\ UNCHANGED <<ends, fcl, ses_id, server, files>>

\* The second read of tfs_read.
Fill(c) ==
  /\ pc[c] = "filling"
  /\ inbox[c] # <<>> \/ c \notin ends
  /\ inbox' = [inbox EXCEPT ![c] = IF @ = <<>> THEN @ ELSE Tail(@)]
  /\ pc' = [pc EXCEPT ![c] = "mounted"]
  /\ UNCHANGED <<call, id, writers, requests, ends, fcl, ses_id, server, files>>

\* The process ends, after its last call or in the middle of one: both its
\* descriptors are closed.
Die(c) ==
  /\ ClientsDie /\ c \in writers
  /\ pc' = [pc EXCEPT ![c] = "gone"]
  /\ writers' = writers \ {c}
  /\ UNCHANGED <<call, id, requests, serverVars>>

-----------------------------------------------------------------------------
(***************************************************************************)
(* The server.                                                             *)
(***************************************************************************)

Stop == server' = "stopped" /\ ends' = {}

\* Write each answer to fcl: the server ends if the client is gone, and the
\* answer is lost if the descriptor is closed.
Respond(r, answers) ==
  /\ UNCHANGED <<fcl, ses_id>>
  /\ IF fcl \in ends
     THEN IF pc[fcl] = "gone"
          THEN Stop /\ UNCHANGED inbox
          ELSE /\ inbox' = [inbox EXCEPT ![fcl] =
                    @ \o [k \in DOMAIN answers |-> [to |-> r.from, op |-> r.op,
                                                    ret |-> answers[k]]]]
               /\ UNCHANGED <<ends, server>>
     ELSE UNCHANGED <<inbox, ends, server>>

\* tfs_sv_mount.  The open of a pipe nobody reads never returns.  fcl is the
\* new client from here on, also when there is no free session; then nothing
\* is written, and mtx[-2] is memory before the array.
ServeMount(r) ==
  IF pc[r.from] # "opening"
  THEN server' = "hung" /\ UNCHANGED <<inbox, ends, fcl, ses_id, files, pc>>
  ELSE /\ pc' = [pc EXCEPT ![r.from] = "waiting"]
       /\ fcl' = r.from
       /\ UNCHANGED files
       /\ IF ses_id = -1
          THEN /\ ses_id' = r.from
               /\ ends' = ends \cup {r.from}
               /\ inbox' = [inbox EXCEPT ![r.from] =
                    Append(@, [to |-> r.from, op |-> "mount", ret |-> 0])]
               /\ UNCHANGED server
          ELSE /\ UNCHANGED <<ses_id, inbox>>
               /\ \/ ends' = ends \cup {r.from} /\ UNCHANGED server
                  \/ Stop

\* The open of a path that names nothing fails, and fcl is -1 from here on.
ServeNoPath(r) ==
  fcl' = NoClient /\ UNCHANGED <<inbox, ends, ses_id, server, files, pc>>

\* tfs_sv_unmount: the slot becomes -2, which ses() never takes again, unless
\* the id is wild; whatever fcl leads to is closed; no answer.
ServeUnmount(r) ==
  /\ ses_id' = IF r.id = 0 THEN -2 ELSE ses_id
  /\ ends' = ends \ {fcl}
  /\ UNCHANGED <<inbox, fcl, server, files, pc>>

\* tfs_open with TFS_O_TRUNC leaves the handles of the file, open or closed,
\* ahead of its end.  Which handles are those of one file is not in the model.
Truncated(S) ==
  [h \in Handles |-> IF h \in S /\ offset[h] = "within" THEN "ahead" ELSE offset[h]]

\* Mutant: the table of open files has no end.
OpensWithoutLimit(r) ==
  /\ open' = open \cup {Cardinality(open)}
  /\ Respond(r, <<Cardinality(open)>>)
  /\ UNCHANGED <<offset, pc>>

\* tfs_sv_open: a free handle, or -1, also after a truncation.
ServeOpen(r) ==
  /\ \E S \in SUBSET Handles :
       \/ \E h \in Handles \ open :
            /\ \A k \in Handles \ open : h <= k
            /\ open' = open \cup {h}
            /\ offset' = [Truncated(S) EXCEPT ![h] = "within"]
            /\ Respond(r, <<h>>)
       \/ UNCHANGED open /\ offset' = Truncated(S) /\ Respond(r, <<-1>>)
  /\ UNCHANGED pc

ServeClose(r) ==
  /\ open' = open \ {r.fh}
  /\ Respond(r, <<IF r.fh \in open THEN 0 ELSE -1>>)
  /\ UNCHANGED <<offset, pc>>

Stands(r) == IF r.fh \in Handles THEN offset[r.fh] ELSE "within"

\* What tfs_write and tfs_read return, if they do, -1 for every handle out of
\* range.
Outcomes(r) == IF r.fh \in Handles THEN {-1, 0} ELSE {-1}

\* The file that is written grows: handles ahead of its end are so no more.
Extended(S) ==
  [h \in Handles |-> IF h \in S /\ offset[h] = "ahead" THEN "within" ELSE offset[h]]

\* The copy of tfs_write or tfs_read runs off the memory of the process.
Crash == Stop /\ UNCHANGED <<inbox, fcl, ses_id, offset>>

\* Mutant: a write that fails is not answered.
AnswersOnlySuccess(r) ==
  /\ \/ Stands(r) = "past" /\ Crash
     \/ \E n \in Outcomes(r), S \in SUBSET Handles :
          /\ Stands(r) = "past" => n = -1
          /\ n = -1 => S = {}
          /\ offset' = Extended(S)
          /\ Respond(r, IF n = -1 THEN <<>> ELSE <<n>>)
  /\ UNCHANGED <<open, pc>>

\* With an offset past the block BLOCK_SIZE - of_offset wraps, and memcpy gets a
\* length near 2^64, unless the file has no block and gets none.
ServeWrite(r) ==
  /\ \/ Stands(r) = "past" /\ Crash
     \/ \E n \in Outcomes(r), S \in SUBSET Handles :
          /\ Stands(r) = "past" => n = -1
          /\ n = -1 => S = {}
          /\ offset' = Extended(S)
          /\ Respond(r, <<n>>)
  /\ UNCHANGED <<open, pc>>

\* tfs_sv_read writes the length and then len bytes, also after a failure.  With
\* an offset ahead of the end i_size - of_offset wraps: the len bytes come from
\* beyond the file, or from beyond the memory, and the offset moves on.
ServeRead(r) ==
  /\ \/ \E n \in Outcomes(r) :
          /\ Respond(r, <<n, n>>)
          /\ \/ UNCHANGED offset
             \/ /\ n = 0 /\ Stands(r) = "ahead"
                /\ offset' = [offset EXCEPT ![r.fh] = "past"]
     \/ Stands(r) # "within" /\ Crash
  /\ UNCHANGED <<open, pc>>

\* tfs_sv_shutdownafterclose waits in the only thread; the answer goes to the
\* descriptor whose number is id, which is no client's, and the server goes on.
ServeShutdown(r) ==
  /\ server' = IF open = {} THEN server ELSE "hung"
  /\ UNCHANGED <<inbox, ends, fcl, ses_id, files, pc>>

\* pthread_mutex_lock(&mtx[id]) with an id other than 0, memory outside the
\* array: the handler goes on, the lock never comes, or the process ends.
WildLock(r) ==
  /\ r.op \in {"unmount", "open", "close", "write", "read", "shutdown"}
  /\ r.id # 0
  /\ \/ server' = "hung" /\ UNCHANGED ends
     \/ Stop
  /\ UNCHANGED <<inbox, fcl, ses_id, files, pc>>

Serve ==
  /\ server = "up" /\ requests # <<>>
  /\ requests' = Tail(requests)
  /\ LET r == Head(requests)
     IN  \/ WildLock(r)
         \/ r.op = "mount"    /\ ServeMount(r)
         \/ r.op = "nopath"   /\ ServeNoPath(r)
         \/ r.op = "unmount"  /\ ServeUnmount(r)
         \/ r.op = "open"     /\ ServeOpen(r)
         \/ r.op = "close"    /\ ServeClose(r)
         \/ r.op = "write"    /\ ServeWrite(r)
         \/ r.op = "read"     /\ ServeRead(r)
         \/ r.op = "shutdown" /\ ServeShutdown(r)
         \/ r.op = "ignored"  /\ UNCHANGED <<serverVars, pc>>
         \/ r.op = "partial"  /\ server' = "hung"
                              /\ UNCHANGED <<inbox, ends, fcl, ses_id, files, pc>>
  /\ UNCHANGED <<call, id, writers>>

\* The last process that held the server's pipe has ended: read returns 0.
Exit ==
  /\ server = "up" /\ requests = <<>> /\ writers = {}
  /\ \E c \in Clients : pc[c] = "gone"
  /\ Stop
  /\ UNCHANGED <<clientVars, requests, inbox, fcl, ses_id, files>>

Next ==
  \/ \E c \in Clients : Mount(c) \/ Call(c) \/ Receive(c) \/ Fill(c) \/ Die(c)
  \/ Serve \/ Exit

Spec == Init /\ [][Next]_vars

\* The server and a client whose answer has come are scheduled; no client has
\* to make a call or to end.
FairSpec ==
  Spec /\ WF_vars(Serve) /\ \A c \in Clients : WF_vars(Receive(c)) /\ WF_vars(Fill(c))

-----------------------------------------------------------------------------
InCall(c) == pc[c] \in {"opening", "waiting", "filling"}

\* Every variable holds values of its kind; no handle is beyond the table.
TypeOK ==
  /\ pc \in [Clients -> {"outside", "opening", "waiting", "filling", "mounted", "gone"}]
  /\ \A c \in Clients : id[c] \in Handles \cup {-1}
  /\ writers \subseteq Clients /\ ends \subseteq Clients
  /\ fcl \in Clients \cup {NoClient}
  /\ server \in {"up", "hung", "stopped"}
  /\ open \subseteq Handles
  /\ offset \in [Handles -> {"within", "ahead", "past"}]

\* While the server serves one client, and until it closes the pipe of that
\* client, each call has one request and then its own answer under way, and
\* nothing is left in either pipe when it returns: the client never takes the
\* answer of an earlier call.
AnswersMatchCalls ==
  server = "up" =>
    \A c \in ends :
      LET asked == {k \in DOMAIN requests : requests[k].from = c}
      IN  /\ pc[c] \in {"mounted", "outside"} => asked = {} /\ inbox[c] = <<>>
          /\ InCall(c) => \A j, k \in asked : j = k
          /\ pc[c] # "gone" /\ asked # {} => inbox[c] = <<>>
          /\ \A k \in DOMAIN inbox[c] :
               pc[c] # "gone" => inbox[c][k].op = call[c].op

\* The server has a session for this client, or will give it one; it is not
\* asked to shut down, which it may do only when no file is open.
Served(c) ==
  /\ server = "up" /\ call[c].op # "shutdown"
  /\ IF call[c].op = "mount" THEN pc[c] = "opening" /\ ses_id = -1 ELSE c \in ends

\* Every other call returns, the ones that fail too, unless its client ends,
\* or the server does or hangs: the one way a served client may still wait is
\* on a server that is not up.
CallsReturn == \A c \in Clients : InCall(c) /\ Served(c) ~> ~InCall(c) \/ server # "up"

\* A client that has neither unmounted nor asked for a shutdown, all of whose
\* closes have succeeded (id holds the answer to the last), that writes and reads
\* through open handles, or -1, and that does not end with a request or an
\* answer under way.
Careful(c) ==
  /\ call[c].op \notin {"unmount", "shutdown"} /\ id[c] = 0
  /\ InCall(c) /\ call[c].op \in {"write", "read"} => call[c].fh \in open \cup {-1}
  /\ pc[c] = "gone" => inbox[c] = <<>> /\ \A k \in DOMAIN requests : requests[k].from # c

\* No file is truncated while a handle that is open is beyond its start.
OpenFilesKept == \A h \in open : offset[h] # "ahead"

\* Careful clients that truncate no file they have open never make the server
\* hang, or end before they all have: neither the lock of a session, nor the pipe
\* of a client that has ended between its calls, nor an answer left for it, nor an
\* offset that has come past its block by reads and writes stands in its way.
CarefulClientsKeepTheServer ==
  [](OpenFilesKept /\ \A c \in Clients : Careful(c)) =>
    [](server = "up" \/ (server = "stopped" /\ writers = {}))

\* "Returns 0 if successful, -1 otherwise": tfs_mount returns, also to a client
\* that there is no session for.
MountReturns ==
  \A c \in Clients : (InCall(c) /\ call[c].op = "mount" ~> ~InCall(c))

\* "a named pipe that will be used for the client to receive responses": the
\* pipe of a client holds answers to its own requests only.
AnswersReachTheAsker ==
  \A c \in Clients : \A k \in DOMAIN inbox[c] : inbox[c][k].to = c
=============================================================================
