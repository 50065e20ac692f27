---------------------------- MODULE Session_proofs ----------------------------
(***************************************************************************)
(* What the server of sessions and its clients keep, for any number of     *)
(* clients and handles and a pipe of any size.                             *)
(***************************************************************************)
EXTENDS Session, SequenceTheorems, TLAPS

-----------------------------------------------------------------------------
(***************************************************************************)
(* The types.                                                              *)
(***************************************************************************)

\* The requests the server writes an answer to, and those it does not.
Answered   == {"mount", "open", "close", "write", "read"}
Unanswered == {"nopath", "unmount", "shutdown", "ignored", "partial"}

Requests == [from : Clients, op : Answered \cup Unanswered,
             id : Handles \cup {-1, -3}, fh : Handles \cup {-1}]

Returned == Handles \cup {-1}

Answers == [to : Clients, op : Answered, ret : Returned]

Types ==
  /\ TypeOK
  /\ id \in [Clients -> Returned]
  /\ call \in [Clients -> [op : {"none", "mount"} \cup ClientCalls, fh : Returned]]
  /\ requests \in Seq(Requests)
  /\ inbox \in [Clients -> Seq(Answers)]

\* What tfs_mount or another call puts in the pipe is a request of its client.
LEMMA RequestTyped ==
  ASSUME NEW c \in Clients, NEW op \in Answered \cup Unanswered,
         NEW session \in Handles \cup {-1, -3}, NEW fh \in Returned
  PROVE  /\ Request(c, op, session, fh) \in Requests
         /\ Request(c, op, session, fh).from = c
         /\ Request(c, op, session, fh).op = op
         /\ Request(c, op, session, fh).id = session
         /\ Request(c, op, session, fh).fh = fh
  BY DEF Request, Requests, Returned

LEMMA HandleZero == 0 \in Handles
  BY SessionAssumption DEF Handles

\* A call other than a mount sends one request.  Only tfs_unmount and
\* tfs_shutdown send another opcode or another id than their own, and the handle
\* of a write or a read arrives as it is.
LEMMA CallSends ==
  ASSUME Types, NEW c \in Clients, Call(c)
  PROVE  \E op \in ClientCalls, fh \in Returned, request \in Requests :
           /\ Send(c, op, fh, "waiting", request)
           /\ request.from = c /\ request.op # "mount"
           /\ request.op \in Answered => request.op = op
           /\ op \notin {"unmount", "shutdown"} => request.op = op /\ request.id = id[c]
           /\ op \in {"write", "read"} => request.fh = fh
  <1>1. PICK op \in ClientCalls, fh \in Returned :
          \E request \in
            CASE op = "close"    -> {Request(c, op, id[c], h) : h \in HandleOnTheWire(fh)}
              [] op = "unmount"  -> {Request(c, op, i, -1) : i \in UnmountId(c)}
              [] op = "shutdown" -> Unwritten(c)
              [] OTHER           -> {Request(c, op, id[c], fh)} :
            Send(c, op, fh, "waiting", request)
    BY DEF Call, Returned
  <1>2. op \in {"open", "close", "write", "read", "unmount", "shutdown"}
    BY SessionAssumption
  <1>3. id[c] \in Returned /\ -1 \in Returned /\ 0 \in Returned
    BY HandleZero DEF Types, Returned
  <1>4. CASE op = "close"
    <2>1. PICK h \in HandleOnTheWire(fh) : Send(c, op, fh, "waiting", Request(c, op, id[c], h))
      BY <1>1, <1>4
    <2>2. h \in Returned
      BY DEF HandleOnTheWire, Returned
    <2> QED
      BY <1>3, <1>4, <2>1, <2>2, RequestTyped DEF Answered, Returned
  <1>5. CASE op = "unmount"
    <2>1. PICK i \in UnmountId(c) : Send(c, op, fh, "waiting", Request(c, op, i, -1))
      BY <1>1, <1>5
    <2>2. i \in Handles \cup {-1, -3}
      BY <1>3 DEF UnmountId, Returned
    <2>3. /\ Request(c, op, i, -1) \in Requests /\ Request(c, op, i, -1).from = c
          /\ Request(c, op, i, -1).op = op
      <3>1. op \in Answered \cup Unanswered
        BY <1>5 DEF Unanswered
      <3> QED
        BY <1>3, <2>2, <3>1, RequestTyped
    <2> QED
      BY <1>5, <2>1, <2>3 DEF Answered
  <1>6. CASE op = "shutdown"
    <2>1. PICK o \in Unanswered, session \in {0, -3} :
            Send(c, op, fh, "waiting", Request(c, o, session, -1))
      BY <1>1, <1>6 DEF Unwritten, Unanswered
    <2>2. /\ Request(c, o, session, -1) \in Requests /\ Request(c, o, session, -1).from = c
          /\ Request(c, o, session, -1).op = o
      BY <1>3, HandleZero, RequestTyped
    <2> QED
      BY <1>6, <2>1, <2>2 DEF Answered, Unanswered
  <1>7. CASE op \in {"open", "write", "read"}
    <2> DEFINE request == Request(c, op, id[c], fh)
    <2>1. Send(c, op, fh, "waiting", request)
      BY <1>1, <1>7
    <2>2. op \in Answered
      BY <1>7 DEF Answered
    <2>3. /\ request \in Requests /\ request.from = c /\ request.op = op
          /\ request.id = id[c] /\ request.fh = fh
      <3>1. /\ op \in Answered \cup Unanswered /\ fh \in Returned
            /\ id[c] \in Handles \cup {-1, -3}
        BY <1>3, <2>2 DEF Returned
      <3> QED
        BY <3>1, RequestTyped
    <2> HIDE DEF request
    <2> QED
      BY <1>7, <2>1, <2>2, <2>3
  <1> QED
    BY <1>2, <1>4, <1>5, <1>6, <1>7

\* n answers to r go to the client fcl leads to, end the server, or are lost.
Answer(r, n) ==
  /\ fcl \in ends /\ pc[fcl] # "gone"
  /\ ends' = ends /\ server' = server
  /\ \E out \in Seq(Answers) :
       /\ Len(out) = n
       /\ \A k \in 1 .. Len(out) : out[k].op = r.op
       /\ inbox' = [inbox EXCEPT ![fcl] = @ \o out]

LoseAnswer(r) == inbox' = inbox /\ (Stop \/ (ends' = ends /\ server' = server))

LEMMA RespondAfter ==
  ASSUME Types, NEW r \in Requests, r.op \in Answered,
         NEW answers \in Seq(Returned), Respond(r, answers)
  PROVE  Answer(r, Len(answers)) \/ LoseAnswer(r)
  <1> DEFINE out == [k \in DOMAIN answers |-> [to |-> r.from, op |-> r.op, ret |-> answers[k]]]
  <1>1. DOMAIN answers = 1 .. Len(answers) /\ Len(answers) \in Nat
    OBVIOUS
  <1>2. \A k \in 1 .. Len(answers) : out[k] \in Answers /\ out[k].op = r.op
    BY <1>1 DEF Answers, Requests
  <1>3. out \in Seq(Answers) /\ Len(out) = Len(answers)
    <2>1. out = [k \in 1 .. Len(answers) |-> out[k]]
      BY <1>1
    <2> HIDE DEF out
    <2> QED
      BY <1>1, <1>2, <2>1, IsASeq
  <1>4. CASE fcl \in ends /\ pc[fcl] # "gone"
    <2>1. ends' = ends /\ server' = server /\ inbox' = [inbox EXCEPT ![fcl] = @ \o out]
      BY <1>4 DEF Respond
    <2> HIDE DEF out
    <2> QED
      BY <1>2, <1>3, <1>4, <2>1 DEF Answer
  <1>5. CASE ~ (fcl \in ends /\ pc[fcl] # "gone")
    BY <1>5 DEF Respond, LoseAnswer
  <1> QED
    BY <1>4, <1>5

\* A client in its call sends one request: it waits, or ends with the server.
LEMMA SendTypes ==
  ASSUME Types, NEW c \in Clients, NEW op \in {"mount"} \cup ClientCalls,
         NEW fh \in Returned, NEW label \in {"opening", "waiting"},
         NEW request \in Requests, Send(c, op, fh, label, request),
         inbox' \in [Clients -> Seq(Answers)], UNCHANGED <<ends, fcl, server, files>>
  PROVE  Types'
  <1>1. requests' \in Seq(Requests)
    <2>1. requests' = requests \/ requests' = Append(requests, request)
      BY DEF Send
    <2>2. requests \in Seq(Requests)
      BY DEF Types
    <2>3. Append(requests, request) \in Seq(Requests)
      BY <2>2, AppendProperties
    <2> QED
      BY <2>1, <2>2, <2>3
  <1>2. call' \in [Clients -> [op : {"none", "mount"} \cup ClientCalls, fh : Returned]]
    <2>1. call' = [call EXCEPT ![c] = [op |-> op, fh |-> fh]]
      BY DEF Send
    <2>2. [op |-> op, fh |-> fh] \in [op : {"none", "mount"} \cup ClientCalls, fh : Returned]
      OBVIOUS
    <2> QED
      BY <2>1, <2>2 DEF Types
  <1>3. pc' \in [Clients -> {"outside", "opening", "waiting", "filling", "mounted", "gone"}]
    <2>1. pc' = [pc EXCEPT ![c] = "gone"] \/ pc' = [pc EXCEPT ![c] = label]
      BY DEF Send
    <2> QED
      BY <2>1 DEF Types, TypeOK
  <1>4. writers' \subseteq Clients /\ id' = id
    BY DEF Send, Types, TypeOK
  <1> QED
    BY <1>1, <1>2, <1>3, <1>4 DEF Types, TypeOK, files

LEMMA AcceptTypes ==
  ASSUME Types, NEW c \in Clients, NEW n \in Returned, Accept(c, n),
         inbox' \in [Clients -> Seq(Answers)], UNCHANGED <<requests, ends, fcl, server, files>>
  PROVE  Types'
  <1> USE DEF Types, TypeOK
  <1>1. pc' \in [Clients -> {"outside", "opening", "waiting", "filling", "mounted", "gone"}]
    BY DEF Accept, AfterReply
  <1>2. id' \in [Clients -> Returned]
    BY DEF Accept
  <1> QED
    BY <1>1, <1>2 DEF Accept, Returned, files

LEMMA ReceiveTypes ==
  ASSUME Types, NEW c \in Clients, Receive(c)
  PROVE  Types'
  <1>1. CASE Hangup(c)
    <2>1. id[c] \in Returned
      BY DEF Types
    <2> QED
      BY <1>1, <2>1, AcceptTypes DEF Hangup, Receive, Types
  <1>2. CASE /\ inbox[c] # <<>>
             /\ Accept(c, Head(inbox[c]).ret)
             /\ inbox' = [inbox EXCEPT ![c] = Tail(@)]
             /\ UNCHANGED requests
    <2>1. inbox[c] \in Seq(Answers) /\ inbox[c] # <<>>
      BY <1>2 DEF Types
    <2>2. Head(inbox[c]) \in Answers /\ Tail(inbox[c]) \in Seq(Answers)
      BY <2>1
    <2>3. Head(inbox[c]).ret \in Returned
      BY <2>2 DEF Answers
    <2>4. inbox' \in [Clients -> Seq(Answers)]
      BY <1>2, <2>2 DEF Types
    <2> QED
      BY <1>2, <2>3, <2>4, AcceptTypes DEF Receive
  <1> QED
    BY <1>1, <1>2 DEF Receive

LEMMA FillTypes ==
  ASSUME Types, NEW c \in Clients, Fill(c)
  PROVE  Types'
  <1>1. inbox' \in [Clients -> Seq(Answers)]
    BY DEF Fill, Types
  <1> QED
    BY <1>1 DEF Fill, Types, TypeOK, files

\* Where the offset of a handle stands.
Places == {"within", "ahead", "past"}

\* A truncation or a write moves the ends of files, and a read an offset.
LEMMA OffsetsTyped ==
  ASSUME Types
  PROVE  \A S : /\ Truncated(S) \in [Handles -> Places]
                /\ Extended(S) \in [Handles -> Places]
                /\ \A h : [Truncated(S) EXCEPT ![h] = "within"] \in [Handles -> Places]
                /\ \A h : [offset EXCEPT ![h] = "past"] \in [Handles -> Places]
  BY DEF Truncated, Extended, Types, TypeOK, Places

LEMMA RespondTypes ==
  ASSUME Types, NEW r \in Requests, r.op \in Answered,
         NEW answers \in Seq(Returned), Respond(r, answers),
         open' \subseteq Handles, offset' \in [Handles -> Places], UNCHANGED pc,
         requests' = Tail(requests), requests # <<>>, UNCHANGED <<call, id, writers>>
  PROVE  Types'
  <1>1. Answer(r, Len(answers)) \/ LoseAnswer(r)
    BY RespondAfter
  <1>2. inbox' \in [Clients -> Seq(Answers)]
    <2>1. CASE Answer(r, Len(answers))
      <3>1. PICK out \in Seq(Answers) : inbox' = [inbox EXCEPT ![fcl] = @ \o out]
        BY <2>1 DEF Answer
      <3>2. fcl \in Clients
        BY <2>1 DEF Answer, Types, TypeOK
      <3>3. inbox[fcl] \o out \in Seq(Answers)
        BY <3>2, ConcatProperties DEF Types
      <3> QED
        BY <3>1, <3>2, <3>3 DEF Types
    <2> QED
      BY <1>1, <2>1 DEF LoseAnswer, Types
  <1>3. ends' \subseteq Clients /\ server' \in {"up", "hung", "stopped"}
    BY <1>1 DEF Answer, LoseAnswer, Stop, Types, TypeOK
  <1>4. requests' \in Seq(Requests)
    BY DEF Types
  <1> QED
    BY <1>2, <1>3, <1>4 DEF Types, TypeOK, Respond, Places

LEMMA ServeTypes ==
  ASSUME Types, Serve
  PROVE  Types'
  <1> DEFINE r == Head(requests)
  <1>1. requests \in Seq(Requests) /\ requests # <<>>
    BY DEF Types, Serve
  <1>2. r \in Requests /\ requests' = Tail(requests) /\ requests' \in Seq(Requests)
    BY <1>1 DEF Serve
  <1>3. r.from \in Clients
    BY <1>2 DEF Requests
  <1>4. UNCHANGED <<call, id, writers>>
    BY DEF Serve
  <1>5. -1 \in Returned /\ 0 \in Returned
    BY HandleZero DEF Returned
  <1>6. ASSUME NEW n \in Returned
        PROVE  <<n>> \in Seq(Returned) /\ <<n, n>> \in Seq(Returned)
    BY <1>6
  <1> HIDE DEF r
  <1>7. CASE /\ inbox' \in [Clients -> Seq(Answers)] /\ ends' \subseteq Clients
             /\ fcl' \in Clients \cup {NoClient} /\ server' \in {"up", "hung", "stopped"}
             /\ UNCHANGED <<files, pc>>
    BY <1>2, <1>4, <1>7 DEF Types, TypeOK, files
  <1>8. CASE WildLock(r) \/ ServeNoPath(r) \/ ServeUnmount(r) \/ ServeShutdown(r)
             \/ UNCHANGED <<serverVars, pc>>
             \/ (server' = "hung" /\ UNCHANGED <<inbox, ends, fcl, ses_id, files, pc>>)
             \/ (Crash /\ UNCHANGED <<open, pc>>)
    BY <1>7, <1>8 DEF WildLock, ServeNoPath, ServeUnmount, ServeShutdown, Crash, Stop,
                      serverVars, files, Types, TypeOK
  <1>9. CASE r.op = "mount" /\ ServeMount(r)
    <2>1. pc' \in [Clients -> {"outside", "opening", "waiting", "filling", "mounted", "gone"}]
      BY <1>3, <1>9 DEF ServeMount, Types, TypeOK
    <2>2. ends' \subseteq Clients /\ server' \in {"up", "hung", "stopped"}
          /\ fcl' \in Clients \cup {NoClient} /\ files' = files
      BY <1>3, <1>9 DEF ServeMount, Stop, Types, TypeOK
    <2>3. inbox' \in [Clients -> Seq(Answers)]
      <3>1. [to |-> r.from, op |-> "mount", ret |-> 0] \in Answers
        BY <1>3, <1>5 DEF Answers, Answered
      <3>2. Append(inbox[r.from], [to |-> r.from, op |-> "mount", ret |-> 0]) \in Seq(Answers)
        BY <1>3, <3>1, AppendProperties DEF Types
      <3>3. \/ inbox' = inbox
            \/ inbox' = [inbox EXCEPT ![r.from] =
                           Append(@, [to |-> r.from, op |-> "mount", ret |-> 0])]
        BY <1>9 DEF ServeMount
      <3> QED
        BY <1>3, <3>2, <3>3 DEF Types
    <2> QED
      BY <1>2, <1>4, <2>1, <2>2, <2>3 DEF Types, TypeOK, files
  <1>10. ASSUME NEW answers \in Seq(Returned), r.op \in Answered, Respond(r, answers),
                open' \subseteq Handles, offset' \in [Handles -> Places], UNCHANGED pc
         PROVE  Types'
    BY <1>1, <1>2, <1>4, <1>10, RespondTypes DEF r
  <1>11. open \subseteq Handles /\ offset \in [Handles -> Places]
    BY DEF Types, TypeOK, Places
  <1>12. CASE r.op = "open" /\ ServeOpen(r)
    <2>1. PICK h \in Returned : Respond(r, <<h>>)
      BY <1>5, <1>12 DEF ServeOpen, Returned
    <2>2. open' \subseteq Handles /\ offset' \in [Handles -> Places] /\ UNCHANGED pc
      <3>1. PICK S \in SUBSET Handles :
              \/ \E k \in Handles : /\ open' = open \cup {k}
                                    /\ offset' = [Truncated(S) EXCEPT ![k] = "within"]
              \/ open' = open /\ offset' = Truncated(S)
        BY <1>12 DEF ServeOpen
      <3>2. offset' \in [Handles -> Places]
        BY <3>1, OffsetsTyped
      <3>3. open' \subseteq Handles /\ UNCHANGED pc
        BY <1>11, <1>12, <3>1 DEF ServeOpen
      <3> QED
        BY <3>2, <3>3
    <2> QED
      BY <1>6, <1>10, <1>12, <2>1, <2>2 DEF Answered
  <1>13. CASE r.op = "close" /\ ServeClose(r)
    <2>1. PICK n \in Returned : Respond(r, <<n>>)
      BY <1>5, <1>13 DEF ServeClose
    <2> QED
      BY <1>6, <1>10, <1>11, <1>13, <2>1 DEF ServeClose, Answered
  <1>14. CASE r.op = "write" /\ ServeWrite(r)
    <2>1. CASE Crash
      BY <1>8, <1>14, <2>1 DEF ServeWrite
    <2>2. CASE ~Crash
      <3>1. PICK n \in Returned : Respond(r, <<n>>)
        BY <1>5, <1>14, <2>2 DEF ServeWrite, Outcomes
      <3>2. open' \subseteq Handles /\ offset' \in [Handles -> Places] /\ UNCHANGED pc
        BY <1>11, <1>14, <2>2, OffsetsTyped DEF ServeWrite
      <3> QED
        BY <1>6, <1>10, <1>14, <3>1, <3>2 DEF Answered
    <2> QED
      BY <2>1, <2>2
  <1>15. CASE r.op = "read" /\ ServeRead(r)
    <2>1. CASE Crash
      BY <1>8, <1>15, <2>1 DEF ServeRead
    <2>2. CASE ~Crash
      <3>1. PICK n \in Returned : Respond(r, <<n, n>>)
        BY <1>5, <1>15, <2>2 DEF ServeRead, Outcomes
      <3>2. open' \subseteq Handles /\ offset' \in [Handles -> Places] /\ UNCHANGED pc
        <4>1. offset' = offset \/ offset' = [offset EXCEPT ![r.fh] = "past"]
          BY <1>15, <2>2 DEF ServeRead
        <4>2. offset' \in [Handles -> Places]
          BY <1>11, <4>1, OffsetsTyped
        <4> QED
          BY <1>11, <1>15, <4>2 DEF ServeRead
      <3> QED
        BY <1>6, <1>10, <1>15, <3>1, <3>2 DEF Answered
    <2> QED
      BY <2>1, <2>2
  <1> QED
    BY <1>8, <1>9, <1>12, <1>13, <1>14, <1>15 DEF Serve, r

LEMMA TypesAfter == Types /\ [Next]_vars => Types'
  <1> SUFFICES ASSUME Types, [Next]_vars PROVE Types'
    OBVIOUS
  <1>1. ASSUME NEW c \in Clients, Mount(c) PROVE Types'
    <2>1. Request(c, "mount", 0, -1) \in Requests
      BY HandleZero, RequestTyped DEF Answered, Returned
    <2>2. inbox' \in [Clients -> Seq(Answers)]
      BY <1>1 DEF Mount, Types
    <2> QED
      BY <1>1, <2>1, <2>2, SendTypes DEF Mount, Returned
  <1>2. ASSUME NEW c \in Clients, Call(c) PROVE Types'
    <2>1. PICK op \in ClientCalls, fh \in Returned, request \in Requests :
            Send(c, op, fh, "waiting", request)
      BY <1>2, CallSends
    <2> QED
      BY <1>2, <2>1, SendTypes DEF Call, serverVars, Types
  <1>3. ASSUME NEW c \in Clients, Die(c) PROVE Types'
    BY <1>3 DEF Die, serverVars, files, Types, TypeOK
  <1>4. CASE Exit
    BY <1>4 DEF Exit, Stop, clientVars, files, Types, TypeOK
  <1>5. CASE UNCHANGED vars
    BY <1>5 DEF vars, clientVars, serverVars, files, Types, TypeOK
  <1> QED
    BY <1>1, <1>2, <1>3, <1>4, <1>5, ReceiveTypes, FillTypes, ServeTypes DEF Next

LEMMA InitTypes == Init => Types
  BY HandleZero, SessionAssumption DEF Init, Types, TypeOK, Requests, Returned, NoCall

LEMMA TypesKept == Spec => []Types
  BY InitTypes, TypesAfter, PTL DEF Spec

\* For any number of clients and handles, every variable holds values of its
\* kind, and the server never opens a handle beyond the table.
THEOREM TypeCorrect == Spec => []TypeOK
  BY TypesKept, PTL DEF Types

-----------------------------------------------------------------------------
(***************************************************************************)
(* The answers.                                                            *)
(***************************************************************************)

\* A client between tfs_mount and the end of its last call.
Active(c) == pc[c] \in {"opening", "waiting", "filling", "mounted"}

\* The server serves one client after another: a client mounts when no other
\* is mounted or about to be.  Any number of them may have ended, with their
\* session open and with requests in the pipe.
OneAtATime == \A c, d \in Clients : Active(c) /\ Active(d) => c = d

\* The mount of a client that lives is the last request of the pipe.
MountIsLast ==
  \A k \in 1 .. Len(requests) :
    requests[k].op = "mount" =>
      \/ pc[requests[k].from] = "gone"
      \/ pc[requests[k].from] = "opening" /\ k = Len(requests)

\* The server holds no pipe of a client it has not opened it for.
Outsiders ==
  \A c \in Clients :
    /\ pc[c] \in {"outside", "opening"} => c \notin ends
    /\ pc[c] = "opening" => call[c].op = "mount" /\ inbox[c] = <<>>

\* The pipes of a client whose pipe the server holds: its request, or the
\* answer to it, or for a read its two halves.
InTurn(c) ==
  c \in ends /\ Active(c) =>
    /\ \A k \in 1 .. Len(requests) :
         /\ requests[k].from = c
         /\ requests[k].op \in Answered => requests[k].op = call[c].op
         /\ requests[k].op \in {"write", "read"} => requests[k].fh = call[c].fh
    /\ \A k \in 1 .. Len(inbox[c]) : inbox[c][k].op = call[c].op
    /\ pc[c] = "mounted" => requests = <<>> /\ inbox[c] = <<>>
    /\ pc[c] = "filling" => requests = <<>> /\ Len(inbox[c]) = 1
    /\ pc[c] = "waiting" =>
         /\ Len(requests) <= 1
         /\ inbox[c] # <<>> => /\ requests = <<>>
                               /\ Len(inbox[c]) = IF call[c].op = "read" THEN 2 ELSE 1

Turns == MountIsLast /\ Outsiders /\ \A c \in Clients : InTurn(c)

\* A step of one client leaves the others what they have.
OthersKept(c) ==
  \A d \in Clients \ {c} : pc'[d] = pc[d] /\ call'[d] = call[d] /\ inbox'[d] = inbox[d]

\* A pipe before and after a request is put in.
LEMMA Appended ==
  ASSUME NEW s \in Seq(Requests), NEW e \in Requests
  PROVE  /\ Len(Append(s, e)) = Len(s) + 1 /\ Len(s) \in Nat
         /\ \A k \in 1 .. Len(s) : Append(s, e)[k] = s[k] /\ s[k].from \in Clients
         /\ Append(s, e)[Len(s) + 1] = e
  <1>1. \A k \in 1 .. Len(s) : s[k] \in Requests
    OBVIOUS
  <1>2. \A k \in 1 .. Len(s) : s[k].from \in Clients
    BY <1>1 DEF Requests
  <1> HIDE DEF Requests
  <1>3. Len(Append(s, e)) = Len(s) + 1 /\ Len(s) \in Nat
    OBVIOUS
  <1>4. \A k \in 1 .. Len(s) : Append(s, e)[k] = s[k]
    OBVIOUS
  <1>5. Append(s, e)[Len(s) + 1] = e
    OBVIOUS
  <1> QED
    BY <1>2, <1>3, <1>4, <1>5

LEMMA MountTurns ==
  ASSUME Types, Turns, OneAtATime', server = "up", NEW c \in Clients, Mount(c)
  PROVE  Turns'
  <1> DEFINE m == Request(c, "mount", 0, -1)
  <1>1. m \in Requests /\ m.from = c /\ m.op = "mount"
    BY HandleZero, RequestTyped DEF Answered, Returned
  <1> HIDE DEF m
  <1>2. /\ pc[c] = "outside" /\ pc'[c] = "opening" /\ ends' = ends
        /\ call'[c].op = "mount" /\ inbox'[c] = <<>> /\ OthersKept(c)
    BY DEF Mount, Send, OthersKept, Types, TypeOK
  <1>3. requests' = Append(requests, m) /\ requests \in Seq(Requests)
    BY DEF Mount, Send, m, Types
  <1>4. /\ Len(requests') = Len(requests) + 1 /\ Len(requests) \in Nat
        /\ \A k \in 1 .. Len(requests) : requests'[k] = requests[k] /\ requests[k].from \in Clients
        /\ requests'[Len(requests) + 1] = m
    BY <1>1, <1>3, Appended
  <1>5. \A d \in Clients \ {c} : ~Active(d) /\ ~Active(d)'
    BY <1>2 DEF OneAtATime, Active, OthersKept
  <1>6. MountIsLast'
    <2> SUFFICES ASSUME NEW k \in 1 .. Len(requests'), requests'[k].op = "mount"
                 PROVE  \/ pc'[requests'[k].from] = "gone"
                        \/ pc'[requests'[k].from] = "opening" /\ k = Len(requests')
      BY DEF MountIsLast
    <2>1. CASE k \in 1 .. Len(requests)
      <3> DEFINE d == requests[k].from
      <3>1. d \in Clients /\ requests'[k] = requests[k]
        BY <1>4, <2>1
      <3>2. pc[d] = "gone" \/ pc[d] = "opening"
        BY <2>1, <3>1 DEF Turns, MountIsLast
      <3>3. pc[d] = "gone" /\ d # c
        BY <1>2, <1>5, <3>1, <3>2 DEF Active
      <3> QED
        BY <1>2, <3>1, <3>3 DEF OthersKept
    <2>2. CASE k = Len(requests) + 1
      BY <1>1, <1>2, <1>4, <2>2
    <2> QED
      BY <1>4, <2>1, <2>2
  <1>7. Outsiders'
    BY <1>2 DEF Turns, Outsiders, OthersKept
  <1>8. ASSUME NEW d \in Clients PROVE InTurn(d)'
    <2>1. d # c \/ c \notin ends'
      BY <1>2 DEF Turns, Outsiders
    <2>2. ~(d \in ends /\ Active(d))'
      BY <1>2, <1>5, <2>1 DEF Outsiders
    <2> QED
      BY <2>2 DEF InTurn
  <1> QED
    BY <1>6, <1>7, <1>8 DEF Turns

LEMMA CallTurns ==
  ASSUME Types, Turns, OneAtATime, server = "up", NEW c \in Clients, Call(c)
  PROVE  Turns'
  <1>1. PICK op \in ClientCalls, fh \in Returned, request \in Requests :
          /\ Send(c, op, fh, "waiting", request)
          /\ request.from = c /\ request.op # "mount"
          /\ request.op \in Answered => request.op = op
          /\ op \in {"write", "read"} => request.fh = fh
    BY CallSends
  <1>2. /\ pc[c] = "mounted" /\ pc'[c] = "waiting" /\ ends' = ends
        /\ call'[c].op = op /\ call'[c].fh = fh /\ inbox' = inbox /\ OthersKept(c)
    BY <1>1 DEF Call, Send, OthersKept, serverVars, Types, TypeOK
  <1>3. requests' = Append(requests, request) /\ requests \in Seq(Requests)
    BY <1>1 DEF Send, Types
  <1>4. /\ Len(requests') = Len(requests) + 1 /\ Len(requests) \in Nat
        /\ \A k \in 1 .. Len(requests) : requests'[k] = requests[k] /\ requests[k].from \in Clients
        /\ requests'[Len(requests) + 1] = request
    BY <1>1, <1>3, Appended
  <1>5. \A d \in Clients \ {c} : ~Active(d) /\ ~Active(d)'
    BY <1>2 DEF OneAtATime, Active, OthersKept
  <1>6. MountIsLast'
    <2> SUFFICES ASSUME NEW k \in 1 .. Len(requests'), requests'[k].op = "mount"
                 PROVE  pc'[requests'[k].from] = "gone"
      BY DEF MountIsLast
    <2> DEFINE d == requests[k].from
    <2>1. k \in 1 .. Len(requests)
      BY <1>1, <1>4
    <2>2. d \in Clients /\ requests'[k] = requests[k]
      BY <1>4, <2>1
    <2>3. pc[d] = "gone" \/ pc[d] = "opening"
      BY <2>1, <2>2 DEF Turns, MountIsLast
    <2>4. pc[d] = "gone" /\ d # c
      BY <1>2, <1>5, <2>2, <2>3 DEF Active
    <2> QED
      BY <1>2, <2>2, <2>4 DEF OthersKept
  <1>7. Outsiders'
    BY <1>2 DEF Turns, Outsiders, OthersKept
  <1>8. ASSUME NEW d \in Clients PROVE InTurn(d)'
    <2>1. CASE d # c
      BY <1>5, <2>1 DEF InTurn
    <2>2. CASE d = c /\ c \notin ends
      BY <1>2, <2>2 DEF InTurn
    <2>3. CASE d = c /\ c \in ends
      <3>1. requests = <<>> /\ inbox[c] = <<>>
        BY <1>2, <2>3 DEF Turns, InTurn, Active
      <3>2. Len(requests') = 1 /\ requests'[1] = request
        BY <1>4, <3>1
      <3> QED
        BY <1>1, <1>2, <2>3, <3>1, <3>2 DEF InTurn, Answered
    <2> QED
      BY <2>1, <2>2, <2>3
  <1> QED
    BY <1>6, <1>7, <1>8 DEF Turns

\* A pipe before and after its first message is taken out.
LEMMA TakenOut ==
  ASSUME NEW S, NEW s \in Seq(S), s # <<>>
  PROVE  /\ Len(s) \in Nat \ {0} /\ Tail(s) \in Seq(S) /\ Len(Tail(s)) = Len(s) - 1
         /\ \A k \in 1 .. Len(Tail(s)) : k + 1 \in 1 .. Len(s) /\ Tail(s)[k] = s[k + 1]
         /\ 1 \in 1 .. Len(s) /\ Head(s) = s[1]
         /\ Len(s) = 1 => Tail(s) = <<>>
  <1>1. Len(s) \in Nat \ {0} /\ Tail(s) \in Seq(S) /\ Len(Tail(s)) = Len(s) - 1
    OBVIOUS
  <1>2. \A k \in 1 .. Len(s) - 1 : k + 1 \in 1 .. Len(s) /\ Tail(s)[k] = s[k + 1]
    OBVIOUS
  <1>3. 1 \in 1 .. Len(s) /\ Head(s) = s[1]
    BY <1>1
  <1>4. Len(s) = 1 => Tail(s) = <<>>
    <2>1. \A t \in Seq(S) : t # <<>> => Len(t) \in Nat \ {0}
      BY EmptySeq
    <2> DEFINE t == Tail(s)
    <2>2. t \in Seq(S) /\ Len(t) = Len(s) - 1
      BY <1>1
    <2> HIDE DEF t
    <2>3. Len(s) = 1 => t = <<>>
      BY <2>1, <2>2
    <2> QED
      BY <2>3 DEF t
  <1> QED
    BY <1>1, <1>2, <1>3, <1>4

\* A step of a client that puts nothing in the server's pipe.
LEMMA ClientTurns ==
  ASSUME Types, Turns, NEW c \in Clients, pc[c] = "gone" => pc'[c] = "gone",
         OthersKept(c), call' = call, UNCHANGED <<requests, ends>>,
         pc'[c] \in {"outside", "filling", "mounted", "gone"},
         pc[c] = "opening" => pc'[c] = "gone",
         c \in ends => pc'[c] # "outside" /\ InTurn(c)'
  PROVE  Turns'
  <1>1. \A k \in 1 .. Len(requests) : requests[k].from \in Clients
    <2>1. requests \in Seq(Requests)
      BY DEF Types
    <2>2. \A k \in 1 .. Len(requests) : requests[k] \in Requests
      BY <2>1
    <2> QED
      BY <2>2 DEF Requests
  <1>2. MountIsLast'
    <2> SUFFICES ASSUME NEW k \in 1 .. Len(requests), requests[k].op = "mount"
                 PROVE  \/ pc'[requests[k].from] = "gone"
                        \/ pc'[requests[k].from] = "opening" /\ k = Len(requests)
      BY DEF MountIsLast
    <2>1. \/ pc[requests[k].from] = "gone"
          \/ pc[requests[k].from] = "opening" /\ k = Len(requests)
      BY DEF Turns, MountIsLast
    <2> QED
      BY <1>1, <2>1 DEF OthersKept
  <1>3. Outsiders'
    BY DEF Turns, Outsiders, OthersKept
  <1>4. ASSUME NEW d \in Clients PROVE InTurn(d)'
    <2>1. CASE d # c
      BY <2>1 DEF Turns, InTurn, Active, OthersKept
    <2>2. CASE d = c
      BY <2>2 DEF InTurn
    <2> QED
      BY <2>1, <2>2
  <1> QED
    BY <1>2, <1>3, <1>4 DEF Turns

LEMMA ReceiveTurns ==
  ASSUME Types, Turns, NEW c \in Clients, Receive(c)
  PROVE  Turns'
  <1>1. /\ pc[c] = "waiting" /\ pc'[c] = AfterReply(call[c].op) /\ call' = call
        /\ OthersKept(c) /\ UNCHANGED <<requests, ends>>
    BY DEF Receive, Hangup, Accept, OthersKept, Types, TypeOK
  <1>2. ASSUME c \in ends PROVE pc'[c] # "outside" /\ InTurn(c)'
    <2>1. inbox[c] # <<>> /\ inbox'[c] = Tail(inbox[c]) /\ inbox[c] \in Seq(Answers)
      BY <1>2 DEF Receive, Hangup, Types
    <2>2. /\ requests = <<>> /\ Len(inbox[c]) = IF call[c].op = "read" THEN 2 ELSE 1
          /\ \A k \in 1 .. Len(inbox[c]) : inbox[c][k].op = call[c].op
      BY <1>1, <1>2, <2>1 DEF Turns, InTurn, Active
    <2>3. /\ Len(inbox'[c]) = Len(inbox[c]) - 1
          /\ \A k \in 1 .. Len(inbox'[c]) : inbox'[c][k].op = call[c].op
          /\ Len(inbox[c]) = 1 => inbox'[c] = <<>>
      BY <2>1, <2>2, TakenOut
    <2>4. call[c].op \in Answered
      <3>1. inbox[c][1] \in Answers /\ inbox[c][1].op = call[c].op
        BY <2>1, <2>2, TakenOut
      <3> QED
        BY <3>1 DEF Answers
    <2>5. CASE call[c].op = "read"
      <3>1. pc'[c] = "filling" /\ Len(inbox'[c]) = 1
        BY <1>1, <2>2, <2>3, <2>5 DEF AfterReply
      <3> QED
        BY <1>1, <2>2, <2>3, <3>1 DEF InTurn
    <2>6. CASE call[c].op # "read"
      <3>1. pc'[c] = "mounted" /\ inbox'[c] = <<>>
        BY <1>1, <2>2, <2>3, <2>4, <2>6 DEF AfterReply, Answered
      <3> QED
        BY <1>1, <2>2, <3>1 DEF InTurn
    <2> QED
      BY <2>5, <2>6
  <1> QED
    BY <1>1, <1>2, ClientTurns DEF Active, AfterReply

LEMMA FillTurns ==
  ASSUME Types, Turns, NEW c \in Clients, Fill(c)
  PROVE  Turns'
  <1>1. /\ pc[c] = "filling" /\ pc'[c] = "mounted" /\ call' = call
        /\ OthersKept(c) /\ UNCHANGED <<requests, ends>>
    BY DEF Fill, OthersKept, Types, TypeOK
  <1>2. ASSUME c \in ends PROVE InTurn(c)'
    <2>1. requests = <<>> /\ Len(inbox[c]) = 1 /\ inbox[c] \in Seq(Answers)
      BY <1>1, <1>2 DEF Turns, InTurn, Active, Types
    <2>2. inbox[c] # <<>>
      BY <2>1, EmptySeq
    <2>3. inbox'[c] = Tail(inbox[c])
      BY <2>2 DEF Fill, Types
    <2>4. inbox'[c] = <<>>
      BY <2>1, <2>2, <2>3, TakenOut
    <2> QED
      BY <1>1, <2>1, <2>4 DEF InTurn
  <1> QED
    BY <1>1, <1>2, ClientTurns DEF Active

LEMMA DieTurns ==
  ASSUME Types, Turns, NEW c \in Clients, Die(c)
  PROVE  Turns'
  <1>1. pc'[c] = "gone" /\ call' = call /\ OthersKept(c) /\ UNCHANGED <<requests, ends>>
    BY DEF Die, serverVars, OthersKept, Types, TypeOK
  <1>2. InTurn(c)'
    BY <1>1 DEF InTurn, Active
  <1> QED
    BY <1>1, <1>2, ClientTurns

\* A client that waits, with its request taken and the answer to it, or none,
\* in its pipe.
LEMMA WaitsInTurn ==
  ASSUME NEW c \in Clients, pc'[c] = "waiting", requests' = <<>>,
         NEW n \in Nat, n = IF call'[c].op = "read" THEN 2 ELSE 1,
         inbox'[c] = <<>>
           \/ (Len(inbox'[c]) = n /\ \A k \in 1 .. n : inbox'[c][k].op = call'[c].op)
  PROVE  InTurn(c)'
  <1>1. Len(<<>>) = 0 /\ 1 .. 0 = {}
    BY EmptySeq
  <1>2. Len(requests') = 0
    BY <1>1
  <1>3. \A k \in 1 .. Len(requests') :
          /\ requests'[k].from = c
          /\ requests'[k].op \in Answered => requests'[k].op = call'[c].op
          /\ requests'[k].op \in {"write", "read"} => requests'[k].fh = call'[c].fh
    BY <1>1, <1>2
  <1>4. \A k \in 1 .. Len(inbox'[c]) : inbox'[c][k].op = call'[c].op
    BY <1>1
  <1>5. inbox'[c] # <<>> => Len(inbox'[c]) = IF call'[c].op = "read" THEN 2 ELSE 1
    OBVIOUS
  <1>6. Len(requests') <= 1
    BY <1>2
  <1> QED
    BY <1>3, <1>4, <1>5, <1>6 DEF InTurn

\* The server takes a request, opens no pipe, and answers it or does not.
LEMMA AnswerTurns ==
  ASSUME Types, Turns, OneAtATime, requests # <<>>, requests' = Tail(requests),
         UNCHANGED <<pc, call>>, ends' \subseteq ends,
         inbox' = inbox
           \/ /\ Head(requests).op \in Answered
              /\ Answer(Head(requests), IF Head(requests).op = "read" THEN 2 ELSE 1)
  PROVE  Turns'
  <1> DEFINE r == Head(requests)
  <1>1. /\ Len(requests) \in Nat \ {0} /\ Len(requests') = Len(requests) - 1
        /\ \A k \in 1 .. Len(requests') : k + 1 \in 1 .. Len(requests) /\ requests'[k] = requests[k + 1]
        /\ 1 \in 1 .. Len(requests) /\ r = requests[1]
        /\ Len(requests) = 1 => requests' = <<>>
    BY TakenOut DEF Types
  <1> HIDE DEF r
  <1>2. MountIsLast'
    <2> SUFFICES ASSUME NEW k \in 1 .. Len(requests'), requests'[k].op = "mount"
                 PROVE  \/ pc[requests'[k].from] = "gone"
                        \/ pc[requests'[k].from] = "opening" /\ k = Len(requests')
      BY DEF MountIsLast
    <2>1. k + 1 \in 1 .. Len(requests) /\ requests'[k] = requests[k + 1]
      BY <1>1
    <2>2. \/ pc[requests[k + 1].from] = "gone"
          \/ pc[requests[k + 1].from] = "opening" /\ k + 1 = Len(requests)
      BY <2>1 DEF Turns, MountIsLast
    <2>3. PICK n \in Nat \ {0} : Len(requests) = n /\ Len(requests') = n - 1
      BY <1>1
    <2>4. k \in 1 .. n - 1
      BY <2>3
    <2>5. k + 1 = n => k = n - 1
      BY <2>4
    <2> QED
      BY <2>1, <2>2, <2>3, <2>5
  <1>3. \A c \in Clients : c # fcl \/ c \notin ends \/ pc[c] = "gone" => inbox'[c] = inbox[c]
    BY DEF Answer, Types
  <1>4. Outsiders'
    BY <1>3 DEF Turns, Outsiders
  <1>5. ASSUME NEW c \in Clients, c \in ends, Active(c)
        PROVE  InTurn(c)'
    <2>1. InTurn(c) /\ pc[c] # "opening"
      BY <1>5 DEF Turns, Outsiders
    <2>2. pc[c] = "waiting" /\ inbox[c] = <<>> /\ requests' = <<>>
      BY <1>1, <1>5, <2>1 DEF InTurn, Active
    <2>3. r.op \in Answered => r.op = call[c].op
      BY <1>1, <1>5, <2>1 DEF InTurn
    <2>4. CASE inbox'[c] = <<>>
      BY <2>2, <2>4, WaitsInTurn
    <2>5. CASE inbox'[c] # <<>>
      <3>1. r.op \in Answered /\ Answer(r, IF r.op = "read" THEN 2 ELSE 1) /\ fcl = c
        BY <1>3, <2>2, <2>5 DEF r
      <3>2. PICK out \in Seq(Answers) :
              /\ Len(out) = IF r.op = "read" THEN 2 ELSE 1
              /\ \A k \in 1 .. Len(out) : out[k].op = r.op
              /\ inbox' = [inbox EXCEPT ![c] = @ \o out]
        BY <3>1 DEF Answer
      <3>3. inbox'[c] = out
        BY <2>2, <3>2, ConcatEmptySeq DEF Types
      <3>4. r.op = call'[c].op /\ pc'[c] = "waiting"
        BY <2>2, <2>3, <3>1
      <3>5. PICK n \in Nat : n = IF call'[c].op = "read" THEN 2 ELSE 1
        OBVIOUS
      <3>6. Len(inbox'[c]) = n /\ \A k \in 1 .. n : inbox'[c][k].op = call'[c].op
        BY <3>2, <3>3, <3>4, <3>5
      <3> QED
        BY <2>2, <3>4, <3>5, <3>6, WaitsInTurn
    <2> QED
      BY <2>4, <2>5
  <1>6. \A c \in Clients : InTurn(c)'
    BY <1>5 DEF InTurn, Active
  <1> QED
    BY <1>2, <1>4, <1>6 DEF Turns

LEMMA MountServed ==
  ASSUME Types, Turns, OneAtATime, requests # <<>>, requests' = Tail(requests), call' = call,
         Head(requests).op = "mount", ServeMount(Head(requests)), server' = "up", server = "up"
  PROVE  Turns'
  <1> DEFINE r == Head(requests)
             c == r.from
  <1>1. /\ Len(requests) \in Nat \ {0}
        /\ 1 \in 1 .. Len(requests) /\ r = requests[1]
        /\ Len(requests) = 1 => requests' = <<>>
    BY TakenOut DEF Types
  <1>2. r \in Requests
    BY DEF Types
  <1>3. c \in Clients
    BY <1>2 DEF Requests
  <1>4. r.op = "mount" /\ ServeMount(r)
    OBVIOUS
  <1> HIDE DEF r
  <1>5. /\ pc[c] = "opening" /\ pc'[c] = "waiting" /\ pc' = [pc EXCEPT ![c] = "waiting"]
        /\ \/ inbox' = inbox
           \/ inbox' = [inbox EXCEPT ![c] = Append(@, [to |-> c, op |-> "mount", ret |-> 0])]
        /\ ends' \subseteq ends \cup {c}
    BY <1>3, <1>4 DEF ServeMount, Stop, Types, TypeOK
  <1>6. requests' = <<>>
    BY <1>1, <1>4, <1>5 DEF Turns, MountIsLast
  <1>7. call[c].op = "mount" /\ inbox[c] = <<>>
    BY <1>3, <1>5 DEF Turns, Outsiders
  <1>8. \A d \in Clients \ {c} : ~Active(d) /\ pc'[d] = pc[d] /\ inbox'[d] = inbox[d]
    <2>1. \A d \in Clients \ {c} : ~Active(d)
      BY <1>3, <1>5 DEF OneAtATime, Active
    <2> QED
      BY <1>3, <1>5, <2>1 DEF Types, TypeOK
  <1>9. MountIsLast'
    <2>1. 1 .. Len(requests') = {}
      BY <1>6, EmptySeq
    <2> QED
      BY <2>1 DEF MountIsLast
  <1>10. Outsiders'
    BY <1>5, <1>8 DEF Turns, Outsiders
  <1>11. ASSUME NEW d \in Clients PROVE InTurn(d)'
    <2>1. CASE d # c
      BY <1>8, <2>1 DEF InTurn, Active
    <2>2. CASE d = c
      <3>1. \/ inbox'[c] = <<>>
            \/ inbox'[c] = << [to |-> c, op |-> "mount", ret |-> 0] >>
        BY <1>3, <1>5, <1>7 DEF Types
      <3> DEFINE a == [to |-> c, op |-> "mount", ret |-> 0]
      <3>a. a.op = "mount"
        OBVIOUS
      <3> HIDE DEF a
      <3>b. Len(<<a>>) = 1 /\ <<a>>[1] = a
        OBVIOUS
      <3>2. inbox'[c] = <<>> \/ (Len(inbox'[c]) = 1 /\ inbox'[c][1].op = "mount")
        BY <3>1, <3>a, <3>b DEF a
      <3>3. call'[c].op = "mount"
        BY <1>7
      <3>4. \/ inbox'[c] = <<>>
            \/ Len(inbox'[c]) = 1 /\ \A k \in 1 .. 1 : inbox'[c][k].op = call'[c].op
        BY <3>2, <3>3
      <3> QED
        BY <1>5, <1>6, <2>2, <3>3, <3>4, WaitsInTurn
    <2> QED
      BY <2>1, <2>2
  <1> QED
    BY <1>9, <1>10, <1>11 DEF Turns

LEMMA ServeTurns ==
  ASSUME Types, Turns, OneAtATime, Serve, server' = "up"
  PROVE  Turns'
  <1> DEFINE r == Head(requests)
  <1>1. /\ requests # <<>> /\ requests' = Tail(requests) /\ call' = call /\ server = "up"
    BY DEF Serve
  <1> HIDE DEF r
  <1>2. ~WildLock(r) /\ ~Crash
    BY DEF WildLock, Crash, Stop
  <1>3. ASSUME pc' = pc, ends' \subseteq ends, inbox' = inbox PROVE Turns'
    BY <1>1, <1>3, AnswerTurns
  <1>4. CASE ServeNoPath(r) \/ ServeUnmount(r) \/ ServeShutdown(r) \/ UNCHANGED <<serverVars, pc>>
    BY <1>3, <1>4 DEF ServeNoPath, ServeUnmount, ServeShutdown, serverVars
  <1>5. CASE r.op = "mount" /\ ServeMount(r)
    BY <1>1, <1>5, MountServed DEF r
  <1>6. ASSUME NEW n \in Returned, r.op \in Answered, pc' = pc,
               \/ Respond(r, <<n>>) /\ r.op # "read"
               \/ Respond(r, <<n, n>>) /\ r.op = "read"
        PROVE  Turns'
    <2>1. r \in Requests
      BY <1>1 DEF r, Types
    <2>2. <<n>> \in Seq(Returned) /\ <<n, n>> \in Seq(Returned)
          /\ Len(<<n>>) = 1 /\ Len(<<n, n>>) = 2
      OBVIOUS
    <2>3. Answer(r, IF r.op = "read" THEN 2 ELSE 1) \/ LoseAnswer(r)
      BY <1>6, <2>1, <2>2, RespondAfter
    <2>4. ends' \subseteq ends
      BY <2>3 DEF Answer, LoseAnswer, Stop
    <2>5. CASE Answer(r, IF r.op = "read" THEN 2 ELSE 1)
      BY <1>1, <1>6, <2>4, <2>5, AnswerTurns DEF r
    <2>6. CASE LoseAnswer(r)
      BY <1>3, <1>6, <2>4, <2>6 DEF LoseAnswer
    <2> QED
      BY <2>3, <2>5, <2>6
  <1>7. -1 \in Returned /\ 0 \in Returned
    BY HandleZero DEF Returned
  <1>8. CASE r.op = "open" /\ ServeOpen(r)
    <2>1. PICK n \in Returned : Respond(r, <<n>>)
      BY <1>7, <1>8 DEF ServeOpen, Returned
    <2> QED
      BY <1>6, <1>8, <2>1 DEF ServeOpen, Answered
  <1>9. CASE r.op = "close" /\ ServeClose(r)
    <2>1. PICK n \in Returned : Respond(r, <<n>>)
      BY <1>7, <1>9 DEF ServeClose
    <2> QED
      BY <1>6, <1>9, <2>1 DEF ServeClose, Answered
  <1>10. CASE r.op = "write" /\ ServeWrite(r)
    <2>1. PICK n \in Returned : Respond(r, <<n>>)
      BY <1>2, <1>7, <1>10 DEF ServeWrite, Outcomes
    <2> QED
      BY <1>2, <1>6, <1>10, <2>1 DEF ServeWrite, Answered
  <1>11. CASE r.op = "read" /\ ServeRead(r)
    <2>1. PICK n \in Returned : Respond(r, <<n, n>>)
      BY <1>2, <1>7, <1>11 DEF ServeRead, Outcomes
    <2> QED
      BY <1>2, <1>6, <1>11, <2>1 DEF ServeRead, Answered
  <1> QED
    BY <1>2, <1>4, <1>5, <1>8, <1>9, <1>10, <1>11 DEF Serve, r

\* The order of the pipes, while the server serves.
InOrder == server = "up" => Turns

LEMMA TurnsAfter == Types /\ InOrder /\ OneAtATime /\ OneAtATime' /\ [Next]_vars => InOrder'
  <1> SUFFICES ASSUME Types, InOrder, OneAtATime, OneAtATime', [Next]_vars, server' = "up"
               PROVE  Turns'
    BY DEF InOrder
  <1>1. ASSUME NEW c \in Clients, Mount(c) PROVE Turns'
    BY <1>1, MountTurns DEF Mount, InOrder
  <1>2. ASSUME NEW c \in Clients, Call(c) PROVE Turns'
    BY <1>2, CallTurns DEF Call, serverVars, InOrder
  <1>3. ASSUME NEW c \in Clients, Receive(c) PROVE Turns'
    BY <1>3, ReceiveTurns DEF Receive, InOrder
  <1>4. ASSUME NEW c \in Clients, Fill(c) PROVE Turns'
    BY <1>4, FillTurns DEF Fill, InOrder
  <1>5. ASSUME NEW c \in Clients, Die(c) PROVE Turns'
    BY <1>5, DieTurns DEF Die, serverVars, InOrder
  <1>6. CASE Serve
    BY <1>6, ServeTurns DEF Serve, InOrder
  <1>7. CASE UNCHANGED vars
    BY <1>7 DEF vars, clientVars, serverVars, InOrder, Turns, MountIsLast, Outsiders, InTurn,
                Active
  <1> QED
    BY <1>1, <1>2, <1>3, <1>4, <1>5, <1>6, <1>7 DEF Next, Exit, Stop

LEMMA InitTurns == Init => InOrder
  BY EmptySeq DEF Init, InOrder, Turns, MountIsLast, Outsiders, InTurn

\* What the order of the pipes says of each call.
LEMMA TurnsMatch == Types /\ InOrder => AnswersMatchCalls
  <1> SUFFICES ASSUME Types, Turns, NEW c \in ends,
                      NEW asked, asked = {k \in DOMAIN requests : requests[k].from = c}
               PROVE  /\ pc[c] \in {"mounted", "outside"} => asked = {} /\ inbox[c] = <<>>
                      /\ InCall(c) => \A j, k \in asked : j = k
                      /\ pc[c] # "gone" /\ asked # {} => inbox[c] = <<>>
                      /\ \A k \in DOMAIN inbox[c] :
                           pc[c] # "gone" => inbox[c][k].op = call[c].op
    BY DEF AnswersMatchCalls, InOrder
  <1>1. c \in Clients /\ pc[c] \notin {"outside", "opening"}
    BY DEF Types, TypeOK, Turns, Outsiders
  <1>2. /\ DOMAIN requests = 1 .. Len(requests) /\ Len(requests) \in Nat
        /\ DOMAIN inbox[c] = 1 .. Len(inbox[c])
    BY <1>1, LenProperties DEF Types
  <1>3. CASE pc[c] = "gone"
    BY <1>3 DEF InCall
  <1>4. CASE Active(c)
    <2>1. InTurn(c)
      BY <1>1 DEF Turns
    <2>2. requests = <<>> => asked = {}
      BY <1>2, EmptySeq
    <2>3. Len(requests) <= 1 => \A j, k \in asked : j = k
      BY <1>2
    <2> QED
      BY <1>1, <1>2, <1>4, <2>1, <2>2, <2>3 DEF InTurn, Active, InCall
  <1> QED
    BY <1>1, <1>3, <1>4 DEF Active, Types, TypeOK

\* For any number of clients that the server serves one after another, the
\* ones that end in the middle of a call included, a client never takes the
\* answer to an earlier call, its own or that of a client before it.
THEOREM AnswersMatch == Spec /\ []OneAtATime => []AnswersMatchCalls
  <1>1. Types /\ InOrder /\ OneAtATime /\ OneAtATime' /\ [Next]_vars => InOrder'
    BY TurnsAfter
  <1> QED
    BY <1>1, InitTurns, TypesKept, TurnsMatch, PTL DEF Spec

-----------------------------------------------------------------------------
(***************************************************************************)
(* The server and careful clients.                                         *)
(***************************************************************************)

\* One client in the life of the server: there is one session, which is never
\* given again.
OneClientEver == \A c, d \in Clients : pc[c] # "outside" /\ pc[d] # "outside" => c = d

AllCareful == OpenFilesKept /\ \A c \in Clients : Careful(c)

\* The server has nothing before it that makes it wait or end: neither a request
\* with another opcode or id than a careful client's, nor a handle, that is open,
\* beyond the end of its file.
Serves ==
  /\ server = "up"
  /\ \A h \in open : offset[h] = "within"
  /\ \A k \in 1 .. Len(requests) :
       /\ requests[k].op \in Answered /\ requests[k].id = 0 /\ pc[requests[k].from] # "outside"
       /\ requests[k].op = "mount" =>
            pc[requests[k].from] = "opening" /\ Len(requests) = 1 /\ ses_id = -1
       /\ requests[k].op # "mount" => requests[k].from \in ends
  /\ \A c \in ends : pc[c] # "outside"
  /\ \A c \in Clients : pc[c] \in {"waiting", "filling", "mounted"} => c \in ends
  /\ ses_id # -1 => \E c \in Clients : pc[c] # "outside"

Ended == server = "stopped" /\ writers = {}

\* Requests and the clients they are from.
LEMMA RequestsTyped ==
  ASSUME Types
  PROVE  /\ \A k \in 1 .. Len(requests) : requests[k] \in Requests /\ requests[k].from \in Clients
         /\ DOMAIN requests = 1 .. Len(requests) /\ Len(requests) \in Nat
  <1>1. requests \in Seq(Requests)
    BY DEF Types
  <1>2. DOMAIN requests = 1 .. Len(requests) /\ Len(requests) \in Nat
    BY <1>1, LenProperties
  <1>3. \A k \in 1 .. Len(requests) : requests[k] \in Requests
    BY <1>1
  <1> QED
    BY <1>2, <1>3 DEF Requests

LEMMA EndedAfter ==
  ASSUME Ended, Next
  PROVE  Ended'
  BY DEF Ended, Next, Mount, Call, Send, Receive, Hangup, Accept, Fill, Die, Serve, Exit,
         serverVars

LEMMA MountServes ==
  ASSUME Types, Serves, OneClientEver', NEW c \in Clients, Mount(c)
  PROVE  Serves'
  <1> DEFINE m == Request(c, "mount", 0, -1)
  <1>1. m \in Requests /\ m.from = c /\ m.op = "mount" /\ m.id = 0
    BY HandleZero, RequestTyped DEF Answered, Returned
  <1> HIDE DEF m
  <1>2. /\ pc[c] = "outside" /\ pc'[c] = "opening"
        /\ UNCHANGED <<ends, ses_id, server, open, offset>>
        /\ \A d \in Clients \ {c} : pc'[d] = pc[d]
    BY DEF Mount, Send, files, Types, TypeOK
  <1>3. \A d \in Clients : pc[d] = "outside"
    BY <1>2 DEF OneClientEver
  <1>4. ses_id = -1 /\ ends = {}
    BY <1>3 DEF Serves, Types, TypeOK
  <1>5. Len(requests) = 0
    BY <1>3, RequestsTyped DEF Serves
  <1>6. requests' = Append(requests, m) /\ requests \in Seq(Requests)
    BY DEF Mount, Send, m, Types, Serves
  <1>7. Len(requests') = 1 /\ requests'[1] = m
    BY <1>1, <1>5, <1>6, Appended
  <1>8. \A d \in Clients : pc'[d] \notin {"waiting", "filling", "mounted"}
    BY <1>2, <1>3
  <1> QED
    BY <1>1, <1>2, <1>4, <1>7, <1>8 DEF Serves, Answered

LEMMA CallServes ==
  ASSUME Types, Serves, AllCareful, AllCareful', OneClientEver, NEW c \in Clients, Call(c)
  PROVE  Serves'
  <1>1. PICK op \in ClientCalls, fh \in Returned, request \in Requests :
          /\ Send(c, op, fh, "waiting", request)
          /\ request.from = c /\ request.op # "mount"
          /\ op \notin {"unmount", "shutdown"} => request.op = op /\ request.id = id[c]
    BY CallSends
  <1>2. call'[c].op = op
    BY <1>1 DEF Send, Types
  <1>3. request.op \in Answered /\ request.id = 0
    BY <1>1, <1>2, SessionAssumption DEF AllCareful, Careful, Answered
  <1>4. /\ pc[c] = "mounted" /\ pc'[c] = "waiting"
        /\ UNCHANGED <<ends, ses_id, server, open, offset>>
        /\ \A d \in Clients \ {c} : pc'[d] = pc[d]
    BY <1>1 DEF Call, Send, serverVars, files, Types, TypeOK, Serves
  <1>5. requests' = Append(requests, request) /\ requests \in Seq(Requests)
    BY <1>1 DEF Send, Types, Serves
  <1>6. /\ Len(requests') = Len(requests) + 1 /\ Len(requests) \in Nat
        /\ \A k \in 1 .. Len(requests) : requests'[k] = requests[k] /\ requests[k].from \in Clients
        /\ requests'[Len(requests) + 1] = request
    BY <1>1, <1>5, Appended
  <1>7. ASSUME NEW k \in 1 .. Len(requests')
        PROVE  /\ requests'[k].op \in Answered /\ requests'[k].id = 0
               /\ pc'[requests'[k].from] # "outside" /\ requests'[k].op # "mount"
               /\ requests'[k].from \in ends
    <2>1. CASE k \in 1 .. Len(requests)
      <3>1. requests'[k] = requests[k] /\ requests[k].from \in Clients
        BY <1>6, <2>1
      <3>2. /\ requests[k].op \in Answered /\ requests[k].id = 0 /\ pc[requests[k].from] # "outside"
            /\ requests[k].op = "mount" => pc[requests[k].from] = "opening"
            /\ requests[k].op # "mount" => requests[k].from \in ends
        BY <2>1 DEF Serves
      <3>3. requests[k].from = c
        BY <1>4, <3>1, <3>2 DEF OneClientEver
      <3> QED
        BY <1>4, <3>1, <3>2, <3>3
    <2>2. CASE k = Len(requests) + 1
      BY <1>1, <1>3, <1>4, <1>6, <2>2 DEF Serves
    <2> QED
      BY <1>6, <2>1, <2>2
  <1>8. \A d \in Clients : /\ pc[d] # "outside" => pc'[d] # "outside"
                           /\ pc'[d] \in {"waiting", "filling", "mounted"} => d \in ends
    BY <1>4 DEF Serves
  <1> QED
    BY <1>4, <1>7, <1>8 DEF Serves, Types, TypeOK

\* A step of a client that puts nothing in the server's pipe, and that keeps
\* the client from the start.
LEMMA ClientServes ==
  ASSUME Types, Serves, AllCareful', NEW c \in Clients,
         UNCHANGED <<requests, ends, ses_id, server, open, offset>>,
         \A d \in Clients \ {c} : pc'[d] = pc[d], pc'[c] # "outside",
         pc[c] \in {"waiting", "filling", "mounted"} \/ pc'[c] = "gone"
  PROVE  Serves'
  <1>1. ASSUME NEW k \in 1 .. Len(requests)
        PROVE  /\ pc'[requests[k].from] # "outside"
               /\ requests[k].op = "mount" => pc'[requests[k].from] = "opening"
    <2>1. requests[k].from \in Clients /\ k \in DOMAIN requests
      BY RequestsTyped
    <2>2. requests[k].from = c => pc'[c] # "gone"
      BY <2>1 DEF AllCareful, Careful
    <2> QED
      BY <2>1, <2>2 DEF Serves
  <1>2. \A d \in Clients : /\ pc[d] # "outside" => pc'[d] # "outside"
                           /\ pc'[d] \in {"waiting", "filling", "mounted"} => d \in ends
    BY DEF Serves
  <1> QED
    BY <1>1, <1>2 DEF Serves, Types, TypeOK

LEMMA ServeServes ==
  ASSUME Types, Turns, Serves, AllCareful, AllCareful', OneClientEver, Serve
  PROVE  Serves'
  <1> DEFINE r == Head(requests)
  <1>1. /\ requests # <<>> /\ requests' = Tail(requests) /\ server = "up"
    BY DEF Serve
  <1>2. /\ Len(requests) \in Nat \ {0} /\ Len(requests') = Len(requests) - 1
        /\ \A k \in 1 .. Len(requests') : k + 1 \in 1 .. Len(requests) /\ requests'[k] = requests[k + 1]
        /\ 1 \in 1 .. Len(requests) /\ r = requests[1]
    BY <1>1, TakenOut DEF Types
  <1> HIDE DEF r
  <1>3. /\ r \in Requests /\ r.from \in Clients /\ r.op \in Answered /\ r.id = 0
        /\ pc[r.from] \notin {"outside", "gone"}
        /\ r.op = "mount" => pc[r.from] = "opening" /\ Len(requests) = 1 /\ ses_id = -1
        /\ r.op # "mount" => r.from \in ends
    BY <1>2, RequestsTyped DEF Serves, AllCareful, Careful
  <1>4. CASE r.op = "mount" /\ ServeMount(r)
    <2>1. /\ pc' = [pc EXCEPT ![r.from] = "waiting"] /\ server' = server
          /\ ends' = ends \cup {r.from} /\ UNCHANGED <<open, offset>>
      BY <1>3, <1>4 DEF ServeMount, files
    <2>2. Len(requests') = 0
      <3>1. Len(requests) = 1 /\ Len(requests') = Len(requests) - 1
        BY <1>2, <1>3, <1>4
      <3> QED
        BY <3>1
    <2>3. /\ pc'[r.from] = "waiting"
          /\ \A d \in Clients :
               /\ pc[d] # "outside" => pc'[d] # "outside"
               /\ pc'[d] \in {"waiting", "filling", "mounted"} => d \in ends'
      BY <1>3, <2>1 DEF Serves, Types, TypeOK
    <2> QED
      BY <1>1, <1>3, <2>1, <2>2, <2>3 DEF Serves, Types, TypeOK
  <1>5. ASSUME pc' = pc, ses_id' = ses_id, ends' = ends, server' = server,
               \A h \in open' : offset'[h] \in {"within", "ahead"}
        PROVE  Serves'
    <2>1. ASSUME NEW k \in 1 .. Len(requests')
          PROVE  /\ requests'[k].op \in Answered /\ requests'[k].id = 0
                 /\ pc[requests'[k].from] # "outside" /\ requests'[k].op # "mount"
                 /\ requests'[k].from \in ends
      <3>1. k + 1 \in 1 .. Len(requests) /\ requests'[k] = requests[k + 1] /\ Len(requests) # 1
        BY <1>2
      <3> QED
        BY <3>1 DEF Serves
    <2>2. \A h \in open' : offset'[h] = "within"
      BY <1>5 DEF AllCareful, OpenFilesKept
    <2> QED
      BY <1>5, <2>1, <2>2 DEF Serves
  <1>6. ASSUME NEW n \in Returned, pc' = pc, Respond(r, <<n>>) \/ Respond(r, <<n, n>>),
               \A h \in open' : offset'[h] \in {"within", "ahead"}
        PROVE  Serves'
    <2>1. fcl \in ends => pc[fcl] # "gone"
      BY <1>3 DEF OneClientEver, Serves, Types, TypeOK
    <2> QED
      BY <1>5, <1>6, <2>1 DEF Respond
  <1>7. -1 \in Returned /\ 0 \in Returned
    BY HandleZero DEF Returned
  <1>8. CASE r.op = "open" /\ ServeOpen(r)
    <2>1. PICK n \in Returned : Respond(r, <<n>>)
      BY <1>7, <1>8 DEF ServeOpen, Returned
    <2>2. \A h \in open' : offset'[h] \in {"within", "ahead"}
      <3>1. PICK S \in SUBSET Handles :
              \/ \E k \in Handles : /\ open' = open \cup {k}
                                    /\ offset' = [Truncated(S) EXCEPT ![k] = "within"]
              \/ open' = open /\ offset' = Truncated(S)
        BY <1>8 DEF ServeOpen
      <3>2. \A h \in open : Truncated(S)[h] \in {"within", "ahead"}
        BY DEF Truncated, Serves, Types, TypeOK
      <3>3. DOMAIN Truncated(S) = Handles
        BY DEF Truncated
      <3>4. CASE open' = open /\ offset' = Truncated(S)
        BY <3>2, <3>4
      <3>5. ASSUME NEW k \in Handles, open' = open \cup {k},
                   offset' = [Truncated(S) EXCEPT ![k] = "within"]
            PROVE  \A h \in open' : offset'[h] \in {"within", "ahead"}
        <4>1. offset'[k] = "within" /\ \A h \in open \ {k} : offset'[h] = Truncated(S)[h]
          BY <3>3, <3>5 DEF Types, TypeOK
        <4> QED
          BY <3>2, <3>5, <4>1
      <3> QED
        BY <3>1, <3>4, <3>5
    <2> QED
      BY <1>6, <1>8, <2>1, <2>2 DEF ServeOpen
  <1>9. CASE r.op = "close" /\ ServeClose(r)
    <2>1. PICK n \in Returned : Respond(r, <<n>>)
      BY <1>7, <1>9 DEF ServeClose
    <2>2. \A h \in open' : offset'[h] \in {"within", "ahead"}
      BY <1>9 DEF ServeClose, Serves
    <2> QED
      BY <1>6, <1>9, <2>1, <2>2 DEF ServeClose
  <1>10. ASSUME r.op \in {"write", "read"}
         PROVE  Stands(r) = "within"
    <2>1. InTurn(r.from) /\ Active(r.from) /\ r.from \in ends
      BY <1>3, <1>10 DEF Turns, Active, Types, TypeOK
    <2>2. call[r.from].op = r.op /\ call[r.from].fh = r.fh
      BY <1>2, <1>3, <1>10, <2>1 DEF InTurn
    <2>3. InCall(r.from)
      BY <1>1, <2>1 DEF InTurn, Active, InCall
    <2>4. r.fh \in open \cup {-1}
      BY <1>3, <1>10, <2>2, <2>3 DEF AllCareful, Careful
    <2> QED
      BY <2>4 DEF Stands, Serves, Handles
  <1>11. CASE r.op = "write" /\ ServeWrite(r)
    <2>1. PICK n \in Returned : Respond(r, <<n>>)
      BY <1>7, <1>10, <1>11 DEF ServeWrite, Outcomes
    <2>2. \A h \in open' : offset'[h] \in {"within", "ahead"}
      BY <1>10, <1>11 DEF ServeWrite, Extended, Serves, Types, TypeOK
    <2> QED
      BY <1>6, <1>11, <2>1, <2>2 DEF ServeWrite
  <1>12. CASE r.op = "read" /\ ServeRead(r)
    <2>1. PICK n \in Returned : Respond(r, <<n, n>>) /\ UNCHANGED offset
      BY <1>7, <1>10, <1>12 DEF ServeRead, Outcomes
    <2>2. \A h \in open' : offset'[h] \in {"within", "ahead"}
      BY <1>12, <2>1 DEF ServeRead, Serves
    <2> QED
      BY <1>6, <1>12, <2>1, <2>2 DEF ServeRead
  <1>13. ~WildLock(r)
    BY <1>3 DEF WildLock
  <1> QED
    BY <1>3, <1>4, <1>8, <1>9, <1>11, <1>12, <1>13 DEF Serve, Answered, r

LEMMA ServesAfter ==
  Types /\ InOrder /\ (Serves \/ Ended) /\ AllCareful /\ AllCareful' /\ OneClientEver
    /\ OneClientEver' /\ [Next]_vars => (Serves \/ Ended)'
  <1> SUFFICES ASSUME Types, Turns, Serves, AllCareful, AllCareful',
                      OneClientEver, OneClientEver', Next
               PROVE  Serves' \/ Ended'
    BY EndedAfter DEF InOrder, Serves, Ended, vars, clientVars, serverVars, files
  <1>1. ASSUME NEW c \in Clients, Mount(c) PROVE Serves'
    BY <1>1, MountServes
  <1>2. ASSUME NEW c \in Clients, Call(c) PROVE Serves'
    BY <1>2, CallServes
  <1>3. ASSUME NEW c \in Clients, Receive(c) PROVE Serves'
    <2>1. /\ pc[c] = "waiting" /\ pc' = [pc EXCEPT ![c] = AfterReply(call[c].op)]
          /\ UNCHANGED <<requests, ends, ses_id, server, open, offset>>
      BY <1>3 DEF Receive, Hangup, Accept, files
    <2>2. pc'[c] # "outside" /\ \A d \in Clients \ {c} : pc'[d] = pc[d]
      BY <2>1 DEF AfterReply, AllCareful, Careful, Types, TypeOK
    <2> QED
      BY <2>1, <2>2, ClientServes
  <1>4. ASSUME NEW c \in Clients, Fill(c) \/ Die(c) PROVE Serves'
    <2>1. /\ pc[c] = "filling" \/ pc'[c] = "gone"
          /\ pc'[c] # "outside" /\ \A d \in Clients \ {c} : pc'[d] = pc[d]
          /\ UNCHANGED <<requests, ends, ses_id, server, open, offset>>
      BY <1>4 DEF Fill, Die, serverVars, files, Types, TypeOK
    <2> QED
      BY <2>1, ClientServes
  <1>5. CASE Exit
    BY <1>5 DEF Exit, Stop, clientVars, Ended
  <1> QED
    BY <1>1, <1>2, <1>3, <1>4, <1>5, ServeServes DEF Next

\* For any number of handles: one client that is careful, and truncates no file
\* it has open, keeps the server, which neither hangs nor runs off its memory nor
\* ends in another way before its client does.
THEOREM CarefulClientKeepsTheServer == Spec /\ []OneClientEver => CarefulClientsKeepTheServer
  <1>1. Init => Serves
    BY EmptySeq DEF Init, Serves
  <1>2. Serves \/ Ended => server = "up" \/ (server = "stopped" /\ writers = {})
    BY DEF Serves, Ended
  <1>3. OneClientEver => OneAtATime
    BY DEF OneClientEver, OneAtATime, Active
  <1>4. Types /\ InOrder /\ OneAtATime /\ OneAtATime' /\ [Next]_vars => InOrder'
    BY TurnsAfter
  <1> QED
    BY <1>1, <1>2, <1>3, <1>4, InitTurns, ServesAfter, TypesKept, PTL
       DEF Spec, CarefulClientsKeepTheServer, AllCareful
=============================================================================
