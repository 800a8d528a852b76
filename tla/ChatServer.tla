---- MODULE ChatServer ----
(***************************************************************************)
(* The server of the chat (docker/chat-server/server.mjs, agent.mjs): its  *)
(* event streams, one turn at a time, the session it resumes, the mirror   *)
(* of the workspace and the uploads.  Pages talk to it by HTTP calls that  *)
(* are handled and answered in any order; what it says goes out on the     *)
(* streams, in order, to the pages connected at that moment.               *)
(*                                                                         *)
(* A session is the set of turns it remembers, {} is `undefined`.  Calls   *)
(* are records in flight.  Three variables are not the server's:           *)
(* transcript, the conversation since the last reset, and unheard, what a  *)
(* page has no way to know, are there for the properties; budget bounds    *)
(* what users, agent and network may still do.                             *)
(***************************************************************************)
EXTENDS ChatPage

CONSTANTS Page,       \* browser pages
          Uploads,    \* the files of uploads/, written by clients only
          Refused     \* the files POST /upload refuses: bad name or too large

ASSUME UploadsAreFiles == Uploads \subseteq File /\ Refused \subseteq Uploads

VARIABLES clients,    \* pages whose event stream is open
          sessionId,  \* the conversation the next turn resumes
          busy,       \* a turn is running
          turn,       \* the running turn, or the last one
          workspace,  \* version of every file, 0 when it is absent
          stream,     \* frames written to each page and not yet delivered
          calls,      \* HTTP calls of each page in flight
          transcript, unheard, budget

serverVars == <<clients, sessionId, busy, turn, workspace, stream, calls,
                transcript, unheard, budget>>

Spend(what) == budget[what] > 0 /\ budget' = [budget EXCEPT ![what] = @ - 1]

-----------------------------------------------------------------------------
\* The frames of the event stream.
User(n)       == [type |-> "user", of |-> n]
Reply(n)      == [type |-> "message", of |-> n]
Error(n)      == [type |-> "error", of |-> n]
Trace(n)      == [type |-> "trace", of |-> n]
Status(state) == [type |-> "status", state |-> state]
Reset         == [type |-> "reset"]
Workspace     == [type |-> "workspace"]

Aspect(frame) ==
    CASE frame.type \in {"user", "message", "error"} -> {"messages"}
      [] frame.type = "status"    -> {"status"}
      [] frame.type = "reset"     -> {"messages", "status"}
      [] frame.type = "workspace" -> {"files"}
      [] OTHER                    -> {}
Aspects(frames) == UNION {Aspect(frames[i]) : i \in DOMAIN frames}
Pending(p, type) == \E i \in DOMAIN stream[p] : stream[p][i].type = type

\* What a page learns again from frames that are on their way to it.
Repairs(frames) ==
    UNION {Aspect(frames[i]) : i \in {j \in DOMAIN frames :
                                      frames[j].type \in {"status", "reset", "workspace"}}}

Broadcast(frames) ==
    /\ stream' = [p \in Page |-> IF p \in clients THEN stream[p] \o frames ELSE stream[p]]
    /\ unheard' = [p \in Page |-> IF p \in clients THEN unheard[p] \ Repairs(frames)
                                                   ELSE unheard[p] \union Aspects(frames)]

\* GET /events: the stream starts with what is broadcast from now on.
Connect(p) ==
    /\ p \notin clients
    /\ clients' = clients \union {p}
    /\ UNCHANGED <<sessionId, busy, turn, workspace, stream, calls, transcript, unheard, budget>>

\* The connection closes: its client goes, and with it the frames under way.
Drop(p) ==
    /\ p \in clients /\ Spend("drops")
    /\ clients' = clients \ {p}
    /\ stream' = [stream EXCEPT ![p] = <<>>]
    /\ unheard' = [unheard EXCEPT ![p] = @ \union Aspects(stream[p])]
    /\ UNCHANGED <<sessionId, busy, turn, workspace, calls, transcript>>

-----------------------------------------------------------------------------
At(p, i, kind, stage) ==
    i \in DOMAIN calls[p] /\ calls[p][i].kind = kind /\ calls[p][i].stage = stage

Answer(p, i, status, body) ==
    calls' = [calls EXCEPT ![p][i] =
                 [kind |-> @.kind, arg |-> @.arg, stage |-> "answered",
                  status |-> status, body |-> body]]

Advance(p, i, stage) == calls' = [calls EXCEPT ![p][i].stage = stage]

\* POST /chat: refused when empty or while a turn runs, else the turn starts.
Refuse(p, i, status) ==
    Answer(p, i, status, <<>>) /\ UNCHANGED <<sessionId, busy, turn, stream, transcript, unheard>>

StartTurn(p, i) ==
    LET n == turn.of + 1 IN
    /\ busy' = TRUE
    /\ turn' = [of |-> n, next |-> sessionId]
    /\ Answer(p, i, 204, <<>>)
    /\ Broadcast(<<User(n), Status("working")>>)
    /\ transcript' = Append(transcript, [role |-> "user", of |-> n])
    /\ UNCHANGED sessionId

HandleChat(p, i) ==
    /\ At(p, i, "chat", "sent")
    /\ IF calls[p][i].arg = "" THEN Refuse(p, i, 400)
       ELSE IF busy THEN Refuse(p, i, 409)
       ELSE StartTurn(p, i)
    /\ UNCHANGED <<clients, workspace, budget>>

\* Mutants: a reset while a turn runs, and one only its own page hears of.
HandleResetAnyTime(p, i) ==
    /\ At(p, i, "reset", "sent")
    /\ sessionId' = {} /\ transcript' = <<>>
    /\ Broadcast(<<Reset>>) /\ Answer(p, i, 204, <<>>)
    /\ UNCHANGED <<clients, busy, turn, workspace, budget>>

HandleResetUntold(p, i) ==
    /\ At(p, i, "reset", "sent") /\ ~busy
    /\ sessionId' = {} /\ transcript' = <<>> /\ Answer(p, i, 204, <<>>)
    /\ UNCHANGED <<clients, busy, turn, workspace, stream, unheard, budget>>

\* POST /reset drops the conversation: the next turn mints a fresh session.
HandleReset(p, i) ==
    /\ At(p, i, "reset", "sent")
    /\ IF busy THEN Refuse(p, i, 409)
       ELSE /\ sessionId' = {} /\ transcript' = <<>>
            /\ Broadcast(<<Reset>>)
            /\ Answer(p, i, 204, <<>>)
            /\ UNCHANGED <<busy, turn>>
    /\ UNCHANGED <<clients, workspace, budget>>

-----------------------------------------------------------------------------
(* runTurn: the agent resumes the session, shows the tools it uses, writes *)
(* to out/, and ends with a result or throws.                              *)

\* The first message names the session; a resumed session may keep its id.
AgentSession ==
    /\ busy /\ turn.of \notin turn.next
    /\ turn' = [turn EXCEPT !.next = @ \union {turn.of}]
    /\ \E sameId \in {FALSE, sessionId # {}} :
          sessionId' = IF sameId THEN turn'.next ELSE sessionId
    /\ UNCHANGED <<clients, busy, workspace, stream, calls, transcript, unheard, budget>>

AgentTrace ==
    /\ busy /\ turn.of \in turn.next /\ Spend("traces")
    /\ Broadcast(<<Trace(turn.of)>>)
    /\ UNCHANGED <<clients, sessionId, busy, turn, workspace, calls, transcript>>

AgentWrites(f) ==
    /\ busy /\ turn.of \in turn.next /\ Spend("outputs")
    /\ workspace' = [workspace EXCEPT ![f] = @ + 1]
    /\ UNCHANGED <<clients, sessionId, busy, turn, stream, calls, transcript, unheard>>

TurnFailsWorking ==                                                \* mutant
    /\ busy /\ Spend("failures")
    /\ busy' = FALSE
    /\ Broadcast(<<Error(turn.of)>>)
    /\ transcript' = Append(transcript, [role |-> "error", of |-> turn.of])
    /\ UNCHANGED <<clients, sessionId, turn, workspace, calls>>

\* The turn is over: idle, and a nudge to fetch the files, whatever it came to.
Finally(frame) == Broadcast(<<frame, Status("idle"), Workspace>>)

TurnSucceeds ==
    /\ busy /\ turn.of \in turn.next
    /\ sessionId' = turn.next
    /\ busy' = FALSE
    /\ Finally(Reply(turn.of))
    /\ transcript' = Append(transcript, [role |-> "assistant", of |-> turn.of])
    /\ UNCHANGED <<clients, turn, workspace, calls, budget>>

TurnFails ==
    /\ busy /\ Spend("failures")
    /\ busy' = FALSE
    /\ Finally(Error(turn.of))
    /\ transcript' = Append(transcript, [role |-> "error", of |-> turn.of])
    /\ UNCHANGED <<clients, sessionId, turn, workspace, calls>>

-----------------------------------------------------------------------------
\* GET /files lists the two sections one after the other, in either order.
HandleFiles(p, i, section) ==
    /\ At(p, i, "files", "sent") /\ section \cap calls[p][i].listed = {}
    /\ LET c     == calls[p][i]
           listed == c.listed \union section
           body  == [f \in File |-> IF f \in section THEN workspace[f] ELSE c.body[f]]
       IN IF listed = File
          THEN Answer(p, i, 200, body)
          ELSE calls' = [calls EXCEPT ![p][i] = [c EXCEPT !.listed = listed, !.body = body]]
    /\ UNCHANGED <<clients, sessionId, busy, turn, workspace, stream, transcript, unheard, budget>>

\* GET /files/<dir>/<name>: the text of one file, or 404.
HandleFileContent(p, i) ==
    /\ At(p, i, "view", "sent")
    /\ LET f == calls[p][i].arg IN
       IF workspace[f] = 0 THEN Answer(p, i, 404, <<>>)
                           ELSE Answer(p, i, 200, <<f, workspace[f]>>)
    /\ UNCHANGED <<clients, sessionId, busy, turn, workspace, stream, transcript, unheard, budget>>

\* POST /upload: the body is read, or refused, then the file is written, and
\* then the pages are told and the call is answered.
HandleUpload(p, i) ==
    /\ At(p, i, "upload", "sent")
    /\ IF Head(calls[p][i].arg) \in Refused THEN Answer(p, i, 413, <<>>)
                                            ELSE Advance(p, i, "read")
    /\ UNCHANGED <<clients, sessionId, busy, turn, workspace, stream, transcript, unheard, budget>>

WriteUpload(p, i) ==
    /\ At(p, i, "upload", "read")
    /\ workspace' = [workspace EXCEPT ![Head(calls[p][i].arg)] = @ + 1]
    /\ Advance(p, i, "written")
    /\ UNCHANGED <<clients, sessionId, busy, turn, stream, transcript, unheard, budget>>

FinishUploadUntold(p, i) ==                                        \* mutant
    /\ At(p, i, "upload", "written") /\ Answer(p, i, 200, <<>>)
    /\ UNCHANGED <<clients, sessionId, busy, turn, workspace, stream, transcript, unheard, budget>>

FinishUpload(p, i) ==
    /\ At(p, i, "upload", "written")
    /\ Broadcast(<<Workspace>>)
    /\ Answer(p, i, 200, <<>>)
    /\ UNCHANGED <<clients, sessionId, busy, turn, workspace, transcript, budget>>
====
