---- MODULE Chat ----
(***************************************************************************)
(* The chat: pages that send turns, reset the conversation, upload and     *)
(* view files (docker/chat-server/public/main.js), composed with the       *)
(* server.  The answer to a call is a message of its own: it may reach the *)
(* page before or after the frames the server wrote while handling it, and *)
(* a call may fail before or after it was handled.                         *)
(***************************************************************************)
EXTENDS ChatServer, SequencesExt

CONSTANTS Message,    \* what a user may have typed, "" for nothing
          UploadLists,\* the lists of files a user may drop at once
          Budgets     \* bounds: the pages open (tabs), the files there at first,
                      \* and how often each thing may still happen; listings
                      \* is the number of fetches of the list at once

HowOften == {"late", "listings", "submits", "resets", "uploads", "views", "closings",
             "drops", "losses", "failures", "outputs", "traces"}

ASSUME BudgetsAssumption ==
    \A b \in Budgets :
        /\ DOMAIN b = {"tabs", "files"} \union HowOften
        /\ b.tabs \subseteq Page /\ b.files \subseteq File
        /\ \A what \in HowOften : b[what] \in Nat

ASSUME UploadListsAssumption == UploadLists \subseteq Seq(Uploads)

VARIABLE page         \* the state of each page

vars == <<serverVars, page>>

-----------------------------------------------------------------------------
\* The calls of effects.js.
Call(kind, arg) == [kind |-> kind, arg |-> arg, stage |-> "sent"]
FilesCall ==
    [kind |-> "files", arg |-> <<>>, stage |-> "sent", listed |-> {}, body |-> NoFiles]
InFlight(p, kind) == \E i \in DOMAIN calls[p] : calls[p][i].kind = kind

\* Every page has booted: its first loadFiles is under way, and its stream is
\* open, or not yet, and it may not be for long.
Init ==
    /\ budget \in Budgets
    /\ clients \in {c \in SUBSET budget.tabs : Cardinality(budget.tabs \ c) <= budget.late}
    /\ sessionId = {} /\ busy = FALSE
    /\ turn = [of |-> 0, next |-> {}]
    /\ workspace = [f \in File |-> IF f \in budget.files THEN 1 ELSE 0]
    /\ stream = [p \in Page |-> <<>>]
    /\ transcript = <<>>
    /\ calls = [p \in Page |-> IF budget.listings > 0 THEN <<FilesCall>> ELSE <<>>]
    /\ unheard = [p \in Page |-> IF budget.listings > 0 THEN {} ELSE {"files"}]
    /\ page = [p \in Page |-> InitialState]

\* Whether one more fetch of the list is within the bound.
Room(others) == Len(SelectSeq(others, LAMBDA c : c.kind = "files")) < budget.listings

\* loadFiles; where no call can be made it fails at once, and nothing changes.
LoadFiles(p, others) ==
    IF Room(others)
    THEN /\ calls' = [calls EXCEPT ![p] = Append(others, FilesCall)]
         /\ UNCHANGED unheard
    ELSE /\ calls' = [calls EXCEPT ![p] = others]
         /\ unheard' = [unheard EXCEPT ![p] = @ \union {"files"}]

Become(p, s) == page' = [page EXCEPT ![p] = s]

SubmitTurnEagerly(p, message) ==                                   \* mutant
    /\ CanSend(page[p])
    /\ Spend("submits")
    /\ Become(p, StatusChanged(page[p], "working"))
    /\ calls' = [calls EXCEPT ![p] = IF message = "" THEN @ ELSE Append(@, Call("chat", message))]
    /\ UNCHANGED <<clients, sessionId, busy, turn, workspace, stream, transcript, unheard>>

\* submitTurn: nothing typed or a turn known to run is a no-op.
SubmitTurn(p, message) ==
    /\ message # "" /\ CanSend(page[p])
    /\ Spend("submits")
    /\ Become(p, StatusChanged(page[p], "working"))
    /\ calls' = [calls EXCEPT ![p] = Append(@, Call("chat", message))]
    /\ UNCHANGED <<clients, sessionId, busy, turn, workspace, stream, transcript, unheard>>

NewChat(p) ==
    /\ Spend("resets")
    /\ calls' = [calls EXCEPT ![p] = Append(@, Call("reset", <<>>))]
    /\ UNCHANGED <<clients, sessionId, busy, turn, workspace, stream, transcript, unheard, page>>

UploadFiles(p, files) ==
    /\ ~page[p].upload.busy /\ files # <<>>
    /\ Spend("uploads")
    /\ Become(p, UploadStarted(page[p]))
    /\ calls' = [calls EXCEPT ![p] = Append(@, Call("upload", files))]
    /\ UNCHANGED <<clients, sessionId, busy, turn, workspace, stream, transcript, unheard>>

\* A click on a row.  The page goes astray when the answer about another file
\* is still to come: whichever comes last will be shown.
OpenViewer(p, file) ==
    /\ Spend("views")
    /\ Become(p, ViewerOpened(page[p], file))
    /\ calls' = [calls EXCEPT ![p] = Append(@, Call("view", file))]
    /\ unheard' = [unheard EXCEPT ![p] =
          IF \E i \in DOMAIN calls[p] : calls[p][i].kind = "view" /\ calls[p][i].arg # file
          THEN @ \union {"viewer"}
          ELSE IF InFlight(p, "view") THEN @ ELSE @ \ {"viewer"}]
    /\ UNCHANGED <<clients, sessionId, busy, turn, workspace, stream, transcript>>

CloseViewer(p) ==
    /\ page[p].viewer.open /\ Spend("closings")
    /\ Become(p, ViewerClosed(page[p]))
    /\ UNCHANGED <<clients, sessionId, busy, turn, workspace, stream, calls, transcript, unheard>>

\* The next frame of the stream; a nudge makes the page fetch the files.
Receive(p) ==
    /\ stream[p] # <<>>
    /\ stream' = [stream EXCEPT ![p] = Tail(@)]
    /\ IF Head(stream[p]).type = "workspace"
       THEN LoadFiles(p, calls[p]) /\ UNCHANGED page
       ELSE Become(p, HearConversation(page[p], Head(stream[p]))) /\ UNCHANGED <<calls, unheard>>
    /\ UNCHANGED <<clients, sessionId, busy, turn, workspace, transcript, budget>>

-----------------------------------------------------------------------------
\* What is left of the calls of a page when one of them is over.
Others(p, i) == RemoveAt(calls[p], i)
Over(p, i) == calls' = [calls EXCEPT ![p] = Others(p, i)]
Marked(p, what) == unheard' = [unheard EXCEPT ![p] = @ \union what]

\* The rest of submitTurn: 204 says nothing new, 409 leaves the status alone.
ChatAnswer(s, status) ==
    LET noted == AddMessage(s, "error", Local) IN
    IF status = 204 THEN s
    ELSE IF status = 409 THEN noted ELSE StatusChanged(noted, "idle")

AnswerChat(p, i) ==
    /\ At(p, i, "chat", "answered")
    /\ Become(p, ChatAnswer(page[p], calls[p][i].status))
    /\ Over(p, i)
    /\ UNCHANGED <<clients, sessionId, busy, turn, workspace, stream, transcript, unheard, budget>>

\* The rest of newChat.  The answer wipes what the page shows of the
\* conversation and of a turn by then, unless the reset is still to be heard.
Wiped(p) ==
    IF Pending(p, "reset") THEN {}
    ELSE {a \in {"messages", "status"} :
            IF a = "messages" THEN Conversation(page[p].messages) # <<>>
                              ELSE busy /\ ~Pending(p, "status")}

AnswerReset(p, i) ==
    /\ At(p, i, "reset", "answered")
    /\ LET ok     == calls[p][i].status = 204
           wiped  == IF ok THEN Wiped(p) ELSE {}
           others == Others(p, i)
           room   == Room(others)
       IN /\ Become(p, IF ok THEN ConversationReset(page[p]) ELSE page[p])
          /\ calls' = [calls EXCEPT ![p] = IF room THEN Append(others, FilesCall) ELSE others]
          /\ Marked(p, wiped \union IF room THEN {} ELSE {"files"})
    /\ UNCHANGED <<clients, sessionId, busy, turn, workspace, stream, transcript, budget>>

\* The rest of loadFiles replaces the list, by an older one when answers cross.
Older(old, new) == \E f \in File : old[f] < new[f]

AnswerFiles(p, i) ==
    /\ At(p, i, "files", "answered")
    /\ Become(p, FilesLoaded(page[p], calls[p][i].body))
    /\ Over(p, i)
    /\ Marked(p, IF Older(calls[p][i].body, page[p].files) THEN {"files"} ELSE {})
    /\ UNCHANGED <<clients, sessionId, busy, turn, workspace, stream, transcript, budget>>

\* The rest of uploadFiles: the first failure ends the pass, else the next
\* file is sent, and after the last one the list is fetched.
AnswerUpload(p, i) ==
    /\ At(p, i, "upload", "answered")
    /\ LET rest == Tail(calls[p][i].arg) IN
       IF calls[p][i].status # 200
       THEN Become(p, UploadEnded(page[p], TRUE)) /\ Over(p, i) /\ UNCHANGED unheard
       ELSE IF rest # <<>>
       THEN /\ calls' = [calls EXCEPT ![p] = Append(Others(p, i), Call("upload", rest))]
            /\ UNCHANGED <<page, unheard>>
       ELSE Become(p, UploadEnded(page[p], FALSE)) /\ LoadFiles(p, Others(p, i))
    /\ UNCHANGED <<clients, sessionId, busy, turn, workspace, stream, transcript, budget>>

\* The rest of openViewer, whatever file the viewer is about by now.
AnswerView(p, i) ==
    /\ At(p, i, "view", "answered")
    /\ Become(p, IF calls[p][i].status = 200 THEN ViewerLoaded(page[p], calls[p][i].body)
                                             ELSE ViewerFailed(page[p]))
    /\ Over(p, i)
    /\ UNCHANGED <<clients, sessionId, busy, turn, workspace, stream, transcript, unheard, budget>>

\* A call fails: lost before the server took it, or its answer is lost.  Only
\* the uploads and the viewer catch it and tell; a turn that was never taken
\* leaves the page working, with no event to come.
Reject(p, i) ==
    /\ i \in DOMAIN calls[p] /\ calls[p][i].stage \in {"sent", "answered"}
    /\ Spend("losses")
    /\ Over(p, i)
    /\ LET c == calls[p][i] IN
       /\ Become(p, CASE c.kind = "upload" -> UploadEnded(page[p], TRUE)
                      [] c.kind = "view"   -> ViewerFailed(page[p])
                      [] OTHER             -> page[p])
       /\ Marked(p, CASE c.kind = "files" -> {"files"}
                      [] c.kind = "chat" /\ c.stage = "sent" /\ ~Pending(p, "status") -> {"status"}
                      [] OTHER -> {})
    /\ UNCHANGED <<clients, sessionId, busy, turn, workspace, stream, transcript>>

-----------------------------------------------------------------------------
Handle(p, i) == HandleChat(p, i) \/ HandleReset(p, i) \/ HandleFileContent(p, i)
                \/ HandleUpload(p, i) \/ WriteUpload(p, i) \/ FinishUpload(p, i)
                \/ (\E s \in {Uploads, File \ Uploads} : HandleFiles(p, i, s))

Answered(p, i) == AnswerChat(p, i) \/ AnswerReset(p, i) \/ AnswerFiles(p, i)
                  \/ AnswerUpload(p, i) \/ AnswerView(p, i)

ServerStep ==
    /\ \/ AgentSession \/ AgentTrace \/ TurnSucceeds \/ TurnFails
       \/ \E f \in File \ Uploads : AgentWrites(f)
       \/ \E p \in Page : Drop(p) \/ \E i \in DOMAIN calls[p] : Handle(p, i)
       \/ \E p \in budget.tabs : Connect(p)
    /\ UNCHANGED page

PageStep(p) ==
    \/ Receive(p) \/ NewChat(p) \/ CloseViewer(p)
    \/ \E m \in Message : SubmitTurn(p, m)
    \/ \E l \in UploadLists : UploadFiles(p, l)
    \/ \E f \in Rows(page[p]) : OpenViewer(p, f)
    \/ \E i \in DOMAIN calls[p] : Answered(p, i) \/ Reject(p, i)

Next == ServerStep \/ \E p \in budget.tabs : PageStep(p)

Spec == Init /\ [][Next]_vars

\* The server gets to every call and the browser to every frame and answer,
\* the agent ends its turns; nothing forces a user, a loss or a reconnection.
Fairness ==
    /\ WF_vars((TurnSucceeds \/ TurnFails) /\ UNCHANGED page)
    /\ WF_vars(AgentSession /\ UNCHANGED page)
    /\ \A p \in Page :
          /\ WF_vars(Receive(p))
          /\ WF_vars(\E i \in DOMAIN calls[p] : Handle(p, i) /\ UNCHANGED page)
          /\ WF_vars(\E i \in DOMAIN calls[p] : Answered(p, i))

FairSpec == Spec /\ Fairness

-----------------------------------------------------------------------------
Roles == {"user", "assistant", "error"}

TypeOK ==
    /\ clients \subseteq Page /\ busy \in BOOLEAN
    /\ turn.of \in Nat /\ sessionId \subseteq 1..turn.of /\ turn.next \subseteq 1..turn.of
    /\ workspace \in [File -> Nat]
    /\ \A p \in Page :
          /\ p \notin clients => stream[p] = <<>>
          /\ page[p].status \in {"idle", "working"}
          /\ \A i \in DOMAIN page[p].messages : page[p].messages[i].role \in Roles
          /\ page[p].files \in [File -> Nat]
          /\ page[p].upload.busy = InFlight(p, "upload")
          /\ unheard[p] \subseteq {"messages", "status", "files", "viewer"}

\* What the page will be once it has heard the frames on their way to it.
CaughtUp(p) == HearAll(page[p], stream[p])

\* "The UI is a pure projection of the event stream": a page that missed no
\* message since the last reset, and whose own reset was not answered after
\* the turn that followed it, shows the conversation, all of it and in order,
\* beside the notes it makes itself.  (server.mjs:5, main.js:67, 171-177)
Projection ==
    \A p \in Page : "messages" \notin unheard[p] =>
        Conversation(CaughtUp(p).messages) = transcript

\* A page works as long as the server is busy and not longer, once it has no
\* turn of its own to be answered, unless it missed the last status, or its
\* turn was lost before the server took it.  (main.js:50-62, 176)
StatusMirrorsBusy ==
    \A p \in Page : "status" \notin unheard[p] /\ ~InFlight(p, "chat") =>
        (CaughtUp(p).status = "working" <=> busy)

\* A nudge follows every change of the workspace, so a page with nothing under
\* way shows all files, unless it missed a nudge, a fetch failed, or two
\* answers crossed.  (server.mjs:115, 220, main.js:75-80)
Quiet(p) ==
    /\ ~busy /\ ~Pending(p, "workspace") /\ ~InFlight(p, "files")
    /\ \A q \in Page : \A i \in DOMAIN calls[q] : calls[q][i].stage # "written"
MirrorIsCurrent ==
    \A p \in Page : Quiet(p) /\ "files" \notin unheard[p] => page[p].files = workspace

\* A session never remembers a turn from before the reset, and between turns
\* it remembers every turn of the conversation that was answered; of a turn
\* that failed it may remember nothing.  (server.mjs:106, 120-125, agent.mjs:76-97)
SessionIsTheConversation ==
    LET turns(role) == {m.of : m \in {transcript[i] : i \in {j \in DOMAIN transcript :
                                                            transcript[j].role = role}}} IN
    sessionId \subseteq turns("user") /\ (~busy => turns("assistant") \subseteq sessionId)

\* The viewer shows no text but that of the file it names, unless the file was
\* opened while the answer about another one was outstanding.  (main.js:108-123)
ViewerShowsItsFile ==
    \A p \in Page : LET v == page[p].viewer IN
        "viewer" \notin unheard[p] /\ ViewerBody(v) # <<>> => v.text[1] = v.file

\* A page that works comes to rest, or has missed the status that would say so.
TurnsEnd ==
    \A p \in Page :
        page[p].status = "working" ~> page[p].status = "idle" \/ "status" \in unheard[p]
====
