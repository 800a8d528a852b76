---- MODULE ChatPage ----
(***************************************************************************)
(* The page of the chat: its state, the pure reducer `update`, the events  *)
(* it makes of the frames of the event stream, and what `view` shows of    *)
(* its state (docker/chat-server/public).  A message is its role and the   *)
(* number of the turn it belongs to; a file is an element of File and its  *)
(* text is the version of the file that was read.                          *)
(***************************************************************************)
EXTENDS Integers, Sequences

CONSTANT File    \* the files of the workspace a page can name: section and name

\* A listing says which version of each file is there; 0: the file is absent.
NoFiles == [f \in File |-> 0]

\* The note a page makes itself, when the server answers no or not at all.
Local == 0

ClosedViewer == [open |-> FALSE, file |-> <<>>, loading |-> FALSE,
                 failed |-> FALSE, text |-> <<>>]

InitialState ==
    [messages |-> <<>>, status |-> "idle", traces |-> <<>>, files |-> NoFiles,
     upload |-> [busy |-> FALSE, failed |-> FALSE], viewer |-> ClosedViewer]

AddMessage(s, role, of) ==
    [s EXCEPT !.messages = Append(@, [role |-> role, of |-> of])]

\* A transition clears the traces, a status that does not change leaves them.
StatusChanged(s, status) ==
    IF s.status = status THEN s ELSE [s EXCEPT !.status = status, !.traces = <<>>]

ConversationReset(s) ==
    [s EXCEPT !.messages = <<>>, !.status = "idle", !.traces = <<>>]

\* `update` for the events of the conversation,
HearConversation(s, e) ==
    CASE e.type = "user"    -> AddMessage(s, "user", e.of)
      [] e.type = "message" -> AddMessage(s, "assistant", e.of)
      [] e.type = "error"   -> AddMessage(s, "error", e.of)
      [] e.type = "status"  -> StatusChanged(s, e.state)
      [] e.type = "trace"   -> [s EXCEPT !.traces = Append(@, e.of)]
      [] e.type = "reset"   -> ConversationReset(s)
      [] OTHER              -> s

\* ... for the mirror of the workspace and the uploads,
FilesLoaded(s, files)  == [s EXCEPT !.files = files]
UploadStarted(s)       == [s EXCEPT !.upload = [busy |-> TRUE, failed |-> FALSE]]
UploadEndedBusy(s, failed) == [s EXCEPT !.upload.failed = failed]   \* mutant
UploadEnded(s, failed) == [s EXCEPT !.upload = [busy |-> FALSE, failed |-> failed]]

\* ... and for the viewer, whose answer does not say which file it is about.
ViewerOpenedOverText(s, file) ==                                   \* mutant
    [s EXCEPT !.viewer.open = TRUE, !.viewer.file = file]
ViewerOpened(s, file) ==
    [s EXCEPT !.viewer = [ClosedViewer EXCEPT !.open = TRUE, !.file = file, !.loading = TRUE]]
ViewerLoaded(s, text) ==
    [s EXCEPT !.viewer.loading = FALSE, !.viewer.failed = FALSE, !.viewer.text = text]
ViewerFailed(s) == [s EXCEPT !.viewer.loading = FALSE, !.viewer.failed = TRUE]
ViewerClosed(s) == [s EXCEPT !.viewer.open = FALSE]

-----------------------------------------------------------------------------
\* What the page will be once it has heard these frames.
HearAll(s, frames) ==
    LET heard[n \in 0 .. Len(frames)] ==
          IF n = 0 THEN s ELSE HearConversation(heard[n - 1], frames[n])
    IN heard[Len(frames)]

\* What the messages say of the conversation: all but the page's own notes.
Conversation(messages) ==
    LET said[n \in 0 .. Len(messages)] ==
          IF n = 0 THEN <<>>
          ELSE IF messages[n].of = Local THEN said[n - 1]
          ELSE Append(said[n - 1], messages[n])
    IN said[Len(messages)]

-----------------------------------------------------------------------------
(* What view.js shows: the controls and the panels the properties speak of. *)

\* The send button is disabled, and submitTurn returns, while the page works.
CanSend(s) == s.status # "working"

\* The text the open viewer shows, <<>> when it shows a note instead.
ViewerBody(v) == IF ~v.open \/ v.loading \/ v.failed THEN <<>> ELSE v.text

\* The rows of the sidebar, each of which a click opens in the viewer.
Rows(s) == {f \in File : s.files[f] > 0}
====
