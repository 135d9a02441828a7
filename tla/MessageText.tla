---------------------------- MODULE MessageText -----------------------------
(***************************************************************************)
(* The text of one message while people edit, delete and translate it:     *)
(*   repository/message_repository.go   UpdateContent, DeleteMessage,      *)
(*                                      UpdateTranslations                 *)
(*   modruntime/business.go             msg.message.update.v1              *)
(*                                                                         *)
(* Each statement is one action: requests run side by side and the         *)
(* repository's functions open no transaction.                             *)
(***************************************************************************)
CONSTANTS
    Edits, Deletes,   \* requests served by the conversation handler
    Commands,         \* msg.message.update.v1, an edit or a deletion
    Translations,     \* requests to translate the message
    None

Requests == Edits \cup Deletes \cup Commands \cup Translations

VARIABLES
    message,  \* the row: deleted, content and the translation of some content
    files,    \* whether its attachments are there
    pc,       \* what each request did last
    read      \* what a translation read of the row

vars == <<message, files, pc, read>>

\* What a deletion leaves of the content: the repository's notice, or nothing (the
\* command).
Erased == {"notice", ""}

Init ==
    /\ message = [deleted |-> FALSE, content |-> "original", translation |-> None]
    /\ files = TRUE
    /\ pc = [r \in Requests |-> "start"]
    /\ read = [r \in Translations |-> None]

Step(r, from, to) == pc[r] = from /\ pc' = [pc EXCEPT ![r] = to]

\* UpdateContent and DeleteMessage: read the row; a deleted one is an error.
ReadRow(r) ==
    /\ Step(r, "start", IF message.deleted THEN "refused" ELSE "read")
    /\ UNCHANGED <<message, files, read>>

\* UpdateContent: write by the id alone.
WriteContent(r) ==
    /\ Step(r, "read", "done")
    /\ message' = [message EXCEPT !.content = "edited"]
    /\ UNCHANGED <<files, read>>

\* DeleteMessage: the row, by its id alone; the translations stay.
WriteDeleted(r) ==
    /\ Step(r, "read", "erased")
    /\ message' = [message EXCEPT !.deleted = TRUE, !.content = "notice"]
    /\ UNCHANGED <<files, read>>

\* DeleteMessage: then the attachments and their files.
RemoveFiles(r) ==
    /\ Step(r, "erased", "done")
    /\ files' = FALSE
    /\ UNCHANGED <<message, read>>

\* The command's edit: its statement only meets a row that is not deleted.
EditByCommand(r) ==
    /\ Step(r, "read", "done")
    /\ message' = IF message.deleted THEN message ELSE [message EXCEPT !.content = "edited"]
    /\ UNCHANGED <<files, read>>

\* The command's deletion: attachments and row in the command's transaction.
DeleteByCommand(r) ==
    /\ Step(r, "read", "done")
    /\ files' = FALSE
    /\ message' = IF message.deleted THEN message
                  ELSE [deleted |-> TRUE, content |-> "", translation |-> None]
    /\ UNCHANGED read

\* TranslateMessage reads the row, deleted or not, and asks a model for its text.
ReadText(r) ==
    /\ Step(r, "start", "read")
    /\ read' = [read EXCEPT ![r] = message.content]
    /\ UNCHANGED <<message, files>>

\* UpdateTranslations: write by the id alone.
WriteTranslation(r) ==
    /\ Step(r, "read", "done")
    /\ message' = [message EXCEPT !.translation = read[r]]
    /\ UNCHANGED <<files, read>>

Next ==
    \/ \E r \in Edits : ReadRow(r) \/ WriteContent(r)
    \/ \E r \in Deletes : ReadRow(r) \/ WriteDeleted(r) \/ RemoveFiles(r)
    \/ \E r \in Commands : ReadRow(r) \/ EditByCommand(r) \/ DeleteByCommand(r)
    \/ \E r \in Translations : ReadText(r) \/ WriteTranslation(r)

Spec == Init /\ [][Next]_vars

----------------------------------------------------------------------------

\* A deleted message shows nothing of what was written in it: UpdateContent answers
\* "cannot edit a deleted message", and no edit may undo what a deletion erased.
DeletedStaysErased == message.deleted => message.content \in Erased
=============================================================================
