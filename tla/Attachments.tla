------------------------------ MODULE Attachments ------------------------------
(***************************************************************************)
(* A file from the composer to whoever opens it: the draft in              *)
(* ChatPanel.tsx, attachFile in Dashboard.tsx, the upload of               *)
(* lib/media-upload.ts, the relay's upload and download routes             *)
(* (upload-routes.ts) over an object store (media-store.ts), and           *)
(* forwarding, which sends the same object's key to somebody else.         *)
(*                                                                         *)
(* An upload's object has the upload's name.  The composer keeps its draft *)
(* when another chat is selected; a call of attachFile keeps the chat it   *)
(* was called in.                                                          *)
(***************************************************************************)
EXTENDS Integers, FiniteSets

CONSTANTS
    Chat,           \* chats of this user: peers, who are also people, and groups
    Group,          \* those that are groups
    Draft,          \* files prepared in the composer, one after the other
    Upload,         \* calls of attachFile
    MaxForwards,    \* bound on forwarded messages
    MaxBreaks,      \* bound on failed writes and lost answers
    Neither         \* no draft

ASSUME AttachmentsAssumption ==
    /\ Group \subseteq Chat /\ "me" \notin Chat /\ Neither \notin Draft
    /\ MaxForwards \in Nat /\ MaxBreaks \in Nat

VARIABLES
    inView,     \* the selected chat
    draft,      \* attachmentDraft
    sending,    \* attachmentSending
    prepared,   \* drafts there have been
    upload,     \* upload[u]: a call of attachFile
    blobs, metas,   \* objects and their sidecars in the store
    lapsed,     \* objects past their retention
    messages,   \* messages with an attachment that have been sent
    forwards, breaks,
    recalled    \* history: drafts that were discarded while being sent

attachVars == <<inView, draft, sending, prepared, upload, blobs, metas, lapsed, messages,
                forwards, breaks, recalled>>
storedVars == <<blobs, metas, lapsed>>
composerVars == <<inView, draft, sending, prepared, recalled>>
sentVars == <<messages, forwards, breaks>>

Unused == [stage |-> "unused"]

AttachmentsInit ==
    /\ inView \in Chat
    /\ draft = Neither /\ sending = FALSE /\ prepared = {} /\ recalled = {}
    /\ upload = [u \in Upload |-> Unused]
    /\ blobs = {} /\ metas = {} /\ lapsed = {} /\ messages = {}
    /\ forwards = 0 /\ breaks = 0

Stage(u, s) == upload[u].stage = s
Becomes(u, s) == upload' = [upload EXCEPT ![u].stage = s]
Break == breaks < MaxBreaks /\ breaks' = breaks + 1

-----------------------------------------------------------------------------
(* The composer.                                                           *)

\* Another chat is selected; the draft stays.
Select(c) ==
    /\ inView' = c
    /\ UNCHANGED <<draft, sending, prepared, recalled, upload, storedVars, sentVars>>

prepareAttachmentDraft(d) ==
    /\ d \notin prepared /\ prepared' = prepared \cup {d}
    /\ draft' = d
    /\ recalled' = IF sending THEN recalled \cup ({draft} \ {Neither}) ELSE recalled
    /\ UNCHANGED <<inView, sending, upload, storedVars, sentVars>>

\* The button works while an upload of the draft is under way.
sendAttachmentDraft_Twice(u) ==
    /\ draft # Neither
    /\ upload[u] = Unused
    /\ sending' = TRUE
    /\ upload' = [upload EXCEPT ![u] = [stage |-> "putting", draft |-> draft, chat |-> inView]]
    /\ UNCHANGED <<inView, draft, prepared, recalled, storedVars, sentVars>>

\* Up to the relay's first write to the store.
sendAttachmentDraft(u) ==
    /\ draft # Neither /\ ~sending
    /\ upload[u] = Unused
    /\ sending' = TRUE
    /\ upload' = [upload EXCEPT ![u] = [stage |-> "putting", draft |-> draft, chat |-> inView]]
    /\ UNCHANGED <<inView, draft, prepared, recalled, storedVars, sentVars>>

\* The call goes on without its draft.
cancelAttachmentDraft ==
    /\ draft # Neither
    /\ recalled' = IF sending THEN recalled \cup {draft} ELSE recalled
    /\ draft' = Neither /\ sending' = FALSE
    /\ UNCHANGED <<inView, prepared, upload, storedVars, sentVars>>

-----------------------------------------------------------------------------
(* The upload.                                                             *)

\* The object and its sidecar are written side by side.
PutBlob(u) ==
    /\ Stage(u, "putting") /\ blobs' = blobs \cup {u}
    /\ UNCHANGED <<composerVars, upload, metas, lapsed, sentVars>>

PutMeta(u) ==
    /\ Stage(u, "putting") /\ metas' = metas \cup {u}
    /\ UNCHANGED <<composerVars, upload, blobs, lapsed, sentVars>>

\* The relay answers as soon as the object itself is there.
Stored_BlobOnly(u) == u \in blobs

Stored(u) == u \in blobs \cap metas

\* 201: the message is built, encrypted and sent, and its row saved.
Uploaded(u) ==
    /\ Stage(u, "putting") /\ Stored(u)
    /\ Becomes(u, "sent")
    /\ messages' = messages \cup {[object |-> u, to |-> upload[u].chat, from |-> "me"]}
    /\ sending' = FALSE /\ draft' = Neither
    /\ UNCHANGED <<inView, prepared, storedVars, forwards, breaks, recalled>>

\* A write was refused: the draft stays, to be sent again or discarded.
Refused(u) ==
    /\ Stage(u, "putting") /\ Break
    /\ Becomes(u, "failed") /\ sending' = FALSE
    /\ UNCHANGED <<inView, draft, prepared, storedVars, messages, forwards, recalled>>

\* fetch rejects, which nobody catches: the composer goes on "sending".
Unanswered(u) ==
    /\ Stage(u, "putting") /\ Break
    /\ Becomes(u, "failed")
    /\ UNCHANGED <<composerVars, storedVars, messages, forwards>>

\* What a failed call had begun to write may still arrive.
LatePut(u) ==
    /\ Stage(u, "failed")
    /\ \/ blobs' = blobs \cup {u} /\ UNCHANGED metas
       \/ metas' = metas \cup {u} /\ UNCHANGED blobs
    /\ UNCHANGED <<composerVars, upload, lapsed, sentVars>>

-----------------------------------------------------------------------------
(* Downloads and forwarding.                                               *)

\* Anybody who proves an identity is served.
Party_Anyone(o, p) == TRUE

\* A direct object names its two parties; a group's is for whoever knows it.
Party(o, p) == upload[o].chat \in Group \cup {p} \/ p = "me"

serves(o, p) == o \in blobs \cap metas /\ o \notin lapsed /\ Party(o, p)

\* forwardedBody keeps the attachment, which stays the object of its first chat.
forwardMessageToChat(m, c) ==
    /\ forwards < MaxForwards /\ forwards' = forwards + 1
    /\ messages' = messages \cup {[object |-> m.object, to |-> c, from |-> "forwarded"]}
    /\ UNCHANGED <<composerVars, upload, storedVars, breaks>>

Lapse(o) ==
    /\ o \in blobs \cap metas /\ lapsed' = lapsed \cup {o}
    /\ UNCHANGED <<composerVars, upload, blobs, metas, sentVars>>

-----------------------------------------------------------------------------
AttachmentsNext ==
    \/ \E c \in Chat : Select(c)
    \/ \E d \in Draft : prepareAttachmentDraft(d)
    \/ cancelAttachmentDraft
    \/ \E u \in Upload :
        \/ sendAttachmentDraft(u) \/ PutBlob(u) \/ PutMeta(u) \/ Uploaded(u)
        \/ Refused(u) \/ Unanswered(u) \/ LatePut(u) \/ Lapse(u)
    \/ \E m \in messages, c \in Chat : forwardMessageToChat(m, c)

AttachmentsSpec == AttachmentsInit /\ [][AttachmentsNext]_attachVars

-----------------------------------------------------------------------------
(* Properties.                                                             *)

\* Whoever is sent an attachment by the one who uploaded it can open it for as
\* long as it is retained: the message leaves only after both halves of the
\* object are stored, under the name of the chat the call was made in.  Nobody
\* is served a direct object but its sender and those it was sent to; people
\* it is forwarded to get the key and are refused the object.
AttachmentOpens ==
    /\ \A m \in messages :
        m.from = "me" => m.object \in lapsed \/ \A p \in Chat \ Group :
            m.to \in Group \cup {p} => serves(m.object, p)
    /\ \A u \in Upload, p \in Chat \ Group :
        LET about == {m \in messages : m.object = u}
        IN  about # {} /\ serves(u, p) => \E m \in about : m.to \in Group \cup {p}

\* A prepared file is sent once, however often the button is pressed and
\* uploads fail, unless it was discarded or replaced while being sent.
SentOnce ==
    \A u, v \in Upload :
        Stage(u, "sent") /\ Stage(v, "sent") /\ upload[u].draft = upload[v].draft
            => u = v \/ recalled # {}

\* Sharing a file works once and for those it is for (ChatPanel.tsx, Dashboard.tsx,
\* upload-routes.ts).
AttachmentsHold == AttachmentOpens /\ SentOnce
===============================================================================
