------------------------------ MODULE ChatScreen ------------------------------
(***************************************************************************)
(* The chat on one person's screen (apps/web/src/components:               *)
(* chat/ChatPanel.tsx and its handlers in screens/Dashboard.tsx).  One     *)
(* panel serves every chat: its composer, dialogs and recorder stay when   *)
(* another chat is selected, by the person, by an alert above everything   *)
(* or by a notification, while loads and recordings are on their way.      *)
(***************************************************************************)
EXTENDS Naturals, FiniteSets

CONSTANTS
  Room,       \* chats
  Circle,     \* those which are groups
  Owned,      \* those of them the person created
  MembersOf,  \* the other members of a group, at first
  Clip,       \* voice notes and polls the person makes
  Nowhere,
  MaxTurns    \* bound: selections of another chat

ASSUME RoomsAssumption ==
  /\ Owned \subseteq Circle /\ Circle \subseteq Room /\ Nowhere \notin Room \cup Clip
  /\ MembersOf \in [Circle -> SUBSET UNION {MembersOf[c] : c \in Circle}]
  /\ Clip \cap ((Room \cup {Nowhere}) \X {"mine", "theirs", "none"}) = {}

\* One message of the person and one of somebody else in every chat.
Bubble == Room \X {"mine", "theirs"}

VARIABLES
  selectedChatId,
  onView,            \* messages: the bubbles in the panel
  listReads,         \* loads of message lists under way
  chatPref,          \* the chat whose preferences are in force
  prefReads,         \* loads of preferences for a selected chat
  settingReads,      \* loads of preferences after a change of them
  replyToId, editingMessageId,
  messageText,       \* the chat the text in the composer was typed in
  wording,           \* of each own message: whose text it has
  typingTo,          \* the person who is told that somebody types
  dialog,
  members,
  deleted,           \* bubbles deleted
  emptied,           \* chats deleted
  take,              \* clips: how far, for which chat, quoting what
  mediaRecorder,     \* the clip the recorder holds while isRecording
  \* history:
  said,              \* what this step told others, or did to a chat
  turns

choice == <<selectedChatId, turns>>
loads == <<onView, listReads, chatPref, prefReads, settingReads>>
words == <<replyToId, editingMessageId, messageText, wording, typingTo>>
sheets == <<dialog, members, deleted, emptied>>
clips == <<take, mediaRecorder>>
panelVars == <<choice, loads, words, sheets, clips, said>>

NoBubble == <<Nowhere, "none">>
NoDialog == [kind |-> "none"]
Unmade == [phase |-> "none"]
Silence == [to |-> Nowhere, about |-> NoBubble, names |-> Nowhere, hasty |-> FALSE]

PanelInit ==
  /\ selectedChatId = Nowhere /\ turns = 0
  /\ onView = {} /\ listReads = {} /\ chatPref = Nowhere /\ prefReads = {} /\ settingReads = {}
  /\ replyToId = NoBubble /\ editingMessageId = NoBubble /\ messageText = Nowhere
  /\ wording = [b \in Room \X {"mine"} |-> "own"] /\ typingTo = Nowhere
  /\ dialog = NoDialog /\ members = MembersOf /\ deleted = {} /\ emptied = {}
  /\ take = [r \in Clip |-> Unmade] /\ mediaRecorder = Nowhere
  /\ said = Silence

RoomOf(b) == IF b \in Clip THEN take[b].room ELSE b[1]
Selected == selectedChatId # Nowhere
InGroup == selectedChatId \in Circle
\* Dialogs cover the page; alerts stand above the dialogs.
Uncovered == Selected /\ dialog = NoDialog
\* The chat was selected, and its list has not appeared yet.
Hasty == selectedChatId \in listReads

\* What loadMessagesForChat answers.
listed(c) ==
  IF c \in emptied THEN {}
  ELSE {b \in Bubble : RoomOf(b) = c}
       \cup {r \in Clip : take[r].phase \in {"sent", "shown"} /\ RoomOf(r) = c}

-------------------------------------------------------------------------------
(* The composer follows the message that is edited, where it is on view. *)

editingMessage ==
  IF editingMessageId \in onView
  THEN <<editingMessageId, wording[editingMessageId], editingMessageId \in deleted>> ELSE <<>>

\* Mutant: the composer keeps what was typed.
followEdit_Never(text) == messageText' = text

followEdit(text) ==
  messageText' = IF editingMessage' = editingMessage THEN text
                 ELSE IF editingMessage' = <<>> THEN Nowhere ELSE RoomOf(editingMessageId')

-------------------------------------------------------------------------------
(* Which chat is on the screen. *)

\* Mutant: the peer left behind is not told.
typingCleanup_Silent == typingTo

\* The effect's cleanup, with the handler of the chat that is left.
typingCleanup == Nowhere

\* The selection and its effects; without a chat the list is emptied at once.
moveTo(c) ==
  /\ selectedChatId' = c
  /\ listReads' = listReads \cup ({c} \ {Nowhere})
  /\ prefReads' = prefReads \cup ({c} \ {Nowhere})
  /\ onView' = IF c = Nowhere THEN {} ELSE onView
  /\ typingTo' = typingCleanup
  /\ UNCHANGED <<chatPref, settingReads>>

select(c) ==
  /\ turns < MaxTurns /\ turns' = turns + 1
  /\ c # selectedChatId /\ c \notin emptied
  /\ moveTo(c)
  /\ said' = Silence
  /\ UNCHANGED <<replyToId, editingMessageId, wording, sheets, clips>>
  /\ followEdit(messageText)

\* By the list, a search, a contact that was added ...
openFromList(c) == c # Nowhere /\ dialog = NoDialog /\ select(c)
onBack == dialog = NoDialog /\ select(Nowhere)
\* ... or by an alert or a notification, whatever is open.
openChatByChatId(c) == c # Nowhere /\ select(c)

\* Mutant: the list of a chat that was left is taken too.
stillSelected_Always(c) == TRUE

\* The effect's `active`.
stillSelected(c) == c = selectedChatId

\* What is in memory of the chat is kept, and of others is not.
listAnswer(c) ==
  /\ c \in listReads /\ listReads' = listReads \ {c}
  /\ onView' = IF stillSelected(c) THEN listed(c) \cup {b \in onView : RoomOf(b) = c} ELSE onView
  /\ said' = Silence
  /\ UNCHANGED <<choice, chatPref, prefReads, settingReads, replyToId, editingMessageId, wording,
                 typingTo, sheets, clips>>
  /\ followEdit(messageText)

prefAnswer(c) ==
  /\ c \in prefReads /\ prefReads' = prefReads \ {c}
  /\ chatPref' = IF c = selectedChatId THEN c ELSE chatPref
  /\ said' = Silence
  /\ UNCHANGED <<choice, onView, listReads, settingReads, words, sheets, clips>>

\* What was changed is read back, and shown wherever the person is by then.
settingAnswer(c) ==
  /\ c \in settingReads /\ settingReads' = settingReads \ {c}
  /\ chatPref' = c
  /\ said' = Silence
  /\ UNCHANGED <<choice, onView, listReads, prefReads, words, sheets, clips>>

-------------------------------------------------------------------------------
(* Replies, edits and reactions. *)

\* What the panel's menu can be opened for.
Pressed(b) == Uncovered /\ b \in onView \ deleted

\* A bubble can be swiped after it was deleted.
onReply(b) ==
  /\ Uncovered /\ b \in onView /\ replyToId' = b
  /\ said' = Silence
  /\ UNCHANGED <<choice, loads, editingMessageId, messageText, wording, typingTo, sheets, clips>>

onCancelReply ==
  /\ Uncovered /\ replyToId \in onView /\ replyToId' = NoBubble
  /\ said' = Silence
  /\ UNCHANGED <<choice, loads, editingMessageId, messageText, wording, typingTo, sheets, clips>>

onEditMessage(b) ==
  /\ Pressed(b) /\ b \in DOMAIN wording
  /\ editingMessageId' = b /\ UNCHANGED <<loads, wording, deleted>> /\ followEdit(messageText)
  /\ said' = Silence
  /\ UNCHANGED <<choice, replyToId, typingTo, dialog, members, emptied, clips>>

handleCancelEdit ==
  /\ Uncovered /\ editingMessage # <<>>
  /\ editingMessageId' = NoBubble /\ messageText' = Nowhere
  /\ said' = Silence
  /\ UNCHANGED <<choice, loads, replyToId, wording, typingTo, sheets, clips>>

\* A peer is told at the first key and from time to time, a group is not.  Nobody types
\* faster than a list appears.
typeText ==
  /\ Uncovered /\ ~Hasty /\ messageText' = selectedChatId
  /\ typingTo' \in IF InGroup THEN {typingTo} ELSE {typingTo, selectedChatId}
  /\ said' = Silence
  /\ UNCHANGED <<choice, loads, replyToId, editingMessageId, wording, sheets, clips>>

\* The pause of two seconds, or nothing left.
stopTyping ==
  /\ typingTo # Nowhere /\ typingTo' = Nowhere
  /\ messageText' \in {messageText, Nowhere}
  /\ said' = Silence
  /\ UNCHANGED <<choice, loads, replyToId, editingMessageId, wording, sheets, clips>>

submitMessage == Uncovered /\ messageText # Nowhere /\ messageText' = Nowhere /\ typingTo' = Nowhere

\* The message is looked for on view, and written in the database wherever it is.
editMessage ==
  /\ submitMessage /\ editingMessageId # NoBubble
  /\ wording' = [wording EXCEPT ![editingMessageId] =
                   CASE RoomOf(editingMessageId) \in emptied -> @
                     [] editingMessageId \notin onView -> "strayed"
                     [] Hasty -> "hasty"
                     [] messageText = RoomOf(editingMessageId) -> "own"
                     [] OTHER -> "foreign"]
  /\ editingMessageId' = NoBubble
  /\ said' = Silence
  /\ UNCHANGED <<choice, loads, replyToId, sheets, clips>>

replyMessage == IF replyToId \in onView THEN replyToId ELSE NoBubble

\* Mutant: the names of whatever chat's preferences are there.
groupMemberNames_Any == chatPref

groupMemberNames == IF chatPref = selectedChatId THEN chatPref ELSE Nowhere

\* In a group the author of a quote has the name the group knows.
replySnapshot ==
  [about |-> replyMessage, hasty |-> Hasty,
   names |-> IF InGroup /\ replyMessage \notin Clip /\ replyMessage[2] = "theirs"
             THEN groupMemberNames ELSE Nowhere]

Says(c, quote) == [to |-> c, about |-> quote.about, names |-> quote.names, hasty |-> quote.hasty]
Does(b) == [Silence EXCEPT !.to = selectedChatId, !.about = b, !.hasty = Hasty]

sendText ==
  /\ submitMessage /\ editingMessageId = NoBubble
  /\ said' = Says(selectedChatId, replySnapshot)
  /\ replyToId' = NoBubble
  /\ UNCHANGED <<choice, loads, editingMessageId, wording, sheets, clips>>

\* A reaction, or a vote in a poll.
sendReactionToMessage(b) ==
  /\ Uncovered /\ b \in onView /\ said' = Does(b)
  /\ UNCHANGED <<choice, loads, words, sheets, clips>>

pinMessage(b) ==
  /\ Pressed(b) /\ said' = Does(b)
  /\ settingReads' = settingReads \cup {selectedChatId}
  /\ UNCHANGED <<choice, onView, listReads, chatPref, prefReads, words, sheets, clips>>

-------------------------------------------------------------------------------
(* Dialogs, which stay open when an alert is followed. *)

open(what) == Uncovered /\ dialog' = what
close == dialog' = NoDialog

openDeleteSheet(b) ==
  /\ Pressed(b) /\ open([kind |-> "delete", about |-> b])
  /\ said' = Silence
  /\ UNCHANGED <<choice, loads, words, members, deleted, emptied, clips>>

\* To mute, clear, block or decorate the chat, or to make a poll.
openSheet(kind) ==
  /\ kind # "poll" \/ InGroup
  /\ open([kind |-> kind])
  /\ said' = Silence
  /\ UNCHANGED <<choice, loads, words, members, deleted, emptied, clips>>

\* All members are ticked at first.
openReset ==
  /\ selectedChatId \in Owned
  /\ open([kind |-> "reset", keep |-> members[selectedChatId]])
  /\ said' = Silence
  /\ UNCHANGED <<choice, loads, words, members, deleted, emptied, clips>>

\* From the list, for any chat, or from the options of a group that the person created.
askChatAction(c) ==
  /\ dialog = NoDialog /\ c \notin emptied
  /\ dialog' = [kind |-> "confirm", room |-> c]
  /\ said' = Silence
  /\ UNCHANGED <<choice, loads, words, members, deleted, emptied, clips>>

handleEscape ==
  /\ dialog # NoDialog /\ close
  /\ said' = Silence
  /\ UNCHANGED <<choice, loads, words, members, deleted, emptied, clips>>

\* For everyone: offered where the message is on view and one's own.
unsendMessage ==
  /\ Selected /\ dialog.kind = "delete" /\ dialog.about \in onView
  /\ dialog.about \notin Clip => dialog.about[2] = "mine"
  /\ deleted' = deleted \cup {dialog.about} /\ said' = Does(dialog.about)
  /\ close /\ UNCHANGED <<loads, editingMessageId, wording>> /\ followEdit(messageText)
  /\ UNCHANGED <<choice, replyToId, typingTo, members, emptied, clips>>

\* The text stays in the record, and in the composer.
deleteMessageForMe ==
  /\ Selected /\ dialog.kind = "delete"
  /\ deleted' = deleted \cup {dialog.about} /\ close
  /\ said' = Silence
  /\ UNCHANGED <<choice, loads, words, members, emptied, clips>>

\* A group cannot be blocked; all else is written for the chat that is selected by now.
changeSetting ==
  /\ Selected /\ dialog.kind = "setting" /\ close
  /\ \/ settingReads' = settingReads \cup {selectedChatId}
     \/ InGroup /\ UNCHANGED settingReads
  /\ said' = Silence
  /\ UNCHANGED <<choice, onView, listReads, chatPref, prefReads, words, members, deleted, emptied,
                 clips>>

\* The members on view are those of the group that is selected by now.
tick(u) ==
  /\ dialog.kind = "reset" /\ InGroup /\ u \in members[selectedChatId]
  /\ dialog' = [dialog EXCEPT !.keep = IF u \in @ THEN @ \ {u} ELSE @ \cup {u}]
  /\ said' = Silence
  /\ UNCHANGED <<choice, loads, words, members, deleted, emptied, clips>>

\* Mutant: whoever is ticked.
Kept_All(c) == dialog.keep

Kept(c) == dialog.keep \cap members[c]

onResetGroupKey ==
  /\ dialog.kind = "reset" /\ InGroup /\ close
  /\ members' = IF selectedChatId \in Owned
                THEN [members EXCEPT ![selectedChatId] = Kept(selectedChatId)] ELSE members
  /\ said' = Silence
  /\ UNCHANGED <<choice, loads, words, deleted, emptied, clips>>

\* Archives or deletes the chat that was asked about.
confirmChatAction(erase) ==
  /\ dialog.kind = "confirm" /\ close
  /\ emptied' = IF erase THEN emptied \cup {dialog.room} ELSE emptied
  /\ IF selectedChatId = dialog.room THEN moveTo(Nowhere)
     ELSE UNCHANGED <<selectedChatId, loads, typingTo>>
  /\ UNCHANGED <<editingMessageId, wording, deleted>> /\ followEdit(messageText)
  /\ said' = Silence
  /\ UNCHANGED <<turns, replyToId, members, clips>>

-------------------------------------------------------------------------------
(* Voice notes and polls: they take their time, and the chat they were begun in. *)

Phase(r, what) == take' = [take EXCEPT ![r].phase = what]
Begun(r, phase, quote) ==
  /\ take[r] = Unmade
  /\ take' = [take EXCEPT ![r] = [phase |-> phase, room |-> selectedChatId, quote |-> quote,
                                  poll |-> phase = "ready"]]
  /\ said' = Silence

\* The button is there while nothing is typed, until the microphone is granted.
startRecording(r) ==
  /\ Uncovered /\ messageText = Nowhere /\ mediaRecorder = Nowhere
  /\ Begun(r, "asking", replySnapshot)
  /\ UNCHANGED <<choice, loads, words, sheets, mediaRecorder>>

\* A second recorder takes the place of the first.
microphoneAnswers(r) ==
  /\ take[r].phase = "asking"
  /\ \/ Phase(r, "live") /\ mediaRecorder' = r
     \/ Phase(r, "over") /\ UNCHANGED mediaRecorder
  /\ said' = Silence
  /\ UNCHANGED <<choice, loads, words, sheets>>

stopRecording ==
  /\ Uncovered /\ mediaRecorder # Nowhere /\ mediaRecorder' = Nowhere
  /\ Phase(mediaRecorder, "ready")
  /\ said' = Silence
  /\ UNCHANGED <<choice, loads, words, sheets>>

\* Or after less than a second.
cancelRecording ==
  /\ Uncovered /\ mediaRecorder # Nowhere /\ mediaRecorder' = Nowhere
  /\ Phase(mediaRecorder, "over")
  /\ said' = Silence
  /\ UNCHANGED <<choice, loads, words, sheets>>

sendPollMessage(r) ==
  /\ Selected /\ dialog.kind = "poll" /\ close
  /\ Begun(r, "ready", [about |-> NoBubble, names |-> Nowhere, hasty |-> FALSE])
  /\ UNCHANGED <<choice, loads, words, members, deleted, emptied, mediaRecorder>>

\* Mutant: to the chat that is selected by now.
Addressee_Now(r) == selectedChatId

Addressee(r) == take[r].room

\* Read, encrypted, sent and stored ...
sendVoiceNote(r) ==
  /\ take[r].phase = "ready" /\ Phase(r, "sent")
  /\ said' = Says(Addressee(r), take[r].quote)
  /\ UNCHANGED <<choice, loads, words, sheets, mediaRecorder>>

\* ... it joins the bubbles that are on view by now.
appendClip(r) ==
  /\ take[r].phase = "sent" /\ Phase(r, "shown")
  /\ onView' = onView \cup {r}
  /\ replyToId' = IF take[r].poll THEN replyToId ELSE NoBubble
  /\ said' = Silence
  /\ UNCHANGED <<choice, listReads, chatPref, prefReads, settingReads, editingMessageId,
                 messageText, wording, typingTo, sheets, mediaRecorder>>

PanelNext ==
  \/ \E c \in Room :
       \/ openFromList(c) \/ openChatByChatId(c)
       \/ listAnswer(c) \/ prefAnswer(c) \/ settingAnswer(c) \/ askChatAction(c)
  \/ onBack
  \/ \E b \in onView :
       \/ onReply(b) \/ onEditMessage(b) \/ sendReactionToMessage(b) \/ pinMessage(b)
       \/ openDeleteSheet(b)
  \/ onCancelReply \/ handleCancelEdit \/ typeText \/ stopTyping \/ editMessage \/ sendText
  \/ \E kind \in {"setting", "poll"} : openSheet(kind)
  \/ openReset \/ handleEscape \/ unsendMessage \/ deleteMessageForMe \/ changeSetting
  \/ \E u \in UNION {MembersOf[c] : c \in Circle} : tick(u)
  \/ onResetGroupKey \/ \E erase \in BOOLEAN : confirmChatAction(erase)
  \/ \E r \in Clip : \/ startRecording(r) \/ microphoneAnswers(r) \/ sendPollMessage(r)
                    \/ sendVoiceNote(r) \/ appendClip(r)
  \/ stopRecording \/ cancelRecording

PanelSpec == PanelInit /\ [][PanelNext]_panelVars

-------------------------------------------------------------------------------
(* Properties. *)

\* What is quoted, reacted to, pinned or deleted for others is a message of the chat it
\* is done in, unless its list had not appeared yet or a clip stood in a list it does
\* not belong to; and names given to others are that group's.
SaysWhatBelongs ==
  /\ \/ RoomOf(said.about) \in {Nowhere, said.to}
     \/ said.hasty \/ said.about \in Clip
  /\ said.names \in {Nowhere, said.to}

\* Only the person who made a group resets its key, and nobody from elsewhere gets it.
KeysStayInside ==
  \A c \in Circle :
    members[c] \subseteq MembersOf[c] /\ (c \notin Owned => members[c] = MembersOf[c])

\* A message of the list on view is never edited into what was typed for another chat.
EditsBelong == \A b \in DOMAIN wording : wording[b] # "foreign"

\* Whichever way the person comes from one chat to another, and whatever was loading,
\* open or being recorded then, each chat gets what was meant for it, and whoever is left
\* is not told any more that somebody types (ChatPanel.tsx, Dashboard.tsx).
ChatsStayApart ==
  SaysWhatBelongs /\ KeysStayInside /\ EditsBelong /\ typingTo \in {Nowhere, selectedChatId}
===============================================================================
