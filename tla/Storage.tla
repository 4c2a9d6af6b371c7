----------------------------------- MODULE Storage ------------------------------------
(***************************************************************************)
(* Files: avatars (internal/storage/service.go, api/handlers/users.go) and *)
(* attachments of messages (internal/storage/attachments.go,               *)
(* api/handlers/attachments.go).  A file is an encrypted object in S3 and  *)
(* a row of media_files with its key; an attachment is a row besides.      *)
(*                                                                         *)
(* Every upload encrypts with a key of its own: a file is named by the     *)
(* request that uploaded it, and an object can be read with a row of the   *)
(* same name.  A call to S3 that fails may have been carried out; a query  *)
(* that fails was not.  Each request that writes is served once; readers   *)
(* ask for avatars again and again beside them, in two halves.  Sizes,     *)
(* types and names of files are left out.  DeleteMessageAttachments has no *)
(* caller: a message deleted keeps its attachments.                        *)
(***************************************************************************)
EXTENDS Naturals, FiniteSets, FiniteSetsExt

CONSTANTS Users, Messages, Requests,
          Readers,                     \* requests for an avatar
          Extensions,                  \* of files' names: part of an avatar's object key
          MaxAttachmentsPerMessage,
          OldAvatar, OldAttachment,    \* files there are at the start
          NoFile

ASSUME StorageAssumption ==
    /\ MaxAttachmentsPerMessage \in Nat \ {0}
    /\ Requests # {} /\ IsFiniteSet(Requests)
    /\ {OldAvatar, OldAttachment, NoFile} \cap Requests = {}
    /\ OldAvatar # OldAttachment /\ NoFile \notin {OldAvatar, OldAttachment}

VARIABLES
    objects,       \* S3: what is stored under a key
    media,         \* media_files; at orders an owner's rows as created_at does
    attachments,   \* message_attachments
    avatarUrl,     \* users whose avatar_url is set
    closed,        \* users whose account is deleted
    req,           \* the requests that write
    reading,       \* the row each reader has found and downloads the object of, or none
    overtaken,     \* history: readers whose object was put anew after they had found the row
    shared,        \* history: users two of whose avatar requests overlapped
    failed,        \* history: users one of whose avatar requests had a call that failed
    kept,          \* history: users whose old avatar's row could not be deleted
    late,          \* history: users who uploaded an avatar to a deleted account
    broken,        \* history: attachments whose deletion failed half-way
    orphans        \* history: attachments' objects whose clean-up failed, or nobody knows of

avatarVars == <<avatarUrl, closed, shared, failed, kept, late>>
attachmentVars == <<attachments, broken, orphans>>
svars == <<objects, media, avatarVars, attachmentVars, req, reading, overtaken>>

Files == Requests \cup {OldAvatar, OldAttachment}
AvatarKeys == {"avatars"} \X Users \X Extensions
AttachmentKeys == {"attachments"} \X Messages \X Files
Keys == AvatarKeys \cup AttachmentKeys
Media == [file : Files, owner : Users, key : Keys, at : Nat]
Attachment == [file : Files, message : Messages]

Idle == [pc |-> "idle"]
Done == [pc |-> "done"]
Request ==
    {Idle, Done}
    \cup [pc : {"object", "row"}, owner : Users, key : AvatarKeys, todo : SUBSET Media]
    \cup [pc : {"put", "store", "undo", "url"}, owner : Users, key : AvatarKeys]
    \cup [pc : {"drop", "unrow", "unurl", "soft"}, owner : Users, old : SUBSET Media,
          closing : BOOLEAN]
    \cup [pc : {"put2", "store2", "link", "unstore2", "undo2"}, owner : Users,
          message : Messages]
    \cup [pc : {"drop2", "unlink", "unrow2"}, old : Media]

\* Every row has values of its columns' types, and every request what its steps need.
TypeOK ==
    /\ objects \in [Keys -> Files \cup {NoFile}]
    /\ media \subseteq Media /\ IsFiniteSet(media)
    /\ attachments \subseteq Attachment
    /\ avatarUrl \subseteq Users /\ closed \subseteq Users
    /\ req \in [Requests -> Request]
    /\ shared \cup failed \cup kept \cup late \subseteq Users
    /\ broken \cup orphans \subseteq Files
ReadersOK == reading \in [Readers -> SUBSET Media] /\ overtaken \subseteq Readers
--------------------------------------------------------------------------------
At(r, phase) == req[r].pc = phase
Start(r, fields) == req' = [req EXCEPT ![r] = fields]
Goto(r, phase) == req' = [req EXCEPT ![r].pc = phase]
End(r) == req' = [req EXCEPT ![r] = Done]

AvatarWork == {"object", "row", "put", "store", "undo", "url", "drop", "unrow", "unurl", "soft"}
Busy(u) == {r \in Requests : req[r].pc \in AvatarWork /\ req[r].owner = u}
\* A request for the user's avatar begins.
Begin(u) == shared' = IF Busy(u) = {} THEN shared ELSE shared \cup {u}
Fault(u) == failed' = failed \cup {u}
--------------------------------------------------------------------------------
(* S3 and the queries, each by its name in the code. *)

Upload(key, r) == objects' = [objects EXCEPT ![key] = r]
Download(key) == objects[key]
Delete(key) == objects' = [objects EXCEPT ![key] = NoFile]

\* What a row's key can decrypt.
Decrypt(x, bytes) == bytes = x.file

\* Mutant: attachments are taken for avatars.
FilesOfOwner(u) == {x \in media : x.owner = u}

\* GetMediaFilesByOwner, of which the code takes those with an avatar's key.
AvatarsByOwner(u) == {x \in media : x.owner = u /\ x.key \in AvatarKeys}

\* The first of the rows, which the query orders by created_at DESC.
Newest(rows) == {x \in rows : \A y \in rows : y.at <= x.at}

\* The time of a new row: later than its owner's others, all that the queries compare.
Now(u) == Max({x.at : x \in {y \in media : y.owner = u}} \cup {0}) + 1

\* The row of an avatar, and that of an attachment.
CreateMediaFile(r, u, key) ==
    media' = media \cup {[file |-> r, owner |-> u, key |-> key, at |-> Now(u)]}
CreateMediaFileWithMessage(r, u, m) == CreateMediaFile(r, u, <<"attachments", m, r>>)

\* With the attachments that refer to it (ON DELETE CASCADE).
DeleteMediaFile(f) ==
    /\ media' = {x \in media : x.file # f}
    /\ attachments' = {a \in attachments : a.file # f}

CreateMessageAttachment(r, m) ==
    attachments' = attachments \cup {[file |-> r, message |-> m]}
DeleteMessageAttachment(f) == attachments' = {a \in attachments : a.file # f}
CountMessageAttachments(m) == Cardinality({a \in attachments : a.message = m})
\* The row of the attachment's file.
GetMediaFileForAttachment(a) == {x \in media : x.file = a.file}

\* Of accounts that are not deleted.
UpdateUserAvatar(u) == avatarUrl' = IF u \in closed THEN avatarUrl ELSE avatarUrl \cup {u}
RemoveUserAvatar(u) == avatarUrl' = IF u \in closed THEN avatarUrl ELSE avatarUrl \ {u}
--------------------------------------------------------------------------------
(* Uploading an avatar: the old ones go first. *)

\* When the lookup fails, no old avatar is deleted.
BeginUpload(r, u, x) ==
    LET key == <<"avatars", u, x>>
        old == AvatarsByOwner(u)
    IN /\ \/ /\ Start(r, [pc |-> "object", owner |-> u, key |-> key, todo |-> old])
             /\ UNCHANGED <<failed, kept>>
          \/ /\ old # {}
             /\ Start(r, [pc |-> "put", owner |-> u, key |-> key])
             /\ Fault(u) /\ kept' = kept \cup {u}
       /\ Begin(u)
       /\ late' = IF u \in closed THEN late \cup {u} ELSE late
       /\ UNCHANGED <<objects, media, avatarUrl, closed, attachmentVars>>

\* Mutant: a name without an extension is taken as it is.
UploadAsNamed(r) ==
    At(r, "idle") /\ \E u \in Users, x \in Extensions \cup {""} : BeginUpload(r, u, x)

UploadAvatar(r) == At(r, "idle") /\ \E u \in Users, x \in Extensions : BeginUpload(r, u, x)

NothingOld(r) ==
    /\ At(r, "object") /\ req[r].todo = {}
    /\ Start(r, [pc |-> "put", owner |-> req[r].owner, key |-> req[r].key])
    /\ UNCHANGED <<objects, media, avatarVars, attachmentVars>>

\* Failures of these two are logged.
DeleteOldObject(r) ==
    /\ At(r, "object")
    /\ \E x \in Newest(req[r].todo) :
        \/ Delete(x.key) /\ UNCHANGED failed
        \/ (Delete(x.key) \/ UNCHANGED objects) /\ Fault(req[r].owner)
    /\ Goto(r, "row")
    /\ UNCHANGED <<media, attachmentVars, avatarUrl, closed, shared, kept, late>>

\* Mutant: the row stays.
KeepOldRow(r) ==
    /\ At(r, "row")
    /\ req' = [req EXCEPT ![r].pc = "object", ![r].todo = @ \ Newest(@)]
    /\ UNCHANGED <<objects, media, attachmentVars, avatarVars>>

DeleteOldRow(r) ==
    LET u == req[r].owner
    IN /\ At(r, "row")
       /\ \E x \in Newest(req[r].todo) :
            /\ \/ DeleteMediaFile(x.file) /\ UNCHANGED <<failed, kept>>
               \/ Fault(u) /\ kept' = kept \cup {u} /\ UNCHANGED <<media, attachments>>
            /\ req' = [req EXCEPT ![r].pc = "object", ![r].todo = @ \ {x}]
       /\ UNCHANGED <<objects, broken, orphans, avatarUrl, closed, shared, late>>

\* Mutant: this failure is logged, too.
PutAvatarLogged(r) ==
    /\ At(r, "put")
    /\ \/ Upload(req[r].key, r) /\ UNCHANGED failed
       \/ UNCHANGED objects /\ Fault(req[r].owner)
    /\ Goto(r, "store")
    /\ UNCHANGED <<media, attachmentVars, avatarUrl, closed, shared, kept, late>>

PutAvatar(r) ==
    /\ At(r, "put")
    /\ \/ Upload(req[r].key, r) /\ Goto(r, "store") /\ UNCHANGED failed
       \/ (Upload(req[r].key, r) \/ UNCHANGED objects) /\ End(r) /\ Fault(req[r].owner)
    /\ UNCHANGED <<media, attachmentVars, avatarUrl, closed, shared, kept, late>>

StoreAvatar(r) ==
    LET u == req[r].owner
    IN /\ At(r, "store")
       /\ \/ CreateMediaFile(r, u, req[r].key) /\ Goto(r, "url") /\ UNCHANGED failed
          \/ Goto(r, "undo") /\ Fault(u) /\ UNCHANGED media
       /\ UNCHANGED <<objects, attachmentVars, avatarUrl, closed, shared, kept, late>>

UndoAvatar(r) ==
    /\ At(r, "undo")
    /\ Delete(req[r].key) \/ UNCHANGED objects
    /\ End(r)
    /\ UNCHANGED <<media, avatarVars, attachmentVars>>

StoreAvatarUrl(r) ==
    LET u == req[r].owner
    IN /\ At(r, "url")
       /\ \/ UpdateUserAvatar(u) /\ UNCHANGED failed
          \/ Fault(u) /\ UNCHANGED avatarUrl
       /\ End(r)
       /\ UNCHANGED <<objects, media, attachmentVars, closed, shared, kept, late>>
--------------------------------------------------------------------------------
(* Deleting an avatar, on request or with the account. *)

NewestOf(u) == Newest(AvatarsByOwner(u))

\* The newest only.
BeginDeletion(r, u, closing) ==
    LET old == NewestOf(u)
    IN /\ Start(r, [pc |-> IF old = {} THEN "soft" ELSE "drop", owner |-> u,
                    closing |-> closing, old |-> old])
       /\ Begin(u)
       /\ UNCHANGED <<objects, media, avatarUrl, closed, failed, kept, late, attachmentVars>>

DeleteAvatar(r) ==
    At(r, "idle") /\ \E u \in Users : NewestOf(u) # {} /\ BeginDeletion(r, u, FALSE)

\* The account is deleted whatever becomes of its avatar.
DeleteCurrentUser(r) == At(r, "idle") /\ \E u \in Users : BeginDeletion(r, u, TRUE)

\* An error ends the request, or brings it to the account.
GiveUp(r) == IF req[r].closing THEN Goto(r, "soft") ELSE End(r)

DropObject(r) ==
    \E x \in req[r].old :
        /\ \/ Delete(x.key) /\ Goto(r, "unrow") /\ UNCHANGED failed
           \/ (Delete(x.key) \/ UNCHANGED objects) /\ GiveUp(r) /\ Fault(req[r].owner)
        /\ UNCHANGED <<media, attachmentVars, avatarUrl, closed, shared, kept, late>>

DropRow(r) ==
    \E x \in req[r].old :
        /\ \/ /\ DeleteMediaFile(x.file)
              /\ Goto(r, IF req[r].closing THEN "soft" ELSE "unurl")
              /\ UNCHANGED failed
           \/ GiveUp(r) /\ Fault(req[r].owner) /\ UNCHANGED <<media, attachments>>
        /\ UNCHANGED <<objects, broken, orphans, avatarUrl, closed, shared, kept, late>>

DropAvatar(r) == (At(r, "drop") /\ DropObject(r)) \/ (At(r, "unrow") /\ DropRow(r))

DropAvatarUrl(r) ==
    LET u == req[r].owner
    IN /\ At(r, "unurl")
       /\ \/ RemoveUserAvatar(u) /\ UNCHANGED failed
          \/ Fault(u) /\ UNCHANGED avatarUrl
       /\ End(r)
       /\ UNCHANGED <<objects, media, attachmentVars, closed, shared, kept, late>>

SoftDeleteUser(r) ==
    LET u == req[r].owner
    IN /\ At(r, "soft")
       /\ \/ closed' = closed \cup {u} /\ UNCHANGED failed
          \/ Fault(u) /\ UNCHANGED closed
       /\ End(r)
       /\ UNCHANGED <<objects, media, attachmentVars, avatarUrl, shared, kept, late>>
--------------------------------------------------------------------------------
(* Attachments. *)

\* Mutant: the maximum itself is let pass.
AttachOneMore(r, u, m) ==
    /\ CountMessageAttachments(m) <= MaxAttachmentsPerMessage
    /\ Start(r, [pc |-> "put2", owner |-> u, message |-> m])
    /\ UNCHANGED <<objects, media, avatarVars, attachmentVars>>

BeginAttaching(r, u, m) ==
    /\ CountMessageAttachments(m) < MaxAttachmentsPerMessage
    /\ Start(r, [pc |-> "put2", owner |-> u, message |-> m])
    /\ UNCHANGED <<objects, media, avatarVars, attachmentVars>>

\* Who may attach to the message, its author or an instance administrator, may at any time.
UploadAttachment(r) ==
    At(r, "idle") /\ \E u \in Users, m \in Messages : BeginAttaching(r, u, m)

AttachmentKey(r) == <<"attachments", req[r].message, r>>

PutAttachment(r) ==
    LET key == AttachmentKey(r)
    IN /\ At(r, "put2")
       /\ \/ Upload(key, r) /\ Goto(r, "store2") /\ UNCHANGED orphans
          \/ /\ Upload(key, r) \/ UNCHANGED objects
             /\ End(r)
             /\ orphans' = orphans \cup {r}
       /\ UNCHANGED <<media, avatarVars, attachments, broken>>

StoreAttachmentFile(r) ==
    /\ At(r, "store2")
    /\ \/ CreateMediaFileWithMessage(r, req[r].owner, req[r].message) /\ Goto(r, "link")
       \/ Goto(r, "undo2") /\ UNCHANGED media
    /\ UNCHANGED <<objects, avatarVars, attachmentVars>>

\* Mutant: the file's row is forgotten when the attachment's cannot be stored.
LinkOrUndo(r) ==
    /\ At(r, "link")
    /\ \/ CreateMessageAttachment(r, req[r].message) /\ End(r)
       \/ Goto(r, "undo2") /\ UNCHANGED attachments
    /\ UNCHANGED <<objects, media, avatarVars, broken, orphans>>

LinkAttachment(r) ==
    /\ At(r, "link")
    /\ \/ CreateMessageAttachment(r, req[r].message) /\ End(r)
       \/ Goto(r, "unstore2") /\ UNCHANGED attachments
    /\ UNCHANGED <<objects, media, avatarVars, broken, orphans>>

UnstoreFile(r) ==
    /\ At(r, "unstore2")
    /\ \/ DeleteMediaFile(r) /\ UNCHANGED orphans
       \/ orphans' = orphans \cup {r} /\ UNCHANGED <<media, attachments>>
    /\ Goto(r, "undo2")
    /\ UNCHANGED <<objects, avatarVars, broken>>

UndoAttachment(r) ==
    /\ At(r, "undo2")
    /\ \/ Delete(AttachmentKey(r)) /\ UNCHANGED orphans
       \/ orphans' = orphans \cup {r} /\ UNCHANGED objects
    /\ End(r)
    /\ UNCHANGED <<media, avatarVars, attachments, broken>>

BeginDetaching(r, a) ==
    /\ \E x \in GetMediaFileForAttachment(a) : Start(r, [pc |-> "drop2", old |-> x])
    /\ UNCHANGED <<objects, media, avatarVars, attachmentVars>>

\* The message, whose author or an instance administrator asks, is there.
DeleteAttachment(r) == At(r, "idle") /\ \E a \in attachments : BeginDetaching(r, a)

DropAttachmentObject(r) ==
    LET x == req[r].old
    IN /\ At(r, "drop2")
       /\ \/ Delete(x.key) /\ Goto(r, "unlink") /\ UNCHANGED broken
          \/ /\ Delete(x.key) \/ UNCHANGED objects
             /\ End(r)
             /\ broken' = broken \cup {x.file}
       /\ UNCHANGED <<media, avatarVars, attachments, orphans>>

UnlinkAttachment(r) ==
    LET f == req[r].old.file
    IN /\ At(r, "unlink")
       /\ \/ DeleteMessageAttachment(f) /\ Goto(r, "unrow2") /\ UNCHANGED broken
          \/ End(r) /\ broken' = broken \cup {f} /\ UNCHANGED attachments
       /\ UNCHANGED <<objects, media, avatarVars, orphans>>

DropAttachmentFile(r) ==
    LET f == req[r].old.file
    IN /\ At(r, "unrow2")
       /\ \/ DeleteMediaFile(f) /\ UNCHANGED broken
          \/ broken' = broken \cup {f} /\ UNCHANGED <<media, attachments>>
       /\ End(r)
       /\ UNCHANGED <<objects, avatarVars, orphans>>
--------------------------------------------------------------------------------
(* Reading: what a client is answered. *)

\* The row first; without one the avatar is not found.
GetAvatar(g) ==
    /\ reading[g] = {}
    /\ \E u \in Users : \E x \in NewestOf(u) : reading' = [reading EXCEPT ![g] = {x}]
    /\ UNCHANGED <<objects, media, avatarVars, attachmentVars, req, overtaken>>

\* Then the object under the row's key, which is decrypted with what the row has. An object
\* that is not there is an avatar not found.
Answer(x) ==
    IF Download(x.key) = NoFile THEN "not found"
    ELSE IF Decrypt(x, Download(x.key)) THEN "served" ELSE "error"

DownloadAvatar(g) ==
    /\ reading[g] # {}
    /\ reading' = [reading EXCEPT ![g] = {}]
    /\ overtaken' = overtaken \ {g}
    /\ UNCHANGED <<objects, media, avatarVars, attachmentVars, req>>

\* What a step of a request means to the readers.
BesideReaders ==
    /\ UNCHANGED reading
    /\ overtaken' = overtaken \cup
         {g \in Readers : \E x \in reading[g] : objects'[x.key] \notin {objects[x.key], NoFile}}

\* Inline or as a download; an object that is not there is an error.
GetAttachment(a) ==
    IF GetMediaFileForAttachment(a) = {} THEN "not found"
    ELSE IF \A x \in GetMediaFileForAttachment(a) : Decrypt(x, Download(x.key)) THEN "served"
    ELSE "error"
--------------------------------------------------------------------------------
\* With or without an avatar, and an attachment.
Init ==
    /\ \E avatar \in SUBSET (Users \X Extensions), attached \in SUBSET (Users \X Messages) :
        /\ \A p, q \in avatar : p = q
        /\ \A p, q \in attached : p = q
        /\ LET key(p) == <<"avatars", p[1], p[2]>>
               akey(p) == <<"attachments", p[2], OldAttachment>>
               row(f, p, k) == [file |-> f, owner |-> p[1], key |-> k, at |-> 1]
           IN /\ objects = [k \in Keys |-> IF \E p \in avatar : k = key(p) THEN OldAvatar
                                           ELSE IF \E p \in attached : k = akey(p)
                                           THEN OldAttachment ELSE NoFile]
              /\ media = {row(OldAvatar, p, key(p)) : p \in avatar}
                           \cup {row(OldAttachment, p, akey(p)) : p \in attached}
        /\ attachments = {[file |-> OldAttachment, message |-> p[2]] : p \in attached}
        /\ avatarUrl = {p[1] : p \in avatar}
    /\ closed = {} /\ req = [r \in Requests |-> Idle]
    /\ reading = [g \in Readers |-> {}] /\ overtaken = {}
    /\ shared = {} /\ failed = {} /\ kept = {} /\ late = {} /\ broken = {} /\ orphans = {}

AvatarStep(r) ==
    \/ UploadAvatar(r) \/ NothingOld(r) \/ DeleteOldObject(r) \/ DeleteOldRow(r)
    \/ PutAvatar(r) \/ StoreAvatar(r) \/ UndoAvatar(r) \/ StoreAvatarUrl(r)
    \/ DeleteAvatar(r) \/ DeleteCurrentUser(r) \/ DropAvatar(r) \/ DropAvatarUrl(r) \/ SoftDeleteUser(r)
AttachmentStep(r) ==
    \/ UploadAttachment(r) \/ PutAttachment(r) \/ StoreAttachmentFile(r) \/ LinkAttachment(r)
    \/ UnstoreFile(r) \/ UndoAttachment(r)
    \/ DeleteAttachment(r) \/ DropAttachmentObject(r) \/ UnlinkAttachment(r)
    \/ DropAttachmentFile(r)

Next ==
    \/ \E r \in Requests : (AvatarStep(r) \/ AttachmentStep(r)) /\ BesideReaders
    \/ \E g \in Readers : GetAvatar(g) \/ DownloadAvatar(g)
Spec == Init /\ [][Next]_svars
--------------------------------------------------------------------------------
\* The avatar asked for decrypts, or is not found, whenever its row is read and however long
\* after that its object is downloaded: a row is never beside the object of another upload,
\* whichever calls fail. It may fail if an old row could not be deleted, if two requests that
\* write the avatar ran at once, or if an upload of the same extension put its object between
\* the two halves of this very reading (storage/service.go:144, 162, 187).
AvatarDecrypts ==
    \A g \in Readers \ overtaken : \A x \in reading[g] :
        x.owner \notin shared \cup kept => Answer(x) # "error"

\* When a user's requests are over, one after the other and without a failure, the user
\* has one avatar, which can be read and is announced, or none of row, object and URL; an
\* account that is gone has none, unless it has uploaded one since (api/handlers/users.go:113).
AvatarWhole ==
    \A u \in Users \ (shared \cup failed \cup late) :
        Busy(u) = {} =>
            LET rows == AvatarsByOwner(u)
                stored == {k \in AvatarKeys : k[2] = u /\ objects[k] # NoFile}
            IN \/ /\ rows = {} /\ stored = {}
                  /\ u \notin avatarUrl \/ u \in closed
               \/ \E x \in media :
                    /\ rows = {x} /\ stored = {x.key}
                    /\ objects[x.key] = x.file
                    /\ u \in avatarUrl /\ u \notin closed

\* Uploads that have counted a message's attachments and not added theirs.
Pending(m) == {r \in Requests : req[r].pc \in {"put2", "store2", "link"} /\ req[r].message = m}

\* What is attached to a message and may still be: as many as allowed, and one more for each
\* upload that has counted beside another. Nobody attaches who has found the message full
\* (storage/attachments.go:114-119).
AttachmentBound ==
    \A m \in Messages :
        CountMessageAttachments(m) + Cardinality(Pending(m))
            <= MaxAttachmentsPerMessage + Cardinality(Requests) - 1

\* An attachment listed can be downloaded, whatever happens to its uploader's avatars,
\* unless it is being deleted or a deletion stopped half-way (storage/attachments.go:286).
AttachmentsReadable ==
    \A a \in attachments :
        \/ a.file \in broken
        \/ \E r \in Requests : req[r].pc \in {"unlink", "unrow2"} /\ req[r].old.file = a.file
        \/ GetAttachment(a) = "served"

\* An upload whose row fails leaves neither object nor row behind, and a deletion does not
\* either, unless cleaning up fails, too. A put that is answered with an error is not
\* cleaned up at all: what it has stored nobody knows of (storage/attachments.go:157, 189).
NoOrphans ==
    \A m \in Messages, f \in Files :
        LET key == <<"attachments", m, f>>
        IN objects[key] # NoFile \/ (\E x \in media : x.key = key) =>
            \/ f \in orphans \cup broken
            \/ \E a \in attachments : a.file = f
            \/ f \in Requests /\ req[f].pc \in {"store2", "link", "unstore2", "undo2"}
            \/ \E r \in Requests : req[r].pc = "unrow2" /\ req[r].old.file = f

\* What holds of every state, whatever becomes of avatars: the types, and that the
\* attachments of a message are not too many and can be read.
Inv == TypeOK /\ ReadersOK /\ AttachmentBound /\ AttachmentsReadable
================================================================================
