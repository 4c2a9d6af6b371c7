-------------------------------- MODULE StorageProofs ----------------------------------
(***************************************************************************)
(* Proofs about Storage, for any number of users, messages and requests.   *)
(***************************************************************************)
EXTENDS Storage, TLAPS, FiniteSetTheorems, WellFoundedInduction

(* Object keys. *)

LEMMA AvatarKey ==
    ASSUME NEW k \in AvatarKeys
    PROVE  /\ k \in Keys /\ k[2] \in Users
           /\ \E e \in Extensions : k = <<"avatars", k[2], e>>
  BY DEF AvatarKeys, Keys

LEMMA MakeAvatarKey ==
    ASSUME NEW u \in Users, NEW e \in Extensions
    PROVE  <<"avatars", u, e>> \in AvatarKeys /\ <<"avatars", u, e>> \in Keys
  BY DEF AvatarKeys, Keys

LEMMA MakeAttachmentKey ==
    ASSUME NEW m \in Messages, NEW f \in Files
    PROVE  /\ <<"attachments", m, f>> \in AttachmentKeys /\ <<"attachments", m, f>> \in Keys
           /\ <<"attachments", m, f>> \notin AvatarKeys
  BY DEF AvatarKeys, AttachmentKeys, Keys

\* A finite set of natural numbers has a greatest one.
LEMMA Greatest ==
    ASSUME NEW S, S \subseteq Nat, IsFiniteSet(S), S # {}
    PROVE  \E x \in S : \A y \in S : x >= y
<1> DEFINE HasMax(X) == \E x \in X : \A y \in X : x >= y
           T == {X \in SUBSET S : X # {} /\ ~HasMax(X)}
<1> SUFFICES ASSUME ~HasMax(S) PROVE FALSE
  OBVIOUS
<1>1. T # {} /\ T \subseteq FiniteSubsetsOf(S)
  BY FS_Subset DEF FiniteSubsetsOf
<1>2. PICK X \in T : \A Y \in T : ~(<<Y, X>> \in StrictSubsetOrdering(S))
  <2>1. IsWellFoundedOn(StrictSubsetOrdering(S), FiniteSubsetsOf(S))
    BY FS_StrictSubsetOrderingWellFounded
  <2> QED
    BY <1>1, <2>1, WFMin
<1>3. PICK x \in X : TRUE
  BY <1>2
<1>4. CASE X = {x}
  BY <1>2, <1>3, <1>4
<1>5. CASE X # {x}
  <2>1. X \ {x} \in SUBSET S /\ X \ {x} # {} /\ <<X \ {x}, X>> \in StrictSubsetOrdering(S)
    BY <1>2, <1>3, <1>5 DEF StrictSubsetOrdering
  <2>2. PICK y \in X \ {x} : \A z \in X \ {x} : y >= z
    BY <1>2, <2>1
  <2>3. \A z \in X : IF x >= y THEN x >= z ELSE y >= z
    BY <2>2, <1>2, <1>3
  <2> QED
    BY <2>2, <2>3, <1>2, <1>3
<1> QED
  BY <1>4, <1>5

LEMMA MaxIsNat ==
    ASSUME NEW S, S \subseteq Nat, IsFiniteSet(S), S # {}
    PROVE  Max(S) \in Nat
  BY Greatest DEF Max

LEMMA NowIsNat ==
    ASSUME TypeOK, NEW u \in Users
    PROVE  Now(u) \in Nat
<1> DEFINE rows == {y \in media : y.owner = u}
           times == {x.at : x \in rows}
           at == [x \in rows |-> x.at]
<1>1. IsFiniteSet(rows) /\ \A x \in rows : x.at \in Nat
  BY FS_Subset DEF TypeOK, Media
<1>2. at \in Surjection(rows, times)
  BY DEF Surjection
<1>3. IsFiniteSet(times)
  BY <1>1, <1>2, FS_Surjection
<1>4. IsFiniteSet(times \cup {0}) /\ times \cup {0} \subseteq Nat /\ times \cup {0} # {}
  BY <1>1, <1>3, FS_AddElement
<1>5. Max(times \cup {0}) \in Nat
  BY <1>4, MaxIsNat
<1> QED
  BY <1>5 DEF Now
--------------------------------------------------------------------------------
(* Types. *)

\* What a request in each of its phases has.
Upload1 == {"object", "row", "put", "store", "undo", "url"}
Deletion == {"drop", "unrow", "unurl", "soft"}
Attaching == {"put2", "store2", "link", "unstore2", "undo2"}
Detaching == {"drop2", "unlink", "unrow2"}

LEMMA Fields ==
    ASSUME TypeOK, NEW r \in Requests
    PROVE  /\ req[r] \in Request
           /\ req[r].pc \in {"idle", "done"} \cup AvatarWork \cup Attaching \cup Detaching
           /\ req[r].pc \in AvatarWork => req[r].owner \in Users
           /\ req[r].pc \in Upload1 \ {"url"} => req[r].key \in AvatarKeys
           /\ req[r].pc = "url" => req[r].key \in AvatarKeys
           /\ req[r].pc \in {"object", "row"} => req[r].todo \subseteq Media
           /\ req[r].pc \in Deletion => req[r].old \subseteq Media
           /\ req[r].pc \in Attaching => req[r].owner \in Users /\ req[r].message \in Messages
           /\ req[r].pc \in Detaching => req[r].old \in Media
<1>1. req[r] \in Request
  BY DEF TypeOK
<1> QED
  BY <1>1 DEF Request, Idle, Done, AvatarWork, Attaching, Detaching, Upload1, Deletion

LEMMA Moves ==
    ASSUME TypeOK, NEW r \in Requests, NEW p, Goto(r, p),
           \/ req[r].pc \in {"object", "row"} /\ p \in {"object", "row"}
           \/ /\ req[r].pc \in {"put", "store", "undo", "url"}
              /\ p \in {"put", "store", "undo", "url"}
           \/ req[r].pc \in Deletion /\ p \in Deletion
           \/ req[r].pc \in Attaching /\ p \in Attaching
           \/ req[r].pc \in Detaching /\ p \in Detaching
    PROVE  req' \in [Requests -> Request]
<1> DEFINE q == [req[r] EXCEPT !.pc = p]
<1>1. req[r] \in Request /\ req \in [Requests -> Request]
  BY DEF TypeOK
<1>2. CASE req[r].pc \in {"object", "row"} /\ p \in {"object", "row"}
  <2>1. req[r] \in [pc : {"object", "row"}, owner : Users, key : AvatarKeys, todo : SUBSET Media]
    BY <1>1, <1>2 DEF Request, Idle, Done
  <2>2. q \in [pc : {"object", "row"}, owner : Users, key : AvatarKeys, todo : SUBSET Media]
    BY <2>1, <1>2
  <2> QED
    BY <1>1, <2>2 DEF Goto, Request
<1>3. CASE /\ req[r].pc \in {"put", "store", "undo", "url"}
           /\ p \in {"put", "store", "undo", "url"}
  <2>1. req[r] \in [pc : {"put", "store", "undo", "url"}, owner : Users, key : AvatarKeys]
    BY <1>1, <1>3 DEF Request, Idle, Done
  <2>2. q \in [pc : {"put", "store", "undo", "url"}, owner : Users, key : AvatarKeys]
    BY <2>1, <1>3
  <2> QED
    BY <1>1, <2>2 DEF Goto, Request
<1>4. CASE req[r].pc \in Deletion /\ p \in Deletion
  <2>1. req[r] \in [pc : Deletion, owner : Users, old : SUBSET Media, closing : BOOLEAN]
    BY <1>1, <1>4 DEF Request, Idle, Done, Deletion
  <2>2. q \in [pc : Deletion, owner : Users, old : SUBSET Media, closing : BOOLEAN]
    BY <2>1, <1>4
  <2> QED
    BY <1>1, <2>2 DEF Goto, Request, Deletion
<1>5. CASE req[r].pc \in Attaching /\ p \in Attaching
  <2>1. req[r] \in [pc : Attaching, owner : Users, message : Messages]
    BY <1>1, <1>5 DEF Request, Idle, Done, Attaching
  <2>2. q \in [pc : Attaching, owner : Users, message : Messages]
    BY <2>1, <1>5
  <2> QED
    BY <1>1, <2>2 DEF Goto, Request, Attaching
<1>6. CASE req[r].pc \in Detaching /\ p \in Detaching
  <2>1. req[r] \in [pc : Detaching, old : Media]
    BY <1>1, <1>6 DEF Request, Idle, Done, Detaching
  <2>2. q \in [pc : Detaching, old : Media]
    BY <2>1, <1>6
  <2> QED
    BY <1>1, <2>2 DEF Goto, Request, Detaching
<1> QED
  BY <1>2, <1>3, <1>4, <1>5, <1>6

LEMMA Ends ==
    ASSUME TypeOK, NEW r \in Requests, End(r)
    PROVE  req' \in [Requests -> Request]
  BY DEF TypeOK, End, Request, Done

LEMMA Starts ==
    ASSUME TypeOK, NEW r \in Requests, NEW q \in Request, Start(r, q)
    PROVE  req' \in [Requests -> Request]
  BY DEF TypeOK, Start

LEMMA Writes ==
    ASSUME TypeOK, NEW k \in Keys, NEW f \in Files \cup {NoFile},
           objects' = [objects EXCEPT ![k] = f]
    PROVE  objects' \in [Keys -> Files \cup {NoFile}]
  BY DEF TypeOK

LEMMA RowGoes ==
    ASSUME TypeOK, NEW f, DeleteMediaFile(f)
    PROVE  /\ media' \subseteq Media /\ IsFiniteSet(media')
           /\ attachments' \subseteq Attachment
  BY FS_Subset DEF TypeOK, DeleteMediaFile

LEMMA RowComes ==
    ASSUME TypeOK, NEW r \in Requests, NEW u \in Users, NEW k \in Keys,
           CreateMediaFile(r, u, k)
    PROVE  media' \subseteq Media /\ IsFiniteSet(media')
<1>1. Now(u) \in Nat
  BY NowIsNat
<1>2. [file |-> r, owner |-> u, key |-> k, at |-> Now(u)] \in Media
  BY <1>1 DEF Media, Files
<1> QED
  BY <1>2, FS_AddElement DEF TypeOK, CreateMediaFile

LEMMA AvatarTypes ==
    ASSUME TypeOK, NEW r \in Requests, AvatarStep(r)
    PROVE  TypeOK'
<1> USE DEF At
<1>0. /\ NoFile \in Files \cup {NoFile} /\ r \in Files \cup {NoFile} /\ AvatarKeys \subseteq Keys
      /\ \A x \in Media : x.key \in Keys /\ x.file \in Files
  BY DEF Files, Keys, Media
<1>1. CASE UploadAvatar(r)
  <2>1. PICK u \in Users, x \in Extensions : BeginUpload(r, u, x)
    BY <1>1 DEF UploadAvatar
  <2> DEFINE key == <<"avatars", u, x>>
  <2>2. key \in AvatarKeys /\ AvatarsByOwner(u) \subseteq Media
    BY MakeAvatarKey DEF TypeOK, AvatarsByOwner
  <2>3. /\ [pc |-> "object", owner |-> u, key |-> key, todo |-> AvatarsByOwner(u)] \in Request
        /\ [pc |-> "put", owner |-> u, key |-> key] \in Request
    BY <2>2 DEF Request
  <2>4. req' \in [Requests -> Request]
    BY <2>1, <2>3, Starts DEF BeginUpload
  <2>5. shared' \cup failed' \cup kept' \cup late' \subseteq Users
    BY <2>1 DEF BeginUpload, Begin, Fault, TypeOK
  <2> QED
    BY <2>1, <2>4, <2>5 DEF BeginUpload, TypeOK, attachmentVars
<1>2. CASE NothingOld(r)
  <2>1. req[r].owner \in Users /\ req[r].key \in AvatarKeys
    BY <1>2, Fields DEF NothingOld, AvatarWork, Upload1
  <2>2. [pc |-> "put", owner |-> req[r].owner, key |-> req[r].key] \in Request
    BY <2>1 DEF Request
  <2>3. req' \in [Requests -> Request]
    BY <1>2, <2>2, Starts DEF NothingOld
  <2> QED
    BY <1>2, <2>3 DEF NothingOld, TypeOK, avatarVars, attachmentVars
<1>3. CASE DeleteOldObject(r)
  <2>1. req[r].owner \in Users /\ req[r].todo \subseteq Media
    BY <1>3, Fields DEF DeleteOldObject, AvatarWork
  <2>2. objects' \in [Keys -> Files \cup {NoFile}]
    BY <1>0, <1>3, <2>1, Writes DEF DeleteOldObject, Newest, Delete, TypeOK
  <2>3. req' \in [Requests -> Request]
    BY <1>3, Moves DEF DeleteOldObject
  <2> QED
    BY <1>3, <2>1, <2>2, <2>3 DEF DeleteOldObject, Fault, TypeOK, attachmentVars
<1>4. CASE DeleteOldRow(r)
  <2>1. /\ req[r].owner \in Users /\ req[r].todo \subseteq Media /\ req[r].key \in AvatarKeys
        /\ req[r] \in Request
    BY <1>4, Fields DEF DeleteOldRow, AvatarWork, Upload1
  <2>2. PICK x \in Newest(req[r].todo) :
          /\ \/ DeleteMediaFile(x.file) /\ UNCHANGED <<failed, kept>>
             \/ /\ Fault(req[r].owner) /\ kept' = kept \cup {req[r].owner}
                /\ UNCHANGED <<media, attachments>>
          /\ req' = [req EXCEPT ![r].pc = "object", ![r].todo = @ \ {x}]
    BY <1>4 DEF DeleteOldRow
  <2>3. media' \subseteq Media /\ IsFiniteSet(media') /\ attachments' \subseteq Attachment
    BY <2>2, RowGoes DEF TypeOK
  <2> DEFINE q == [req[r] EXCEPT !.pc = "object", !.todo = @ \ {x}]
  <2>4. req[r] \in [pc : {"object", "row"}, owner : Users, key : AvatarKeys, todo : SUBSET Media]
    BY <1>4, <2>1 DEF DeleteOldRow, Request, Idle, Done
  <2>5. q \in [pc : {"object", "row"}, owner : Users, key : AvatarKeys, todo : SUBSET Media]
    BY <2>4
  <2>6. req' \in [Requests -> Request]
    BY <2>2, <2>5 DEF TypeOK, Request
  <2> QED
    BY <1>4, <2>1, <2>2, <2>3, <2>6 DEF DeleteOldRow, Fault, TypeOK
<1>5. CASE PutAvatar(r)
  <2>1. req[r].owner \in Users /\ req[r].key \in AvatarKeys
    BY <1>5, Fields DEF PutAvatar, AvatarWork, Upload1
  <2>2. objects' \in [Keys -> Files \cup {NoFile}]
    BY <1>0, <1>5, <2>1, Writes DEF PutAvatar, Upload, TypeOK
  <2>3. req' \in [Requests -> Request]
    BY <1>5, Moves, Ends DEF PutAvatar
  <2> QED
    BY <1>5, <2>1, <2>2, <2>3 DEF PutAvatar, Fault, TypeOK, attachmentVars
<1>6. CASE StoreAvatar(r)
  <2>1. req[r].owner \in Users /\ req[r].key \in Keys
    BY <1>0, <1>6, Fields DEF StoreAvatar, AvatarWork, Upload1
  <2>2. media' \subseteq Media /\ IsFiniteSet(media')
    BY <1>6, <2>1, RowComes DEF StoreAvatar, TypeOK
  <2>3. req' \in [Requests -> Request]
    BY <1>6, Moves DEF StoreAvatar
  <2> QED
    BY <1>6, <2>1, <2>2, <2>3 DEF StoreAvatar, Fault, TypeOK, attachmentVars
<1>7. CASE UndoAvatar(r)
  <2>1. req[r].key \in Keys
    BY <1>0, <1>7, Fields DEF UndoAvatar, Upload1
  <2>2. objects' \in [Keys -> Files \cup {NoFile}]
    BY <1>0, <1>7, <2>1, Writes DEF UndoAvatar, Delete, TypeOK
  <2>3. req' \in [Requests -> Request]
    BY <1>7, Ends DEF UndoAvatar
  <2> QED
    BY <1>7, <2>2, <2>3 DEF UndoAvatar, TypeOK, avatarVars, attachmentVars
<1>8. CASE StoreAvatarUrl(r)
  <2>1. req[r].owner \in Users /\ req' \in [Requests -> Request]
    BY <1>8, Fields, Ends DEF StoreAvatarUrl, AvatarWork
  <2> QED
    BY <1>8, <2>1 DEF StoreAvatarUrl, UpdateUserAvatar, Fault, TypeOK, attachmentVars
<1>9. CASE DeleteAvatar(r) \/ DeleteCurrentUser(r)
  <2>1. PICK u \in Users, c \in BOOLEAN : BeginDeletion(r, u, c)
    BY <1>9 DEF DeleteAvatar, DeleteCurrentUser
  <2> DEFINE q == [pc |-> IF NewestOf(u) = {} THEN "soft" ELSE "drop", owner |-> u,
                   closing |-> c, old |-> NewestOf(u)]
  <2>2. NewestOf(u) \subseteq Media
    BY DEF NewestOf, Newest, AvatarsByOwner, TypeOK
  <2>3. q \in Request
    BY <2>2 DEF Request
  <2>4. req' \in [Requests -> Request]
    BY <2>1, <2>3, Starts DEF BeginDeletion
  <2> QED
    BY <2>1, <2>4 DEF BeginDeletion, Begin, TypeOK, attachmentVars
<1>10. CASE At(r, "drop") /\ DropObject(r)
  <2>1. req[r].owner \in Users /\ req[r].old \subseteq Media
    BY <1>10, Fields DEF AvatarWork, Deletion
  <2>2. objects' \in [Keys -> Files \cup {NoFile}]
    BY <1>0, <1>10, <2>1, Writes DEF DropObject, Delete, TypeOK
  <2>3. req' \in [Requests -> Request]
    BY <1>10, Moves, Ends DEF DropObject, GiveUp, Deletion
  <2> QED
    BY <1>10, <2>1, <2>2, <2>3 DEF DropObject, Fault, TypeOK, attachmentVars
<1>11. CASE At(r, "unrow") /\ DropRow(r)
  <2>1. req[r].owner \in Users
    BY <1>11, Fields DEF AvatarWork
  <2>2. media' \subseteq Media /\ IsFiniteSet(media') /\ attachments' \subseteq Attachment
    BY <1>11, RowGoes DEF DropRow, TypeOK
  <2>3. req' \in [Requests -> Request]
    BY <1>11, Moves, Ends DEF DropRow, GiveUp, Deletion
  <2> QED
    BY <1>11, <2>1, <2>2, <2>3 DEF DropRow, Fault, TypeOK
<1>12. CASE DropAvatarUrl(r)
  <2>1. req[r].owner \in Users /\ req' \in [Requests -> Request]
    BY <1>12, Fields, Ends DEF DropAvatarUrl, AvatarWork
  <2> QED
    BY <1>12, <2>1 DEF DropAvatarUrl, RemoveUserAvatar, Fault, TypeOK, attachmentVars
<1>13. CASE SoftDeleteUser(r)
  <2>1. req[r].owner \in Users /\ req' \in [Requests -> Request]
    BY <1>13, Fields, Ends DEF SoftDeleteUser, AvatarWork
  <2> QED
    BY <1>13, <2>1 DEF SoftDeleteUser, Fault, TypeOK, attachmentVars
<1> QED
  BY <1>1, <1>2, <1>3, <1>4, <1>5, <1>6, <1>7, <1>8, <1>9, <1>10, <1>11, <1>12, <1>13
     DEF AvatarStep, DropAvatar

LEMMA AttachmentTypes ==
    ASSUME TypeOK, NEW r \in Requests, AttachmentStep(r)
    PROVE  TypeOK'
<1> USE DEF At
<1>0. /\ NoFile \in Files \cup {NoFile} /\ r \in Files \cup {NoFile} /\ r \in Files
      /\ \A x \in Media : x.key \in Keys /\ x.file \in Files
  BY DEF Files, Media
<1>1. CASE UploadAttachment(r)
  <2>1. PICK u \in Users, m \in Messages : BeginAttaching(r, u, m)
    BY <1>1 DEF UploadAttachment
  <2>2. [pc |-> "put2", owner |-> u, message |-> m] \in Request
    BY DEF Request
  <2>3. req' \in [Requests -> Request]
    BY <2>1, <2>2, Starts DEF BeginAttaching
  <2> QED
    BY <2>1, <2>3 DEF BeginAttaching, TypeOK, avatarVars, attachmentVars
<1>2. CASE PutAttachment(r)
  <2>1. AttachmentKey(r) \in Keys
    BY <1>0, <1>2, Fields, MakeAttachmentKey DEF PutAttachment, Attaching, AttachmentKey
  <2>2. objects' \in [Keys -> Files \cup {NoFile}]
    BY <1>0, <1>2, <2>1, Writes DEF PutAttachment, Upload, TypeOK
  <2>3. req' \in [Requests -> Request]
    BY <1>2, Moves, Ends DEF PutAttachment, Attaching
  <2> QED
    BY <1>0, <1>2, <2>2, <2>3 DEF PutAttachment, TypeOK, avatarVars
<1>3. CASE StoreAttachmentFile(r)
  <2>1. /\ req[r].owner \in Users /\ req[r].message \in Messages
        /\ <<"attachments", req[r].message, r>> \in Keys
    BY <1>0, <1>3, Fields, MakeAttachmentKey DEF StoreAttachmentFile, Attaching
  <2>2. media' \subseteq Media /\ IsFiniteSet(media')
    BY <1>3, <2>1, RowComes DEF StoreAttachmentFile, CreateMediaFileWithMessage, TypeOK
  <2>3. req' \in [Requests -> Request]
    BY <1>3, Moves DEF StoreAttachmentFile, Attaching
  <2> QED
    BY <1>3, <2>2, <2>3 DEF StoreAttachmentFile, TypeOK, avatarVars, attachmentVars
<1>4. CASE LinkAttachment(r)
  <2>1. req[r].message \in Messages /\ req' \in [Requests -> Request]
    BY <1>4, Fields, Moves, Ends DEF LinkAttachment, Attaching
  <2> QED
    BY <1>0, <1>4, <2>1
       DEF LinkAttachment, CreateMessageAttachment, Attachment, TypeOK, avatarVars
<1>5. CASE UnstoreFile(r)
  <2>1. media' \subseteq Media /\ IsFiniteSet(media') /\ attachments' \subseteq Attachment
    BY <1>5, RowGoes DEF UnstoreFile, TypeOK
  <2>2. req' \in [Requests -> Request]
    BY <1>5, Moves DEF UnstoreFile, Attaching
  <2> QED
    BY <1>0, <1>5, <2>1, <2>2 DEF UnstoreFile, TypeOK, avatarVars
<1>6. CASE UndoAttachment(r)
  <2>1. AttachmentKey(r) \in Keys
    BY <1>0, <1>6, Fields, MakeAttachmentKey DEF UndoAttachment, Attaching, AttachmentKey
  <2>2. objects' \in [Keys -> Files \cup {NoFile}] /\ req' \in [Requests -> Request]
    BY <1>0, <1>6, <2>1, Writes, Ends DEF UndoAttachment, Delete, TypeOK
  <2> QED
    BY <1>0, <1>6, <2>2 DEF UndoAttachment, TypeOK, avatarVars
<1>7. CASE DeleteAttachment(r)
  <2>1. PICK x \in media : Start(r, [pc |-> "drop2", old |-> x])
    BY <1>7 DEF DeleteAttachment, BeginDetaching, GetMediaFileForAttachment
  <2>2. [pc |-> "drop2", old |-> x] \in Request
    BY DEF TypeOK, Request
  <2>3. req' \in [Requests -> Request]
    BY <2>1, <2>2, Starts
  <2> QED
    BY <1>7, <2>3 DEF DeleteAttachment, BeginDetaching, TypeOK, avatarVars, attachmentVars
<1>8. CASE DropAttachmentObject(r)
  <2>1. req[r].old.key \in Keys /\ req[r].old.file \in Files
    BY <1>0, <1>8, Fields DEF DropAttachmentObject, Detaching
  <2>2. objects' \in [Keys -> Files \cup {NoFile}] /\ req' \in [Requests -> Request]
    BY <1>0, <1>8, <2>1, Writes, Moves, Ends DEF DropAttachmentObject, Delete, TypeOK, Detaching
  <2> QED
    BY <1>8, <2>1, <2>2 DEF DropAttachmentObject, TypeOK, avatarVars
<1>9. CASE UnlinkAttachment(r)
  <2>1. req[r].old.file \in Files /\ req' \in [Requests -> Request]
    BY <1>0, <1>9, Fields, Moves, Ends DEF UnlinkAttachment, Detaching
  <2> QED
    BY <1>9, <2>1 DEF UnlinkAttachment, DeleteMessageAttachment, TypeOK, avatarVars
<1>10. CASE DropAttachmentFile(r)
  <2>1. req[r].old.file \in Files /\ req' \in [Requests -> Request]
    BY <1>0, <1>10, Fields, Ends DEF DropAttachmentFile, Detaching
  <2>2. media' \subseteq Media /\ IsFiniteSet(media') /\ attachments' \subseteq Attachment
    BY <1>10, RowGoes DEF DropAttachmentFile, TypeOK
  <2> QED
    BY <1>10, <2>1, <2>2 DEF DropAttachmentFile, TypeOK, avatarVars
<1> QED
  BY <1>1, <1>2, <1>3, <1>4, <1>5, <1>6, <1>7, <1>8, <1>9, <1>10 DEF AttachmentStep

\* What Init says of the rows and objects there may be.
LEMMA Beginning ==
    ASSUME Init
    PROVE  \E avatar \in SUBSET (Users \X Extensions), attached \in SUBSET (Users \X Messages) :
             /\ \A p, q \in avatar : p = q
             /\ \A p, q \in attached : p = q
             /\ objects = [k \in Keys |->
                  IF \E p \in avatar : k = <<"avatars", p[1], p[2]>> THEN OldAvatar
                  ELSE IF \E p \in attached : k = <<"attachments", p[2], OldAttachment>>
                  THEN OldAttachment ELSE NoFile]
             /\ media = {[file |-> OldAvatar, owner |-> p[1],
                          key |-> <<"avatars", p[1], p[2]>>, at |-> 1] : p \in avatar}
                  \cup {[file |-> OldAttachment, owner |-> p[1],
                         key |-> <<"attachments", p[2], OldAttachment>>, at |-> 1] : p \in attached}
             /\ attachments = {[file |-> OldAttachment, message |-> p[2]] : p \in attached}
             /\ avatarUrl = {p[1] : p \in avatar}
  BY DEF Init

LEMMA InitTypes == Init => TypeOK
<1> SUFFICES ASSUME Init PROVE TypeOK
  OBVIOUS
<1>1. PICK avatar \in SUBSET (Users \X Extensions), attached \in SUBSET (Users \X Messages) :
        /\ \A p, q \in avatar : p = q
        /\ \A p, q \in attached : p = q
        /\ objects = [k \in Keys |->
             IF \E p \in avatar : k = <<"avatars", p[1], p[2]>> THEN OldAvatar
             ELSE IF \E p \in attached : k = <<"attachments", p[2], OldAttachment>>
             THEN OldAttachment ELSE NoFile]
        /\ media = {[file |-> OldAvatar, owner |-> p[1],
                     key |-> <<"avatars", p[1], p[2]>>, at |-> 1] : p \in avatar}
             \cup {[file |-> OldAttachment, owner |-> p[1],
                    key |-> <<"attachments", p[2], OldAttachment>>, at |-> 1] : p \in attached}
        /\ attachments = {[file |-> OldAttachment, message |-> p[2]] : p \in attached}
        /\ avatarUrl = {p[1] : p \in avatar}
  BY Beginning
<1> DEFINE rows1 == {[file |-> OldAvatar, owner |-> p[1],
                      key |-> <<"avatars", p[1], p[2]>>, at |-> 1] : p \in avatar}
           rows2 == {[file |-> OldAttachment, owner |-> p[1],
                      key |-> <<"attachments", p[2], OldAttachment>>, at |-> 1] : p \in attached}
<1>2. rows1 = {} \/ \E x : rows1 = {x}
  BY <1>1
<1>3. rows2 = {} \/ \E x : rows2 = {x}
  BY <1>1
<1>4. IsFiniteSet(rows1 \cup rows2)
  BY <1>2, <1>3, FS_EmptySet, FS_Singleton, FS_Union
<1>5. rows1 \cup rows2 \subseteq Media
  BY MakeAvatarKey, MakeAttachmentKey DEF Media, Files
<1>6. objects \in [Keys -> Files \cup {NoFile}]
  BY <1>1 DEF Files
<1>7. attachments \subseteq Attachment /\ avatarUrl \subseteq Users
  BY <1>1 DEF Attachment, Files
<1>8. req \in [Requests -> Request]
  BY DEF Init, Request
<1> QED
  BY <1>1, <1>4, <1>5, <1>6, <1>7, <1>8 DEF Init, TypeOK
--------------------------------------------------------------------------------
(***************************************************************************)
(* Rows.  A file has one row, made by the request it is named after, and   *)
(* what a request has read of a row stays true: the row is there, or no    *)
(* other will ever have its file.                                          *)
(***************************************************************************)

AvatarRow(x, u) == x.owner = u /\ \E e \in Extensions : x.key = <<"avatars", u, e>>
AttachmentRow(x) == \E m \in Messages : x.key = <<"attachments", m, x.file>>

\* Phases before a request's row is made; requests that are through.
Young == {"idle", "object", "row", "put", "store", "put2", "store2"}
Stored(f, q) == f \in Requests => q[f].pc \notin Young
Linked(f, q) == f \in Requests => q[f].pc = "done"
Known(x, rows, q) == Stored(x.file, q) /\ (x \in rows \/ \A y \in rows : y.file # x.file)

RowsOK ==
    /\ \A x \in media : Stored(x.file, req) /\ (AvatarRow(x, x.owner) \/ AttachmentRow(x))
    /\ \A x, y \in media : x.file = y.file => x = y

HasRead(s, rows, q) ==
    /\ q[s].pc \in {"object", "row"} =>
         \A x \in q[s].todo : Known(x, rows, q) /\ AvatarRow(x, q[s].owner)
    /\ q[s].pc \in Upload1 => \E e \in Extensions : q[s].key = <<"avatars", q[s].owner, e>>
    /\ q[s].pc \in Deletion => \A x \in q[s].old : Known(x, rows, q) /\ AvatarRow(x, q[s].owner)
    /\ q[s].pc \in Detaching =>
         Known(q[s].old, rows, q) /\ Linked(q[s].old.file, q) /\ AttachmentRow(q[s].old)
    /\ q[s].pc \in {"link", "unstore2"} =>
         \E x \in rows : x.file = s /\ x.key = <<"attachments", q[s].message, s>>

AttachedOK ==
    \A a \in attachments :
        /\ Linked(a.file, req)
        /\ \E x \in media : x.file = a.file /\ x.key = <<"attachments", a.message, a.file>>

Struct == RowsOK /\ (\A s \in Requests : HasRead(s, media, req)) /\ AttachedOK

\* What a step does to its request's phase, and to the other requests.
LEMMA PhaseMoves ==
    ASSUME TypeOK, NEW r \in Requests, AvatarStep(r) \/ AttachmentStep(r)
    PROVE  /\ \A s \in Requests \ {r} : req'[s] = req[s]
           /\ req[r].pc # "done"
           /\ req[r].pc \notin Young => req'[r].pc \notin Young
<1> DEFINE Good == /\ \A s \in Requests \ {r} : req'[s] = req[s]
                   /\ req[r].pc # "done"
                   /\ req[r].pc \notin Young => req'[r].pc \notin Young
<1>0. req \in [Requests -> Request]
  BY DEF TypeOK
<1>1. ASSUME NEW q, Start(r, q), req[r].pc = "idle" PROVE Good
  BY <1>0, <1>1 DEF Start, Young
<1>2. ASSUME NEW p, Goto(r, p), req[r].pc # "done", req[r].pc \notin Young => p \notin Young
      PROVE Good
  BY <1>0, <1>2 DEF Goto
<1>3. ASSUME End(r), req[r].pc # "done" PROVE Good
  BY <1>0, <1>3 DEF End, Done, Young
<1>4. CASE UploadAvatar(r) \/ DeleteAvatar(r) \/ DeleteCurrentUser(r)
  BY <1>1, <1>4 DEF UploadAvatar, DeleteAvatar, DeleteCurrentUser, BeginUpload, BeginDeletion, At
<1>5. CASE UploadAttachment(r) \/ DeleteAttachment(r)
  BY <1>1, <1>5 DEF UploadAttachment, DeleteAttachment, BeginAttaching, BeginDetaching, At
<1>6. CASE NothingOld(r)
  BY <1>0, <1>6 DEF NothingOld, Start, At, Young
<1>7. CASE DeleteOldRow(r)
  BY <1>0, <1>7 DEF DeleteOldRow, At, Young
<1>8. CASE DeleteOldObject(r) \/ PutAvatar(r) \/ StoreAvatar(r) \/ UndoAvatar(r) \/ StoreAvatarUrl(r)
  BY <1>2, <1>3, <1>8
     DEF DeleteOldObject, PutAvatar, StoreAvatar, UndoAvatar, StoreAvatarUrl, At, Young
<1>9. CASE DropAvatar(r) \/ DropAvatarUrl(r) \/ SoftDeleteUser(r)
  BY <1>2, <1>3, <1>9
     DEF DropAvatar, DropObject, DropRow, GiveUp, DropAvatarUrl, SoftDeleteUser, At, Young
<1>10. CASE PutAttachment(r) \/ StoreAttachmentFile(r) \/ LinkAttachment(r)
            \/ UnstoreFile(r) \/ UndoAttachment(r)
  BY <1>2, <1>3, <1>10
     DEF PutAttachment, StoreAttachmentFile, LinkAttachment, UnstoreFile, UndoAttachment, At, Young
<1>11. CASE DropAttachmentObject(r) \/ UnlinkAttachment(r) \/ DropAttachmentFile(r)
  BY <1>2, <1>3, <1>11
     DEF DropAttachmentObject, UnlinkAttachment, DropAttachmentFile, At, Young
<1> QED
  BY <1>4, <1>5, <1>6, <1>7, <1>8, <1>9, <1>10, <1>11 DEF AvatarStep, AttachmentStep

LEMMA FilesKept ==
    ASSUME TypeOK, NEW r \in Requests, AvatarStep(r) \/ AttachmentStep(r), NEW f
    PROVE  /\ Stored(f, req) => Stored(f, req')
           /\ Linked(f, req) => Linked(f, req')
  BY PhaseMoves DEF Stored, Linked

(* What a step does to the rows. *)

RemovesAvatar(r, f) ==
    /\ req[r].pc \in {"row", "unrow"} /\ DeleteMediaFile(f)
    /\ \A y \in media : y.file = f => AvatarRow(y, req[r].owner)
RemovesFile(r, f) ==
    /\ \/ req[r].pc = "unstore2" /\ f = r /\ req'[r].pc = "undo2"
       \/ req[r].pc = "unrow2" /\ f = req[r].old.file /\ req'[r].pc = "done"
    /\ DeleteMediaFile(f)
    /\ \A y \in media : y.file = f => AttachmentRow(y)
Adds(r, x) ==
    /\ media' = media \cup {x} /\ attachments' = attachments
    /\ x.file = r /\ x.owner = req[r].owner
    /\ \/ req[r].pc = "store" /\ x.key = req[r].key /\ req'[r].pc = "url"
       \/ req[r].pc = "store2" /\ x.key = <<"attachments", req[r].message, r>> /\ req'[r].pc = "link"
Links(r) ==
    /\ media' = media /\ req[r].pc = "link" /\ req'[r].pc = "done"
    /\ CreateMessageAttachment(r, req[r].message)
Unlinks(r) ==
    /\ media' = media /\ req[r].pc = "unlink" /\ req'[r].pc = "unrow2"
    /\ req'[r].old = req[r].old
    /\ DeleteMessageAttachment(req[r].old.file)

LEMMA KnownAvatar ==
    ASSUME RowsOK, NEW x, NEW u, Known(x, media, req), AvatarRow(x, u)
    PROVE  \A y \in media : y.file = x.file => AvatarRow(y, u)
  BY DEF RowsOK, Known

LEMMA KnownFile ==
    ASSUME RowsOK, NEW x, Known(x, media, req), AttachmentRow(x)
    PROVE  \A y \in media : y.file = x.file => AttachmentRow(y)
  BY DEF RowsOK, Known

LEMMA RowMoves ==
    ASSUME TypeOK, Struct, NEW r \in Requests, AvatarStep(r) \/ AttachmentStep(r)
    PROVE  \/ UNCHANGED <<media, attachments>>
           \/ \E f \in Files : RemovesAvatar(r, f) \/ RemovesFile(r, f)
           \/ \E x : Adds(r, x)
           \/ Links(r) \/ Unlinks(r)
<1> DEFINE Good == \/ UNCHANGED <<media, attachments>>
                   \/ \E f \in Files : RemovesAvatar(r, f) \/ RemovesFile(r, f)
                   \/ \E x : Adds(r, x)
                   \/ Links(r) \/ Unlinks(r)
<1> USE DEF At
<1>0. /\ RowsOK /\ HasRead(r, media, req) /\ req \in [Requests -> Request] /\ r \in Files
      /\ \A x \in Media : x.file \in Files
  BY DEF Struct, TypeOK, Files, Media
<1>1. CASE UNCHANGED <<media, attachments>>
  BY <1>1
<1>2. CASE DeleteOldRow(r)
  <2>1. PICK x \in req[r].todo :
          DeleteMediaFile(x.file) \/ UNCHANGED <<media, attachments>>
    BY <1>2 DEF DeleteOldRow, Newest
  <2>2. x.file \in Files /\ \A y \in media : y.file = x.file => AvatarRow(y, req[r].owner)
    BY <1>0, <1>2, <2>1, KnownAvatar, Fields DEF DeleteOldRow, HasRead
  <2>3. DeleteMediaFile(x.file) => RemovesAvatar(r, x.file)
    BY <1>2, <2>2 DEF DeleteOldRow, RemovesAvatar
  <2> QED
    BY <2>1, <2>2, <2>3
<1>3. CASE At(r, "unrow") /\ DropRow(r)
  <2>1. PICK x \in req[r].old :
          DeleteMediaFile(x.file) \/ UNCHANGED <<media, attachments>>
    BY <1>3 DEF DropRow
  <2>2. x.file \in Files /\ \A y \in media : y.file = x.file => AvatarRow(y, req[r].owner)
    BY <1>0, <1>3, <2>1, KnownAvatar, Fields DEF HasRead, Deletion
  <2>3. DeleteMediaFile(x.file) => RemovesAvatar(r, x.file)
    BY <1>3, <2>2 DEF RemovesAvatar
  <2> QED
    BY <2>1, <2>2, <2>3
<1>4. CASE StoreAvatar(r)
  <2> DEFINE x == [file |-> r, owner |-> req[r].owner, key |-> req[r].key,
                   at |-> Now(req[r].owner)]
  <2>1. (media' = media \cup {x} /\ Goto(r, "url")) \/ UNCHANGED media
    BY <1>4 DEF StoreAvatar, CreateMediaFile
  <2>2. attachments' = attachments /\ req[r].pc = "store"
    BY <1>4 DEF StoreAvatar, attachmentVars
  <2>3. Goto(r, "url") => req'[r].pc = "url"
    BY <1>0 DEF Goto
  <2>4. media' = media \cup {x} /\ Goto(r, "url") => Adds(r, x)
    BY <2>2, <2>3 DEF Adds
  <2> QED
    BY <2>1, <2>2, <2>4
<1>5. CASE StoreAttachmentFile(r)
  <2> DEFINE x == [file |-> r, owner |-> req[r].owner,
                   key |-> <<"attachments", req[r].message, r>>, at |-> Now(req[r].owner)]
  <2>1. (media' = media \cup {x} /\ Goto(r, "link")) \/ UNCHANGED media
    BY <1>5 DEF StoreAttachmentFile, CreateMediaFileWithMessage, CreateMediaFile
  <2>2. attachments' = attachments /\ req[r].pc = "store2"
    BY <1>5 DEF StoreAttachmentFile, attachmentVars
  <2>3. Goto(r, "link") => req'[r].pc = "link"
    BY <1>0 DEF Goto
  <2>4. media' = media \cup {x} /\ Goto(r, "link") => Adds(r, x)
    BY <2>2, <2>3 DEF Adds
  <2> QED
    BY <2>1, <2>2, <2>4
<1>6. CASE LinkAttachment(r)
  <2>1. End(r) => req'[r].pc = "done"
    BY <1>0 DEF End, Done
  <2> QED
    BY <1>6, <2>1 DEF LinkAttachment, Links
<1>7. CASE UnstoreFile(r)
  <2>1. req[r].pc = "unstore2" /\ req'[r].pc = "undo2"
    BY <1>0, <1>7 DEF UnstoreFile, Goto
  <2>2. \A y \in media : y.file = r => AttachmentRow(y)
    <3>1. PICK x \in media : x.file = r /\ x.key = <<"attachments", req[r].message, r>>
      BY <1>0, <2>1 DEF HasRead
    <3>2. req[r].message \in Messages
      BY <2>1, Fields DEF Attaching
    <3> QED
      BY <1>0, <3>1, <3>2 DEF RowsOK, AttachmentRow
  <2> QED
    BY <1>0, <1>7, <2>1, <2>2 DEF UnstoreFile, RemovesFile
<1>8. CASE UnlinkAttachment(r)
  <2>1. Goto(r, "unrow2") => req'[r].pc = "unrow2" /\ req'[r].old = req[r].old
    BY <1>0 DEF Goto
  <2> QED
    BY <1>8, <2>1 DEF UnlinkAttachment, Unlinks
<1>9. CASE DropAttachmentFile(r)
  <2>1. req[r].pc = "unrow2" /\ req'[r].pc = "done"
    BY <1>0, <1>9 DEF DropAttachmentFile, End, Done
  <2>2. /\ req[r].old.file \in Files
        /\ \A y \in media : y.file = req[r].old.file => AttachmentRow(y)
    BY <1>0, <2>1, Fields, KnownFile DEF HasRead, Detaching
  <2> QED
    BY <1>9, <2>1, <2>2 DEF DropAttachmentFile, RemovesFile
<1>10. CASE \/ UploadAvatar(r) \/ NothingOld(r) \/ DeleteOldObject(r) \/ PutAvatar(r)
            \/ UndoAvatar(r) \/ StoreAvatarUrl(r) \/ DeleteAvatar(r) \/ DeleteCurrentUser(r)
            \/ (At(r, "drop") /\ DropObject(r)) \/ DropAvatarUrl(r) \/ SoftDeleteUser(r)
  BY <1>1, <1>10
     DEF UploadAvatar, BeginUpload, NothingOld, DeleteOldObject, PutAvatar, UndoAvatar,
         StoreAvatarUrl, DeleteAvatar, DeleteCurrentUser, BeginDeletion, DropObject,
         DropAvatarUrl, SoftDeleteUser, attachmentVars
<1>11. CASE UploadAttachment(r) \/ PutAttachment(r) \/ UndoAttachment(r) \/ DeleteAttachment(r)
            \/ DropAttachmentObject(r)
  BY <1>1, <1>11
     DEF UploadAttachment, BeginAttaching, PutAttachment, UndoAttachment, DeleteAttachment,
         BeginDetaching, DropAttachmentObject, attachmentVars
<1> QED
  BY <1>2, <1>3, <1>4, <1>5, <1>6, <1>7, <1>8, <1>9, <1>10, <1>11
     DEF AvatarStep, AttachmentStep, DropAvatar

LEMMA KnownKept ==
    ASSUME TypeOK, Struct, NEW r \in Requests, AvatarStep(r) \/ AttachmentStep(r),
           NEW x, Known(x, media, req)
    PROVE  Known(x, media', req')
<1>1. Stored(x.file, req) /\ Stored(x.file, req')
  BY FilesKept DEF Known
<1>2. ASSUME NEW f, DeleteMediaFile(f) PROVE Known(x, media', req')
  BY <1>1, <1>2 DEF Known, DeleteMediaFile
<1>3. ASSUME NEW y, Adds(r, y) PROVE Known(x, media', req')
  <2>1. x.file # r
    BY <1>1, <1>3 DEF Adds, Stored, Young
  <2> QED
    BY <1>1, <1>3, <2>1 DEF Adds, Known
<1>4. CASE media' = media
  BY <1>1, <1>4 DEF Known
<1> QED
  BY <1>2, <1>3, <1>4, RowMoves DEF RemovesAvatar, RemovesFile, Links, Unlinks

LEMMA RowsStep ==
    ASSUME TypeOK, Struct, NEW r \in Requests, AvatarStep(r) \/ AttachmentStep(r)
    PROVE  RowsOK'
<1>1. \A x \in media : Stored(x.file, req') /\ (AvatarRow(x, x.owner) \/ AttachmentRow(x))
  BY FilesKept DEF Struct, RowsOK
<1>2. \A x, y \in media : x.file = y.file => x = y
  BY DEF Struct, RowsOK
<1>3. CASE media' \subseteq media
  BY <1>1, <1>2, <1>3 DEF RowsOK
<1>4. ASSUME NEW x, Adds(r, x) PROVE RowsOK'
  <2>1. \A y \in media : y.file # r
    BY <1>4 DEF Adds, Struct, RowsOK, Stored, Young
  <2>2. Stored(r, req')
    BY <1>4 DEF Adds, Stored, Young
  <2>3. AvatarRow(x, x.owner) \/ AttachmentRow(x)
    <3>1. HasRead(r, media, req)
      BY DEF Struct
    <3>2. CASE req[r].pc = "store"
      BY <1>4, <3>1, <3>2 DEF Adds, HasRead, Upload1, AvatarRow
    <3>3. CASE req[r].pc = "store2"
      BY <1>4, <3>3, Fields DEF Adds, AttachmentRow, Attaching
    <3> QED
      BY <1>4, <3>2, <3>3 DEF Adds
  <2> QED
    BY <1>1, <1>2, <1>4, <2>1, <2>2, <2>3 DEF Adds, RowsOK
<1> QED
  BY <1>3, <1>4, RowMoves DEF RemovesAvatar, RemovesFile, DeleteMediaFile, Links, Unlinks

LEMMA AttachedStep ==
    ASSUME TypeOK, Struct, NEW r \in Requests, AvatarStep(r) \/ AttachmentStep(r)
    PROVE  AttachedOK'
<1> SUFFICES ASSUME NEW a \in attachments'
             PROVE  /\ Linked(a.file, req')
                    /\ \E x \in media' : /\ x.file = a.file
                                         /\ x.key = <<"attachments", a.message, a.file>>
  BY DEF AttachedOK
<1>1. CASE a \in attachments
  <2>1. Linked(a.file, req')
    BY <1>1, FilesKept DEF Struct, AttachedOK
  <2>2. PICK x \in media : x.file = a.file /\ x.key = <<"attachments", a.message, a.file>>
    BY <1>1 DEF Struct, AttachedOK
  <2>3. x \in media'
    BY <2>2, RowMoves
       DEF RemovesAvatar, RemovesFile, DeleteMediaFile, Adds, Links, Unlinks
  <2> QED
    BY <2>1, <2>2, <2>3
<1>2. CASE a \notin attachments
  <2>1. Links(r) /\ a = [file |-> r, message |-> req[r].message]
    BY <1>2, RowMoves
       DEF RemovesAvatar, RemovesFile, DeleteMediaFile, Adds, Links, Unlinks,
           CreateMessageAttachment, DeleteMessageAttachment
  <2>2. \E x \in media : x.file = r /\ x.key = <<"attachments", req[r].message, r>>
    BY <2>1 DEF Links, Struct, HasRead
  <2> QED
    BY <2>1, <2>2 DEF Links, Linked
<1> QED
  BY <1>1, <1>2

LEMMA OthersHaveRead ==
    ASSUME TypeOK, Struct, NEW r \in Requests, AvatarStep(r) \/ AttachmentStep(r),
           NEW s \in Requests \ {r}
    PROVE  HasRead(s, media', req')
<1>1. req'[s] = req[s] /\ HasRead(s, media, req)
  BY PhaseMoves DEF Struct
<1>2. \A x : Known(x, media, req) => Known(x, media', req')
  BY KnownKept
<1>3. \A f : Linked(f, req) => Linked(f, req')
  BY FilesKept
<1>4. ASSUME req[s].pc \in {"link", "unstore2"}
      PROVE  \E x \in media' : x.file = s /\ x.key = <<"attachments", req[s].message, s>>
  <2>1. PICK x \in media : x.file = s /\ x.key = <<"attachments", req[s].message, s>>
    BY <1>1, <1>4 DEF HasRead
  <2>2. ASSUME NEW f, RemovesAvatar(r, f) PROVE x \in media'
    BY <2>1, <2>2 DEF RemovesAvatar, DeleteMediaFile, AvatarRow
  <2>3. ASSUME NEW f, RemovesFile(r, f) PROVE x \in media'
    <3>1. HasRead(r, media, req)
      BY DEF Struct
    <3>2. f # s
      BY <1>4, <2>3, <3>1 DEF RemovesFile, HasRead, Detaching, Linked
    <3> QED
      BY <2>1, <2>3, <3>2 DEF RemovesFile, DeleteMediaFile
  <2> QED
    BY <2>1, <2>2, <2>3, RowMoves DEF Adds, Links, Unlinks
<1> QED
  BY <1>1, <1>2, <1>3, <1>4 DEF HasRead

LEMMA OwnAvatars ==
    ASSUME TypeOK, RowsOK, NEW u, NEW x \in AvatarsByOwner(u)
    PROVE  Known(x, media, req) /\ AvatarRow(x, u)
<1>1. x \in media /\ x.owner = u /\ x.key \in AvatarKeys /\ x.file \in Files
  BY DEF AvatarsByOwner, TypeOK, Media
<1>2. ~AttachmentRow(x)
  BY <1>1, MakeAttachmentKey DEF AttachmentRow
<1>3. Stored(x.file, req) /\ AvatarRow(x, x.owner)
  BY <1>1, <1>2 DEF RowsOK
<1> QED
  BY <1>1, <1>3 DEF Known

LEMMA OwnHasRead ==
    ASSUME TypeOK, Struct, NEW r \in Requests, AvatarStep(r) \/ AttachmentStep(r)
    PROVE  HasRead(r, media', req')
<1> USE DEF At
<1>0. /\ RowsOK /\ HasRead(r, media, req) /\ req \in [Requests -> Request]
      /\ \A x : Known(x, media, req) => Known(x, media', req')
      /\ \A f : Linked(f, req) => Linked(f, req')
  BY KnownKept, FilesKept DEF Struct, TypeOK
<1> DEFINE Quiet == {"idle", "done", "put2", "store2", "undo2"}
<1>1. ASSUME req'[r].pc \in Quiet PROVE HasRead(r, media', req')
  BY <1>1 DEF HasRead, Upload1, Deletion, Detaching
<1>2. ASSUME End(r) PROVE HasRead(r, media', req')
  BY <1>0, <1>1, <1>2 DEF End, Done
<1>3. ASSUME NEW p, Goto(r, p), p \in Upload1 \ {"object", "row"}, req[r].pc \in Upload1
      PROVE  HasRead(r, media', req')
  <2>1. req'[r].pc = p /\ req'[r].owner = req[r].owner /\ req'[r].key = req[r].key
    BY <1>0, <1>3, Fields DEF Goto, Upload1, AvatarWork
  <2> QED
    BY <1>0, <1>3, <2>1 DEF HasRead, Upload1, Deletion, Detaching
<1>4. ASSUME NEW p, Goto(r, p), p \in Deletion, req[r].pc \in Deletion
      PROVE  HasRead(r, media', req')
  <2>1. req'[r].pc = p /\ req'[r].owner = req[r].owner /\ req'[r].old = req[r].old
    BY <1>0, <1>4 DEF Goto
  <2> QED
    BY <1>0, <1>4, <2>1 DEF HasRead, Upload1, Deletion, Detaching
<1>5. ASSUME NEW p, Goto(r, p), p \in Detaching, req[r].pc \in Detaching
      PROVE  HasRead(r, media', req')
  <2>1. req'[r].pc = p /\ req'[r].old = req[r].old
    BY <1>0, <1>5 DEF Goto
  <2> QED
    BY <1>0, <1>5, <2>1 DEF HasRead, Upload1, Deletion, Detaching
<1>6. CASE UploadAvatar(r)
  <2>1. PICK u \in Users, e \in Extensions : BeginUpload(r, u, e)
    BY <1>6 DEF UploadAvatar
  <2>2. \A x \in AvatarsByOwner(u) : Known(x, media, req) /\ AvatarRow(x, u)
    BY <1>0, OwnAvatars
  <2>3. \/ req'[r] = [pc |-> "object", owner |-> u, key |-> <<"avatars", u, e>>,
                      todo |-> AvatarsByOwner(u)]
        \/ req'[r] = [pc |-> "put", owner |-> u, key |-> <<"avatars", u, e>>]
    BY <1>0, <2>1 DEF BeginUpload, Start
  <2> QED
    BY <1>0, <2>2, <2>3 DEF HasRead, Upload1, Deletion, Detaching
<1>7. CASE NothingOld(r)
  <2>1. req'[r] = [pc |-> "put", owner |-> req[r].owner, key |-> req[r].key]
    BY <1>0, <1>7 DEF NothingOld, Start
  <2> QED
    BY <1>0, <1>7, <2>1 DEF NothingOld, HasRead, Upload1, Deletion, Detaching
<1>8. CASE DeleteOldObject(r)
  <2>1. /\ req'[r].pc = "row" /\ req'[r].owner = req[r].owner /\ req'[r].key = req[r].key
        /\ req'[r].todo = req[r].todo /\ req[r].pc = "object"
    BY <1>0, <1>8 DEF DeleteOldObject, Goto
  <2> QED
    BY <1>0, <2>1 DEF HasRead, Upload1, Deletion, Detaching
<1>9. CASE DeleteOldRow(r)
  <2>1. /\ req'[r].pc = "object" /\ req'[r].owner = req[r].owner /\ req'[r].key = req[r].key
        /\ req'[r].todo \subseteq req[r].todo /\ req[r].pc = "row"
    BY <1>0, <1>9 DEF DeleteOldRow
  <2> QED
    BY <1>0, <2>1 DEF HasRead, Upload1, Deletion, Detaching
<1>10. CASE PutAvatar(r) \/ StoreAvatar(r) \/ UndoAvatar(r) \/ StoreAvatarUrl(r)
  BY <1>2, <1>3, <1>10 DEF PutAvatar, StoreAvatar, UndoAvatar, StoreAvatarUrl, Upload1
<1>11. CASE DeleteAvatar(r) \/ DeleteCurrentUser(r)
  <2>1. PICK u \in Users, c \in BOOLEAN : BeginDeletion(r, u, c)
    BY <1>11 DEF DeleteAvatar, DeleteCurrentUser
  <2>2. \A x \in NewestOf(u) : Known(x, media, req) /\ AvatarRow(x, u)
    BY <1>0, OwnAvatars DEF NewestOf, Newest
  <2>3. /\ req'[r].pc \in {"soft", "drop"} /\ req'[r].owner = u /\ req'[r].old = NewestOf(u)
    BY <1>0, <2>1 DEF BeginDeletion, Start
  <2> QED
    BY <1>0, <2>2, <2>3 DEF HasRead, Upload1, Deletion, Detaching
<1>12. CASE DropAvatar(r) \/ DropAvatarUrl(r) \/ SoftDeleteUser(r)
  BY <1>2, <1>4, <1>12
     DEF DropAvatar, DropObject, DropRow, GiveUp, DropAvatarUrl, SoftDeleteUser, Deletion
<1>13. CASE UploadAttachment(r)
  BY <1>0, <1>1, <1>13 DEF UploadAttachment, BeginAttaching, Start
<1>14. CASE PutAttachment(r) \/ UnstoreFile(r) \/ UndoAttachment(r)
  <2>1. ASSUME NEW p, Goto(r, p), p \in Quiet PROVE HasRead(r, media', req')
    BY <1>0, <1>1, <2>1 DEF Goto
  <2> QED
    BY <1>2, <1>14, <2>1 DEF PutAttachment, UnstoreFile, UndoAttachment
<1>15. CASE StoreAttachmentFile(r)
  <2>1. CASE Goto(r, "undo2")
    BY <1>0, <1>1, <2>1 DEF Goto
  <2>2. CASE CreateMediaFileWithMessage(r, req[r].owner, req[r].message) /\ Goto(r, "link")
    <3>1. req'[r].pc = "link" /\ req'[r].message = req[r].message
      BY <1>0, <2>2 DEF Goto
    <3> DEFINE x == [file |-> r, owner |-> req[r].owner,
                     key |-> <<"attachments", req[r].message, r>>, at |-> Now(req[r].owner)]
    <3>2. x \in media' /\ x.file = r /\ x.key = <<"attachments", req[r].message, r>>
      BY <2>2 DEF CreateMediaFileWithMessage, CreateMediaFile
    <3> QED
      BY <3>1, <3>2 DEF HasRead, Upload1, Deletion, Detaching
  <2> QED
    BY <1>15, <2>1, <2>2 DEF StoreAttachmentFile
<1>16. CASE LinkAttachment(r)
  <2>1. CASE Goto(r, "unstore2")
    <3>1. req'[r].pc = "unstore2" /\ req'[r].message = req[r].message
      BY <1>0, <2>1 DEF Goto
    <3> QED
      BY <1>0, <1>16, <3>1 DEF LinkAttachment, HasRead, Upload1, Deletion, Detaching
  <2> QED
    BY <1>2, <1>16, <2>1 DEF LinkAttachment
<1>17. CASE DeleteAttachment(r)
  <2>1. PICK a \in attachments : BeginDetaching(r, a)
    BY <1>17 DEF DeleteAttachment
  <2>2. PICK x \in media : x.file = a.file /\ Start(r, [pc |-> "drop2", old |-> x])
    BY <2>1 DEF BeginDetaching, GetMediaFileForAttachment
  <2>3. Linked(x.file, req) /\ Known(x, media, req) /\ AttachmentRow(x)
    <3>1. PICK y \in media : y.file = a.file /\ y.key = <<"attachments", a.message, a.file>>
      BY DEF Struct, AttachedOK
    <3>2. y = x /\ a.message \in Messages
      BY <2>2, <3>1 DEF RowsOK, Struct, TypeOK, Attachment
    <3> QED
      BY <2>2, <3>1, <3>2 DEF Struct, AttachedOK, RowsOK, Known, AttachmentRow
  <2>4. req'[r].pc = "drop2" /\ req'[r].old = x
    BY <1>0, <2>2 DEF Start
  <2> QED
    BY <1>0, <2>3, <2>4 DEF HasRead, Upload1, Deletion, Detaching
<1>18. CASE DropAttachmentObject(r) \/ UnlinkAttachment(r) \/ DropAttachmentFile(r)
  BY <1>2, <1>5, <1>18
     DEF DropAttachmentObject, UnlinkAttachment, DropAttachmentFile, Detaching
<1> QED
  BY <1>6, <1>7, <1>8, <1>9, <1>10, <1>11, <1>12, <1>13, <1>14, <1>15, <1>16, <1>17, <1>18
     DEF AvatarStep, AttachmentStep

LEMMA StructStep ==
    ASSUME TypeOK, Struct, NEW r \in Requests, AvatarStep(r) \/ AttachmentStep(r)
    PROVE  Struct'
<1>1. \A s \in Requests : HasRead(s, media', req')
  BY OthersHaveRead, OwnHasRead
<1> QED
  BY <1>1, RowsStep, AttachedStep DEF Struct
--------------------------------------------------------------------------------
(* What a step does to the objects, and to the phases of an attachment. *)

Puts(r, k) ==
    /\ objects' = [objects EXCEPT ![k] = r]
    /\ \/ req[r].pc = "put" /\ k = req[r].key
       \/ /\ req[r].pc = "put2" /\ k = <<"attachments", req[r].message, r>>
Clears(r, k) ==
    /\ objects' = [objects EXCEPT ![k] = NoFile]
    /\ \/ req[r].pc = "object" /\ \E x \in req[r].todo : k = x.key
       \/ req[r].pc = "undo" /\ k = req[r].key
       \/ req[r].pc = "drop" /\ \E x \in req[r].old : k = x.key
       \/ req[r].pc = "undo2" /\ k = <<"attachments", req[r].message, r>>
       \/ req[r].pc = "drop2" /\ k = req[r].old.key

LEMMA ObjectMoves ==
    ASSUME TypeOK, NEW r \in Requests, AvatarStep(r) \/ AttachmentStep(r)
    PROVE  objects' = objects \/ \E k \in Keys : Puts(r, k) \/ Clears(r, k)
<1> DEFINE Good == objects' = objects \/ \E k \in Keys : Puts(r, k) \/ Clears(r, k)
<1> USE DEF At
<1>0. AvatarKeys \subseteq Keys /\ \A x \in Media : x.key \in Keys
  BY DEF Keys, Media
<1>1. CASE DeleteOldObject(r)
  <2>1. PICK x \in req[r].todo : Delete(x.key) \/ objects' = objects
    BY <1>1 DEF DeleteOldObject, Newest
  <2>2. x.key \in Keys
    BY <1>0, <1>1, <2>1, Fields DEF DeleteOldObject
  <2> QED
    BY <1>1, <2>1, <2>2 DEF DeleteOldObject, Delete, Clears
<1>2. CASE PutAvatar(r)
  <2>1. req[r].key \in Keys
    BY <1>0, <1>2, Fields DEF PutAvatar, Upload1
  <2> QED
    BY <1>2, <2>1 DEF PutAvatar, Upload, Puts
<1>3. CASE UndoAvatar(r)
  <2>1. req[r].key \in Keys
    BY <1>0, <1>3, Fields DEF UndoAvatar, Upload1
  <2> QED
    BY <1>3, <2>1 DEF UndoAvatar, Delete, Clears
<1>4. CASE At(r, "drop") /\ DropObject(r)
  <2>1. PICK x \in req[r].old : Delete(x.key) \/ objects' = objects
    BY <1>4 DEF DropObject
  <2>2. x.key \in Keys
    BY <1>0, <1>4, <2>1, Fields DEF Deletion
  <2> QED
    BY <1>4, <2>1, <2>2 DEF Delete, Clears
<1>5. CASE PutAttachment(r)
  <2>1. AttachmentKey(r) \in Keys
    BY <1>5, Fields, MakeAttachmentKey DEF PutAttachment, AttachmentKey, Attaching, Files
  <2> QED
    BY <1>5, <2>1 DEF PutAttachment, Upload, Puts, AttachmentKey
<1>6. CASE UndoAttachment(r)
  <2>1. AttachmentKey(r) \in Keys
    BY <1>6, Fields, MakeAttachmentKey DEF UndoAttachment, AttachmentKey, Attaching, Files
  <2> QED
    BY <1>6, <2>1 DEF UndoAttachment, Delete, Clears, AttachmentKey
<1>7. CASE DropAttachmentObject(r)
  <2>1. req[r].old.key \in Keys
    BY <1>0, <1>7, Fields DEF DropAttachmentObject, Detaching
  <2> QED
    BY <1>7, <2>1 DEF DropAttachmentObject, Delete, Clears
<1>8. CASE \/ UploadAvatar(r) \/ NothingOld(r) \/ DeleteOldRow(r) \/ StoreAvatar(r)
           \/ StoreAvatarUrl(r) \/ DeleteAvatar(r) \/ DeleteCurrentUser(r)
           \/ (At(r, "unrow") /\ DropRow(r)) \/ DropAvatarUrl(r) \/ SoftDeleteUser(r)
  BY <1>8 DEF UploadAvatar, BeginUpload, NothingOld, DeleteOldRow, StoreAvatar, StoreAvatarUrl,
              DeleteAvatar, DeleteCurrentUser, BeginDeletion, DropRow, DropAvatarUrl, SoftDeleteUser
<1>9. CASE \/ UploadAttachment(r) \/ StoreAttachmentFile(r) \/ LinkAttachment(r) \/ UnstoreFile(r)
           \/ DeleteAttachment(r) \/ UnlinkAttachment(r) \/ DropAttachmentFile(r)
  BY <1>9 DEF UploadAttachment, BeginAttaching, StoreAttachmentFile, LinkAttachment, UnstoreFile,
              DeleteAttachment, BeginDetaching, UnlinkAttachment, DropAttachmentFile
<1> QED
  BY <1>1, <1>2, <1>3, <1>4, <1>5, <1>6, <1>7, <1>8, <1>9 DEF AvatarStep, AttachmentStep, DropAvatar

\* The keys of avatars and of attachments do not meet.
LEMMA ClearedAvatar ==
    ASSUME Struct, NEW r \in Requests, NEW k, Puts(r, k) \/ Clears(r, k),
           req[r].pc \notin {"put2", "undo2", "drop2"}
    PROVE  \E e \in Extensions : k = <<"avatars", req[r].owner, e>>
  BY DEF Struct, HasRead, Puts, Clears, AvatarRow, Upload1, Deletion

LEMMA ClearedAttachment ==
    ASSUME Struct, NEW r \in Requests, NEW k, Puts(r, k) \/ Clears(r, k),
           req[r].pc \in {"put2", "undo2", "drop2"}
    PROVE  \/ k = <<"attachments", req[r].message, r>> /\ req[r].pc \in {"put2", "undo2"}
           \/ /\ k = req[r].old.key /\ req[r].pc = "drop2"
              /\ Linked(req[r].old.file, req) /\ AttachmentRow(req[r].old)
  BY DEF Struct, HasRead, Puts, Clears, Detaching

LEMMA AttachMoves ==
    ASSUME TypeOK, NEW r \in Requests, AvatarStep(r) \/ AttachmentStep(r),
           req[r].pc \in Attaching
    PROVE  /\ req'[r].pc \in Attaching => req'[r].message = req[r].message
           /\ \/ /\ req[r].pc = "put2" /\ req'[r].pc = "store2"
                 /\ Puts(r, <<"attachments", req[r].message, r>>)
              \/ req[r].pc = "put2" /\ req'[r].pc = "done" /\ r \in orphans'
              \/ /\ req[r].pc = "store2" /\ UNCHANGED <<objects, attachments>>
                 /\ (\E x : Adds(r, x)) \/ (req'[r].pc = "undo2" /\ media' = media)
              \/ /\ req[r].pc = "link" /\ UNCHANGED <<objects, media>>
                 /\ Links(r) \/ (req'[r].pc = "unstore2" /\ attachments' = attachments)
              \/ /\ req[r].pc = "unstore2" /\ req'[r].pc = "undo2"
                 /\ r \in orphans' \/ DeleteMediaFile(r)
              \/ /\ req[r].pc = "undo2" /\ req'[r].pc = "done" /\ UNCHANGED <<media, attachments>>
                 /\ r \in orphans' \/ Clears(r, <<"attachments", req[r].message, r>>)
<1> USE DEF At
<1>0. req \in [Requests -> Request]
  BY DEF TypeOK
<1>1. ASSUME NEW p, Goto(r, p) PROVE req'[r].pc = p /\ req'[r].message = req[r].message
  BY <1>0, <1>1 DEF Goto
<1>2. ASSUME End(r) PROVE req'[r].pc = "done" /\ req'[r].pc \notin Attaching
  BY <1>0, <1>2 DEF End, Done, Attaching
<1>3. CASE PutAttachment(r)
  BY <1>1, <1>2, <1>3 DEF PutAttachment, AttachmentKey, Upload, Puts
<1>4. CASE StoreAttachmentFile(r)
  <2> DEFINE x == [file |-> r, owner |-> req[r].owner,
                   key |-> <<"attachments", req[r].message, r>>, at |-> Now(req[r].owner)]
  <2>1. \/ media' = media \cup {x} /\ Goto(r, "link")
        \/ media' = media /\ Goto(r, "undo2")
    BY <1>4 DEF StoreAttachmentFile, CreateMediaFileWithMessage, CreateMediaFile
  <2>2. UNCHANGED <<objects, attachments>> /\ req[r].pc = "store2"
    BY <1>4 DEF StoreAttachmentFile, attachmentVars
  <2>3. CASE media' = media \cup {x} /\ Goto(r, "link")
    <3>1. req'[r].pc = "link" /\ req'[r].message = req[r].message
      BY <1>1, <2>3
    <3>2. Adds(r, x)
      BY <2>2, <2>3, <3>1 DEF Adds
    <3> QED
      BY <2>2, <3>1, <3>2
  <2>4. CASE media' = media /\ Goto(r, "undo2")
    <3>1. req'[r].pc = "undo2" /\ req'[r].message = req[r].message
      BY <1>1, <2>4
    <3> QED
      BY <2>2, <2>4, <3>1
  <2> QED
    BY <2>1, <2>3, <2>4
<1>5. CASE LinkAttachment(r)
  BY <1>1, <1>2, <1>5 DEF LinkAttachment, Links
<1>6. CASE UnstoreFile(r)
  BY <1>1, <1>6 DEF UnstoreFile
<1>7. CASE UndoAttachment(r)
  BY <1>2, <1>7 DEF UndoAttachment, Delete, Clears, AttachmentKey
<1>8. ~AvatarStep(r)
  BY DEF AvatarStep, UploadAvatar, NothingOld, DeleteOldObject, DeleteOldRow, PutAvatar,
         StoreAvatar, UndoAvatar, StoreAvatarUrl, DeleteAvatar, DeleteCurrentUser, DropAvatar,
         DropAvatarUrl, SoftDeleteUser, Attaching
<1>9. \/ PutAttachment(r) \/ StoreAttachmentFile(r) \/ LinkAttachment(r) \/ UnstoreFile(r)
      \/ UndoAttachment(r)
  BY <1>8 DEF AttachmentStep, UploadAttachment, DeleteAttachment, DropAttachmentObject,
              UnlinkAttachment, DropAttachmentFile, Attaching
<1> QED
  BY <1>3, <1>4, <1>5, <1>6, <1>7, <1>9

LEMMA DetachMoves ==
    ASSUME TypeOK, NEW r \in Requests, AvatarStep(r) \/ AttachmentStep(r),
           req[r].pc \in Detaching
    PROVE  /\ req'[r].pc \in Detaching => req'[r].old = req[r].old
           /\ \/ req[r].pc = "drop2" /\ req'[r].pc = "unlink" /\ Clears(r, req[r].old.key)
              \/ req'[r].pc = "done" /\ req[r].old.file \in broken'
              \/ req[r].pc = "unlink" /\ Unlinks(r) /\ objects' = objects
              \/ req[r].pc = "unrow2" /\ req'[r].pc = "done" /\ objects' = objects
                   /\ DeleteMediaFile(req[r].old.file)
<1> USE DEF At
<1>0. req \in [Requests -> Request]
  BY DEF TypeOK
<1>1. ASSUME NEW p, Goto(r, p) PROVE req'[r].pc = p /\ req'[r].old = req[r].old
  BY <1>0, <1>1 DEF Goto
<1>2. ASSUME End(r) PROVE req'[r].pc = "done" /\ req'[r].pc \notin Detaching
  BY <1>0, <1>2 DEF End, Done, Detaching
<1>3. CASE DropAttachmentObject(r)
  BY <1>1, <1>2, <1>3 DEF DropAttachmentObject, Delete, Clears
<1>4. CASE UnlinkAttachment(r)
  BY <1>1, <1>2, <1>4 DEF UnlinkAttachment, Unlinks
<1>5. CASE DropAttachmentFile(r)
  BY <1>1, <1>2, <1>5 DEF DropAttachmentFile
<1>6. ~AvatarStep(r)
  BY DEF AvatarStep, UploadAvatar, NothingOld, DeleteOldObject, DeleteOldRow, PutAvatar,
         StoreAvatar, UndoAvatar, StoreAvatarUrl, DeleteAvatar, DeleteCurrentUser, DropAvatar,
         DropAvatarUrl, SoftDeleteUser, Detaching
<1>7. DropAttachmentObject(r) \/ UnlinkAttachment(r) \/ DropAttachmentFile(r)
  BY <1>6 DEF AttachmentStep, UploadAttachment, DeleteAttachment, PutAttachment,
              StoreAttachmentFile, LinkAttachment, UnstoreFile, UndoAttachment, Detaching
<1> QED
  BY <1>3, <1>4, <1>5, <1>7

\* Only these steps begin work on an attachment.
LEMMA NewWork ==
    ASSUME TypeOK, NEW r \in Requests, AvatarStep(r) \/ AttachmentStep(r)
    PROVE  \/ req'[r].pc \notin Attaching \cup Detaching
           \/ req[r].pc \in Attaching /\ req'[r].pc \in Attaching
           \/ req[r].pc \in Detaching /\ req'[r].pc \in Detaching
           \/ /\ req[r].pc = "idle" /\ req'[r].pc = "put2"
              /\ UNCHANGED <<objects, media, attachments>>
              /\ req'[r].message \in Messages
              /\ CountMessageAttachments(req'[r].message) < MaxAttachmentsPerMessage
           \/ /\ req[r].pc = "idle" /\ req'[r].pc = "drop2" /\ req'[r].old \in media
              /\ UNCHANGED <<objects, media, attachments>>
<1> DEFINE Other == req'[r].pc \notin Attaching \cup Detaching
           Same == \/ req[r].pc \in Attaching /\ req'[r].pc \in Attaching
                   \/ req[r].pc \in Detaching /\ req'[r].pc \in Detaching
<1> USE DEF At
<1>0. req \in [Requests -> Request]
  BY DEF TypeOK
<1>1. ASSUME NEW p, Goto(r, p) PROVE req'[r].pc = p
  BY <1>0, <1>1 DEF Goto
<1>2. ASSUME End(r) PROVE Other
  BY <1>0, <1>2 DEF End, Done, Attaching, Detaching
<1>3. CASE UploadAvatar(r) \/ NothingOld(r) \/ DeleteAvatar(r) \/ DeleteCurrentUser(r)
  <2>1. Other
    BY <1>0, <1>3 DEF UploadAvatar, BeginUpload, NothingOld, DeleteAvatar, DeleteCurrentUser,
                      BeginDeletion, Start, Attaching, Detaching
  <2> QED
    BY <2>1
<1>4. CASE DeleteOldRow(r)
  BY <1>0, <1>4 DEF DeleteOldRow, Attaching, Detaching
<1>5. CASE \/ DeleteOldObject(r) \/ PutAvatar(r) \/ StoreAvatar(r) \/ UndoAvatar(r)
           \/ StoreAvatarUrl(r)
  <2>1. Other
    BY <1>1, <1>2, <1>5 DEF DeleteOldObject, PutAvatar, StoreAvatar, UndoAvatar, StoreAvatarUrl,
                            Attaching, Detaching
  <2> QED
    BY <2>1
<1>6. CASE DropAvatar(r) \/ DropAvatarUrl(r) \/ SoftDeleteUser(r)
  <2>1. Other
    BY <1>1, <1>2, <1>6 DEF DropAvatar, DropObject, DropRow, GiveUp, DropAvatarUrl,
                            SoftDeleteUser, Attaching, Detaching
  <2> QED
    BY <2>1
<1>7. CASE UploadAttachment(r)
  <2>1. PICK u \in Users, m \in Messages : BeginAttaching(r, u, m)
    BY <1>7 DEF UploadAttachment
  <2>2. req'[r] = [pc |-> "put2", owner |-> u, message |-> m] /\ req[r].pc = "idle"
    BY <1>0, <1>7, <2>1 DEF UploadAttachment, BeginAttaching, Start
  <2> QED
    BY <2>1, <2>2 DEF BeginAttaching, attachmentVars
<1>8. CASE PutAttachment(r) \/ StoreAttachmentFile(r) \/ LinkAttachment(r)
           \/ UnstoreFile(r) \/ UndoAttachment(r)
  <2>1. Other \/ Same
    BY <1>1, <1>2, <1>8 DEF PutAttachment, StoreAttachmentFile, LinkAttachment, UnstoreFile,
                            UndoAttachment, Attaching, Detaching
  <2> QED
    BY <2>1
<1>9. CASE DeleteAttachment(r)
  <2>1. PICK x \in media : Start(r, [pc |-> "drop2", old |-> x])
    BY <1>9 DEF DeleteAttachment, BeginDetaching, GetMediaFileForAttachment
  <2>2. req'[r] = [pc |-> "drop2", old |-> x] /\ req[r].pc = "idle"
    BY <1>0, <1>9, <2>1 DEF DeleteAttachment, Start
  <2> QED
    BY <1>9, <2>2 DEF DeleteAttachment, BeginDetaching, attachmentVars
<1>10. CASE DropAttachmentObject(r) \/ UnlinkAttachment(r) \/ DropAttachmentFile(r)
  <2>1. Other \/ Same
    BY <1>1, <1>2, <1>10 DEF DropAttachmentObject, UnlinkAttachment, DropAttachmentFile,
                             Attaching, Detaching
  <2> QED
    BY <2>1
<1> QED
  BY <1>3, <1>4, <1>5, <1>6, <1>7, <1>8, <1>9, <1>10 DEF AvatarStep, AttachmentStep

LEMMA HistoryGrows ==
    ASSUME NEW r \in Requests, AvatarStep(r) \/ AttachmentStep(r)
    PROVE  broken \subseteq broken' /\ orphans \subseteq orphans'
<1>1. CASE AvatarStep(r)
  BY <1>1 DEF AvatarStep, UploadAvatar, BeginUpload, NothingOld, DeleteOldObject, DeleteOldRow,
       PutAvatar, StoreAvatar, UndoAvatar, StoreAvatarUrl, DeleteAvatar, DeleteCurrentUser,
       BeginDeletion, DropAvatar, DropObject, DropRow, DropAvatarUrl, SoftDeleteUser, attachmentVars
<1>2. CASE AttachmentStep(r)
  BY <1>2 DEF AttachmentStep, UploadAttachment, BeginAttaching, PutAttachment,
       StoreAttachmentFile, LinkAttachment, UnstoreFile, UndoAttachment, DeleteAttachment,
       BeginDetaching, DropAttachmentObject, UnlinkAttachment, DropAttachmentFile, attachmentVars
<1> QED
  BY <1>1, <1>2
--------------------------------------------------------------------------------
(* Attachments that are listed can be read. *)

Ending(f, q) == \E s \in Requests : q[s].pc \in {"unlink", "unrow2"} /\ q[s].old.file = f
ReadableInv ==
    /\ \A s \in Requests : req[s].pc \in {"store2", "link"} =>
         objects[<<"attachments", req[s].message, s>>] = s
    /\ \A a \in attachments :
         \/ a.file \in broken \/ Ending(a.file, req)
         \/ objects[<<"attachments", a.message, a.file>>] = a.file

\* The object of an attachment changes by its upload and its deletion only.
LEMMA ObjectKept ==
    ASSUME TypeOK, Struct, NEW r \in Requests, AvatarStep(r) \/ AttachmentStep(r),
           NEW m \in Messages, NEW f \in Files,
           objects'[<<"attachments", m, f>>] # objects[<<"attachments", m, f>>]
    PROVE  \/ req[r].pc = "put2" /\ f = r /\ m = req[r].message /\ Puts(r, <<"attachments", m, f>>)
           \/ /\ req[r].pc = "undo2" /\ f = r /\ m = req[r].message
              /\ Clears(r, <<"attachments", m, f>>)
           \/ /\ req[r].pc = "drop2" /\ <<"attachments", m, f>> = req[r].old.key
              /\ Clears(r, <<"attachments", m, f>>)
              /\ f = req[r].old.file /\ Linked(f, req)
<1> DEFINE key == <<"attachments", m, f>>
<1>1. key \in Keys
  BY MakeAttachmentKey
<1>2. PICK k \in Keys : Puts(r, k) \/ Clears(r, k)
  BY ObjectMoves
<1>3. k = key
  BY <1>1, <1>2 DEF Puts, Clears, TypeOK
<1>4. req[r].pc \in {"put2", "undo2", "drop2"}
  BY <1>2, <1>3, ClearedAvatar
<1>5. \/ key = <<"attachments", req[r].message, r>> /\ req[r].pc \in {"put2", "undo2"}
      \/ /\ key = req[r].old.key /\ req[r].pc = "drop2"
         /\ Linked(req[r].old.file, req) /\ AttachmentRow(req[r].old)
  BY <1>2, <1>3, <1>4, ClearedAttachment
<1>6. CASE key = <<"attachments", req[r].message, r>> /\ req[r].pc \in {"put2", "undo2"}
  <2>1. f = r /\ m = req[r].message
    BY <1>6
  <2> QED
    BY <1>2, <1>3, <1>6, <2>1 DEF Puts, Clears
<1>7. CASE /\ key = req[r].old.key /\ req[r].pc = "drop2"
           /\ Linked(req[r].old.file, req) /\ AttachmentRow(req[r].old)
  <2>1. f = req[r].old.file
    BY <1>7 DEF AttachmentRow
  <2> QED
    BY <1>2, <1>3, <1>7, <2>1 DEF Puts, Clears
<1> QED
  BY <1>5, <1>6, <1>7

LEMMA ReadableStep ==
    ASSUME TypeOK, Struct, ReadableInv, NEW r \in Requests, AvatarStep(r) \/ AttachmentStep(r)
    PROVE  ReadableInv'
<1>1. ASSUME NEW s \in Requests, req'[s].pc \in {"store2", "link"}
      PROVE  objects'[<<"attachments", req'[s].message, s>>] = s
  <2>1. CASE s # r
    <3>1. req'[s] = req[s]
      BY <2>1, PhaseMoves
    <3>2. objects[<<"attachments", req[s].message, s>>] = s
      BY <1>1, <3>1 DEF ReadableInv
    <3>3. req[s].message \in Messages /\ s \in Files
      BY <1>1, <3>1, Fields DEF Attaching, Files
    <3>4. ~Linked(s, req)
      BY <1>1, <3>1 DEF Linked
    <3> QED
      BY <2>1, <3>1, <3>2, <3>3, <3>4, ObjectKept
  <2>2. CASE s = r /\ req[r].pc \in Attaching
    <3>1. req'[r].message = req[r].message /\ req[r].message \in Messages /\ r \in Files
      BY <1>1, <2>2, AttachMoves, Fields DEF Attaching, Files
    <3>2. <<"attachments", req[r].message, r>> \in Keys
      BY <3>1, MakeAttachmentKey
    <3>3. CASE req[r].pc = "put2"
      <4>1. Puts(r, <<"attachments", req[r].message, r>>)
        BY <1>1, <2>2, <3>3, AttachMoves
      <4> QED
        BY <2>2, <3>1, <3>2, <4>1 DEF Puts, TypeOK
    <3>4. CASE req[r].pc # "put2"
      <4>1. req[r].pc = "store2" /\ objects' = objects
        BY <1>1, <2>2, <3>4, AttachMoves DEF Links
      <4> QED
        BY <2>2, <3>1, <4>1 DEF ReadableInv
    <3> QED
      BY <3>3, <3>4
  <2>3. CASE s = r /\ req[r].pc \notin Attaching
    <3>1. req'[r].pc \notin {"store2", "link"}
      BY <2>3, NewWork DEF Attaching, Detaching
    <3> QED
      BY <1>1, <2>3, <3>1
  <2> QED
    BY <2>1, <2>2, <2>3
<1>2. ASSUME NEW a \in attachments'
      PROVE  \/ a.file \in broken' \/ Ending(a.file, req')
             \/ objects'[<<"attachments", a.message, a.file>>] = a.file
  <2>0. a.message \in Messages /\ a.file \in Files
    <3>1. TypeOK'
      BY AvatarTypes, AttachmentTypes
    <3> QED
      BY <3>1 DEF TypeOK, Attachment
  <2>1. CASE a \notin attachments
    <3>1. Links(r) /\ a = [file |-> r, message |-> req[r].message]
      BY <2>1, RowMoves
         DEF RemovesAvatar, RemovesFile, DeleteMediaFile, Adds, Links, Unlinks,
             CreateMessageAttachment, DeleteMessageAttachment
    <3>2. objects[<<"attachments", a.message, a.file>>] = a.file
      BY <3>1 DEF Links, ReadableInv
    <3> QED
      BY <2>0, <3>1, <3>2, ObjectKept DEF Links
  <2>2. CASE a \in attachments /\ a.file \in broken
    BY <2>2, HistoryGrows
  <2>3. CASE a \in attachments /\ Ending(a.file, req)
    <3>1. PICK s \in Requests : req[s].pc \in {"unlink", "unrow2"} /\ req[s].old.file = a.file
      BY <2>3 DEF Ending
    <3>2. CASE s # r
      BY <3>1, <3>2, PhaseMoves DEF Ending
    <3>3. CASE s = r
      BY <1>2, <3>1, <3>3, DetachMoves DEF Ending, Detaching, Unlinks, DeleteMediaFile
    <3> QED
      BY <3>2, <3>3
  <2>4. CASE a \in attachments /\ objects[<<"attachments", a.message, a.file>>] = a.file
    <3>1. Linked(a.file, req)
      BY <2>4 DEF Struct, AttachedOK
    <3>2. CASE objects'[<<"attachments", a.message, a.file>>]
                 = objects[<<"attachments", a.message, a.file>>]
      BY <2>4, <3>2
    <3>3. CASE objects'[<<"attachments", a.message, a.file>>]
                 # objects[<<"attachments", a.message, a.file>>]
      <4>1. req[r].pc = "drop2" /\ a.file = req[r].old.file
        BY <2>0, <3>1, <3>3, ObjectKept DEF Linked
      <4> QED
        BY <4>1, DetachMoves DEF Detaching, Ending, Unlinks
    <3> QED
      BY <3>2, <3>3
  <2> QED
    BY <2>1, <2>2, <2>3, <2>4 DEF ReadableInv
<1> QED
  BY <1>1, <1>2 DEF ReadableInv

LEMMA ReadableImplies ==
    ASSUME TypeOK, Struct, ReadableInv
    PROVE  AttachmentsReadable
<1> SUFFICES ASSUME NEW a \in attachments,
                    objects[<<"attachments", a.message, a.file>>] = a.file
             PROVE  GetAttachment(a) = "served"
  BY DEF AttachmentsReadable, ReadableInv, Ending
<1>1. PICK x \in media : x.file = a.file /\ x.key = <<"attachments", a.message, a.file>>
  BY DEF Struct, AttachedOK
<1>2. GetMediaFileForAttachment(a) = {x}
  BY <1>1 DEF GetMediaFileForAttachment, Struct, RowsOK
<1> QED
  BY <1>1, <1>2 DEF GetAttachment, Decrypt, Download
--------------------------------------------------------------------------------
(***************************************************************************)
(* How many attachments a message has.  An upload that has counted them    *)
(* keeps its place until it is through.                                    *)
(***************************************************************************)

In(m) == {a \in attachments : a.message = m}
CountInv ==
    /\ IsFiniteSet(attachments)
    /\ \A m \in Messages : Cardinality(In(m)) + Cardinality(Pending(m))
                             <= MaxAttachmentsPerMessage + Cardinality(Requests) - 1

LEMMA CountStep ==
    ASSUME TypeOK, Struct, CountInv, NEW r \in Requests, AvatarStep(r) \/ AttachmentStep(r)
    PROVE  CountInv'
<1>0. /\ MaxAttachmentsPerMessage \in Nat /\ Cardinality(Requests) \in Nat /\ IsFiniteSet(Requests)
      /\ \A m \in Messages : IsFiniteSet(In(m)) /\ Cardinality(In(m)) \in Nat
      /\ \A m \in Messages : IsFiniteSet(Pending(m)) /\ Cardinality(Pending(m)) \in Nat
  BY StorageAssumption, FS_Subset, FS_CardinalityType DEF CountInv, In, Pending
<1>1. CASE Links(r)
  <2> DEFINE a == [file |-> r, message |-> req[r].message]
  <2>1. attachments' = attachments \cup {a} /\ a \notin attachments
    BY <1>1 DEF Links, CreateMessageAttachment, Struct, AttachedOK, Linked
  <2>2. IsFiniteSet(attachments')
    BY <2>1, FS_AddElement DEF CountInv
  <2>3. ASSUME NEW m \in Messages
        PROVE  Cardinality(In(m)') + Cardinality(Pending(m)')
                 <= MaxAttachmentsPerMessage + Cardinality(Requests) - 1
    <3>0. Cardinality(In(m)) + Cardinality(Pending(m))
                 <= MaxAttachmentsPerMessage + Cardinality(Requests) - 1
      BY DEF CountInv
    <3>1. Pending(m)' = Pending(m) \ {r}
      BY <1>1, PhaseMoves DEF Links, Pending
    <3>2. CASE m = req[r].message
      <4>1. In(m)' = In(m) \cup {a} /\ a \notin In(m)
        BY <2>1, <3>2 DEF In
      <4>2. r \in Pending(m)
        BY <1>1, <3>2 DEF Links, Pending
      <4>3. Cardinality(In(m)') = Cardinality(In(m)) + 1
        BY <1>0, <4>1, FS_AddElement
      <4>4. Cardinality(Pending(m)') = Cardinality(Pending(m)) - 1
        BY <1>0, <3>1, <4>2, FS_RemoveElement
      <4> QED
        BY <1>0, <3>0, <4>3, <4>4
    <3>3. CASE m # req[r].message
      <4>1. In(m)' = In(m) /\ Pending(m)' \subseteq Pending(m)
        BY <2>1, <3>1, <3>3 DEF In
      <4>2. Cardinality(Pending(m)') <= Cardinality(Pending(m)) /\ Cardinality(Pending(m)') \in Nat
        BY <1>0, <4>1, FS_Subset, FS_CardinalityType
      <4> QED
        BY <1>0, <3>0, <4>1, <4>2
    <3> QED
      BY <3>2, <3>3
  <2> QED
    BY <2>2, <2>3 DEF CountInv
<1>2. CASE ~Links(r)
  <2>1. attachments' \subseteq attachments
    BY <1>2, RowMoves DEF RemovesAvatar, RemovesFile, DeleteMediaFile, Adds, Unlinks,
                          DeleteMessageAttachment
  <2>2. IsFiniteSet(attachments')
    BY <2>1, FS_Subset DEF CountInv
  <2>3. ASSUME NEW m \in Messages
        PROVE  Cardinality(In(m)') + Cardinality(Pending(m)')
                 <= MaxAttachmentsPerMessage + Cardinality(Requests) - 1
    <3>0. Cardinality(In(m)) + Cardinality(Pending(m))
                 <= MaxAttachmentsPerMessage + Cardinality(Requests) - 1
      BY DEF CountInv
    <3>1. In(m)' \subseteq In(m)
      BY <2>1 DEF In
    <3>2. Cardinality(In(m)') <= Cardinality(In(m)) /\ Cardinality(In(m)') \in Nat
      BY <1>0, <3>1, FS_Subset, FS_CardinalityType
    <3>3. CASE Pending(m)' \subseteq Pending(m)
      <4>1. Cardinality(Pending(m)') <= Cardinality(Pending(m)) /\ Cardinality(Pending(m)') \in Nat
        BY <1>0, <3>3, FS_Subset, FS_CardinalityType
      <4> QED
        BY <1>0, <3>0, <3>2, <4>1
    <3>4. CASE ~(Pending(m)' \subseteq Pending(m))
      <4>1. PICK s \in Requests : s \in Pending(m)' /\ s \notin Pending(m)
        BY <3>4 DEF Pending
      <4>2. s = r
        BY <4>1, PhaseMoves DEF Pending
      <4>3. req'[r].pc \in {"put2", "store2", "link"} /\ req'[r].message = m
        BY <4>1, <4>2 DEF Pending
      <4>4. ~(req[r].pc \in Attaching)
        BY <4>1, <4>2, <4>3, AttachMoves DEF Pending, Attaching
      <4>5. Cardinality(In(m)) < MaxAttachmentsPerMessage
        BY <4>3, <4>4, NewWork DEF Attaching, Detaching, CountMessageAttachments, In
      <4>6. Pending(m)' \subseteq Requests
        BY DEF Pending
      <4>7. Cardinality(Pending(m)') <= Cardinality(Requests) /\ Cardinality(Pending(m)') \in Nat
        BY <1>0, <4>6, FS_Subset, FS_CardinalityType
      <4> QED
        BY <1>0, <3>2, <4>5, <4>7
    <3> QED
      BY <3>3, <3>4
  <2> QED
    BY <2>2, <2>3 DEF CountInv
<1> QED
  BY <1>1, <1>2

LEMMA CountImplies ==
    ASSUME CountInv
    PROVE  AttachmentBound
  BY DEF CountInv, AttachmentBound, CountMessageAttachments, In
--------------------------------------------------------------------------------
(***************************************************************************)
(* Nothing is left behind.  A file has one message, whatever there is of   *)
(* it: an object, a row, a request that makes it or one that deletes it.   *)
(***************************************************************************)

Trace(m, f, stored, rows, q) ==
    \/ stored[<<"attachments", m, f>>] # NoFile
    \/ \E x \in rows : x.key = <<"attachments", m, f>>
    \/ f \in Requests /\ q[f].pc \in Attaching /\ q[f].message = m
    \/ \E s \in Requests : q[s].pc \in Detaching /\ q[s].old.key = <<"attachments", m, f>>

Early == {"idle", "object", "row", "put", "store"}
OneHome ==
    /\ \A m, n \in Messages, f \in Files :
         Trace(m, f, objects, media, req) /\ Trace(n, f, objects, media, req) => m = n
    /\ \A s \in Requests, m \in Messages :
         req[s].pc \in Early => ~Trace(m, s, objects, media, req)
Cleaned ==
    \A s \in Requests :
        /\ req[s].pc = "undo2" => s \in orphans \/ \A x \in media : x.file # s
        /\ req[s].pc \in {"unlink", "unrow2"} => objects[req[s].old.key] = NoFile

\* The row of an attachment's key is one of its file.
LEMMA RowOfKey ==
    ASSUME RowsOK, NEW x \in media, NEW m, NEW f, x.key = <<"attachments", m, f>>
    PROVE  x.file = f /\ AttachmentRow(x)
  BY DEF RowsOK, AvatarRow, AttachmentRow

LEMMA EarlyMoves ==
    ASSUME TypeOK, NEW r \in Requests, AvatarStep(r) \/ AttachmentStep(r), req'[r].pc \in Early
    PROVE  req[r].pc \in Early
<1>1. req[r].pc \notin Attaching
  BY AttachMoves DEF Early, Links, Adds
<1>2. req[r].pc \notin Detaching
  BY DetachMoves DEF Early, Unlinks
<1>3. req[r].pc \in Young
  BY PhaseMoves DEF Early, Young
<1> QED
  BY <1>1, <1>3 DEF Early, Young, Attaching

LEMMA TraceStep ==
    ASSUME TypeOK, Struct, NEW r \in Requests, AvatarStep(r) \/ AttachmentStep(r),
           NEW m \in Messages, NEW f \in Files, Trace(m, f, objects', media', req')
    PROVE  \/ Trace(m, f, objects, media, req)
           \/ f = r /\ req[r].pc = "idle" /\ req'[r].pc = "put2" /\ req'[r].message = m
<1> DEFINE key == <<"attachments", m, f>>
<1>1. CASE objects'[key] # NoFile
  <2>1. CASE objects[key] # NoFile
    BY <2>1 DEF Trace
  <2>2. CASE objects[key] = NoFile
    <3>1. key \in Keys
      BY MakeAttachmentKey
    <3>2. req[r].pc = "put2" /\ f = r /\ m = req[r].message
      BY <1>1, <2>2, <3>1, ObjectKept DEF Clears, TypeOK
    <3> QED
      BY <3>2 DEF Trace, Attaching
  <2> QED
    BY <2>1, <2>2
<1>2. CASE \E x \in media' : x.key = key
  <2>1. PICK x \in media' : x.key = key
    BY <1>2
  <2>2. CASE x \in media
    BY <2>1, <2>2 DEF Trace
  <2>3. CASE x \notin media
    <3>1. Adds(r, x)
      BY <2>1, <2>3, RowMoves DEF RemovesAvatar, RemovesFile, DeleteMediaFile, Links, Unlinks, Adds
    <3>2. HasRead(r, media, req)
      BY DEF Struct
    <3>3. req[r].pc = "store2" /\ x.key = <<"attachments", req[r].message, r>>
      BY <2>1, <3>1, <3>2 DEF Adds, HasRead, Upload1
    <3>4. m = req[r].message /\ f = r
      BY <2>1, <3>3
    <3> QED
      BY <3>3, <3>4 DEF Trace, Attaching
  <2> QED
    BY <2>2, <2>3
<1>3. CASE f \in Requests /\ req'[f].pc \in Attaching /\ req'[f].message = m
  <2>1. CASE f # r
    BY <1>3, <2>1, PhaseMoves DEF Trace
  <2>2. CASE f = r
    <3>1. \/ req[r].pc \in Attaching
          \/ req[r].pc = "idle" /\ req'[r].pc = "put2"
      BY <1>3, <2>2, NewWork DEF Attaching, Detaching
    <3> QED
      BY <1>3, <2>2, <3>1, AttachMoves DEF Trace
  <2> QED
    BY <2>1, <2>2
<1>4. CASE \E s \in Requests : req'[s].pc \in Detaching /\ req'[s].old.key = key
  <2>1. PICK s \in Requests : req'[s].pc \in Detaching /\ req'[s].old.key = key
    BY <1>4
  <2>2. CASE s # r
    BY <2>1, <2>2, PhaseMoves DEF Trace
  <2>3. CASE s = r
    <3>1. req[r].pc \in Detaching \/ req'[r].old \in media
      BY <2>1, <2>3, NewWork DEF Attaching, Detaching
    <3> QED
      BY <2>1, <2>3, <3>1, DetachMoves DEF Trace
  <2> QED
    BY <2>2, <2>3
<1> QED
  BY <1>1, <1>2, <1>3, <1>4 DEF Trace

LEMMA HomeStep ==
    ASSUME TypeOK, Struct, OneHome, NEW r \in Requests, AvatarStep(r) \/ AttachmentStep(r)
    PROVE  OneHome'
<1>1. ASSUME NEW m \in Messages, NEW n \in Messages, NEW f \in Files,
             Trace(m, f, objects', media', req'), Trace(n, f, objects', media', req')
      PROVE  m = n
  <2>1. CASE f = r /\ req[r].pc = "idle"
    <3>1. ~Trace(m, f, objects, media, req) /\ ~Trace(n, f, objects, media, req)
      BY <2>1 DEF OneHome, Early
    <3>2. m = req'[r].message /\ n = req'[r].message
      BY <1>1, <3>1, TraceStep
    <3> QED
      BY <3>2
  <2>2. CASE ~(f = r /\ req[r].pc = "idle")
    <3>1. Trace(m, f, objects, media, req) /\ Trace(n, f, objects, media, req)
      BY <1>1, <2>2, TraceStep
    <3> QED
      BY <3>1 DEF OneHome
  <2> QED
    BY <2>1, <2>2
<1>2. ASSUME NEW s \in Requests, NEW m \in Messages, req'[s].pc \in Early,
             Trace(m, s, objects', media', req')
      PROVE  FALSE
  <2>1. req[s].pc \in Early
    BY <1>2, PhaseMoves, EarlyMoves
  <2>2. ~Trace(m, s, objects, media, req) /\ s \in Files
    BY <2>1 DEF OneHome, Files
  <2>3. s = r /\ req'[r].pc = "put2"
    BY <1>2, <2>2, TraceStep
  <2> QED
    BY <1>2, <2>3 DEF Early
<1> QED
  BY <1>1, <1>2 DEF OneHome

LEMMA CleanedStep ==
    ASSUME TypeOK, Struct, Cleaned, NEW r \in Requests, AvatarStep(r) \/ AttachmentStep(r)
    PROVE  Cleaned'
<1>1. ASSUME NEW s \in Requests, req'[s].pc = "undo2", s \notin orphans', NEW x \in media'
      PROVE  x.file # s
  <2>1. s \notin orphans
    BY <1>1, HistoryGrows
  <2>2. CASE s # r
    <3>1. \A y \in media : y.file # s
      BY <1>1, <2>1, <2>2, PhaseMoves DEF Cleaned
    <3> QED
      BY <1>1, <2>2, <3>1, RowMoves
         DEF RemovesAvatar, RemovesFile, DeleteMediaFile, Adds, Links, Unlinks
  <2>3. CASE s = r
    <3>1. req[r].pc \in Attaching
      BY <1>1, <2>3, NewWork DEF Attaching, Detaching
    <3>2. \/ req[r].pc = "store2" /\ media' = media
          \/ req[r].pc = "unstore2" /\ DeleteMediaFile(r)
      BY <1>1, <2>3, <3>1, AttachMoves DEF Adds, Links
    <3> QED
      BY <1>1, <2>3, <3>2 DEF DeleteMediaFile, Struct, RowsOK, Stored, Young
  <2> QED
    BY <2>2, <2>3
<1>2. ASSUME NEW s \in Requests, req'[s].pc \in {"unlink", "unrow2"}
      PROVE  objects'[req'[s].old.key] = NoFile
  <2>0. /\ TypeOK' /\ (\A t \in Requests : HasRead(t, media', req'))
    BY AvatarTypes, AttachmentTypes, OthersHaveRead, OwnHasRead
  <2>1. /\ Linked(req'[s].old.file, req') /\ AttachmentRow(req'[s].old)
    BY <1>2, <2>0 DEF HasRead, Detaching
  <2>2. req'[s].old \in Media
    <3>1. req'[s] \in Request
      BY <2>0 DEF TypeOK
    <3> QED
      BY <1>2, <3>1 DEF Request, Idle, Done
  <2>3. PICK m \in Messages : req'[s].old.key = <<"attachments", m, req'[s].old.file>>
    BY <2>1 DEF AttachmentRow
  <2>4. req'[s].old.key \in Keys /\ req'[s].old.file \in Files
    BY <2>2 DEF Media
  <2>5. CASE s = r /\ req[r].pc = "drop2"
    <3>1. Clears(r, req[r].old.key) /\ req'[r].old = req[r].old
      BY <1>2, <2>5, DetachMoves DEF Detaching, Unlinks
    <3> QED
      BY <2>4, <2>5, <3>1 DEF Clears, TypeOK
  <2>6. CASE ~(s = r /\ req[r].pc = "drop2")
    <3>1. req[s].pc \in {"unlink", "unrow2"} /\ req'[s].old = req[s].old
      <4>1. CASE s # r
        BY <1>2, <4>1, PhaseMoves
      <4>2. CASE s = r
        <5>1. req[r].pc \in Detaching
          BY <1>2, <4>2, NewWork DEF Attaching, Detaching
        <5> QED
          BY <1>2, <2>6, <4>2, <5>1, DetachMoves DEF Detaching
      <4> QED
        BY <4>1, <4>2
    <3>2. objects[req'[s].old.key] = NoFile
      BY <3>1 DEF Cleaned
    <3>3. CASE objects'[req'[s].old.key] = objects[req'[s].old.key]
      BY <3>2, <3>3
    <3>4. CASE objects'[req'[s].old.key] # objects[req'[s].old.key]
      <4>1. \/ req[r].pc = "put2" /\ req'[s].old.file = r
            \/ \E k \in Keys : k = req'[s].old.key /\ Clears(r, k)
        BY <2>3, <2>4, <3>4, ObjectKept
      <4>2. ~(req[r].pc = "put2" /\ req'[s].old.file = r)
        <5>1. HasRead(s, media, req)
          BY DEF Struct
        <5>2. Linked(req[s].old.file, req)
          BY <3>1, <5>1 DEF HasRead, Detaching
        <5> QED
          BY <3>1, <5>2 DEF Linked
      <4> QED
        BY <2>4, <4>1, <4>2 DEF Clears, TypeOK
    <3> QED
      BY <3>3, <3>4
  <2> QED
    BY <2>5, <2>6
<1> QED
  BY <1>1, <1>2 DEF Cleaned

Held(m, f, stored, rows) ==
    stored[<<"attachments", m, f>>] # NoFile \/ \E x \in rows : x.key = <<"attachments", m, f>>

\* Where the row of a file goes, by its request or its deletion, no object is left.
LEMMA NothingLeft ==
    ASSUME TypeOK, Struct, OneHome, Cleaned, NEW r \in Requests,
           NEW m \in Messages, NEW f \in Files, req[r].pc = "unrow2", objects' = objects,
           req[r].old.file = f, DeleteMediaFile(f)
    PROVE  ~Held(m, f, objects', media')
<1>1. AttachmentRow(req[r].old) /\ objects[req[r].old.key] = NoFile
  BY DEF Struct, HasRead, Detaching, Cleaned
<1>2. PICK n \in Messages : req[r].old.key = <<"attachments", n, f>>
  BY <1>1 DEF AttachmentRow
<1>3. Trace(n, f, objects, media, req)
  BY <1>2 DEF Trace, Detaching
<1>4. objects[<<"attachments", m, f>>] = NoFile
  BY <1>1, <1>2, <1>3 DEF OneHome, Trace
<1>5. \A x \in media' : x.key # <<"attachments", m, f>>
  BY RowOfKey DEF Struct, DeleteMediaFile
<1> QED
  BY <1>4, <1>5 DEF Held

LEMMA OrphansStep ==
    ASSUME TypeOK, Struct, OneHome, Cleaned, NoOrphans,
           NEW r \in Requests, AvatarStep(r) \/ AttachmentStep(r)
    PROVE  NoOrphans'
<1> SUFFICES ASSUME NEW m \in Messages, NEW f \in Files, Held(m, f, objects', media')
             PROVE  \/ f \in orphans' \cup broken'
                    \/ \E a \in attachments' : a.file = f
                    \/ f \in Requests /\ req'[f].pc \in {"store2", "link", "unstore2", "undo2"}
                    \/ \E s \in Requests : req'[s].pc = "unrow2" /\ req'[s].old.file = f
  BY DEF NoOrphans, Held
<1> DEFINE key == <<"attachments", m, f>>
           Good == \/ f \in orphans' \cup broken'
                   \/ \E a \in attachments' : a.file = f
                   \/ f \in Requests /\ req'[f].pc \in {"store2", "link", "unstore2", "undo2"}
                   \/ \E s \in Requests : req'[s].pc = "unrow2" /\ req'[s].old.file = f
<1>0. key \in Keys /\ objects \in [Keys -> Files \cup {NoFile}]
  BY MakeAttachmentKey DEF TypeOK
<1>1. CASE ~Held(m, f, objects, media)
  <2>1. CASE objects'[key] # objects[key]
    <3>1. req[r].pc = "put2" /\ f = r /\ Puts(r, key)
      BY <1>0, <1>1, <2>1, ObjectKept DEF Clears, Held
    <3>2. req'[r].pc = "store2" \/ r \in orphans'
      BY <3>1, AttachMoves DEF Attaching
    <3> QED
      BY <3>1, <3>2
  <2>2. CASE objects'[key] = objects[key]
    <3>1. PICK x \in media' : x.key = key /\ x \notin media
      BY <1>1, <2>2 DEF Held
    <3>2. Adds(r, x)
      BY <3>1, RowMoves DEF RemovesAvatar, RemovesFile, DeleteMediaFile, Links, Unlinks, Adds
    <3>3. HasRead(r, media, req)
      BY DEF Struct
    <3>4. req'[r].pc = "link" /\ x.key = <<"attachments", req[r].message, r>>
      BY <3>1, <3>2, <3>3 DEF Adds, HasRead, Upload1
    <3> QED
      BY <3>1, <3>4
  <2> QED
    BY <2>1, <2>2
<1>2. CASE Held(m, f, objects, media) /\ f \in orphans \cup broken
  BY <1>2, HistoryGrows
<1>3. CASE Held(m, f, objects, media) /\ \E a \in attachments : a.file = f
  <2>1. PICK a \in attachments : a.file = f
    BY <1>3
  <2>2. CASE a \in attachments'
    BY <2>1, <2>2
  <2>3. ASSUME NEW g, RemovesAvatar(r, g), a \notin attachments' PROVE Good
    <3>1. g = f
      BY <2>1, <2>3 DEF RemovesAvatar, DeleteMediaFile
    <3>2. PICK x \in media : x.file = f /\ x.key = <<"attachments", a.message, f>>
      BY <2>1 DEF Struct, AttachedOK
    <3>3. AvatarRow(x, req[r].owner)
      BY <2>3, <3>1, <3>2 DEF RemovesAvatar
    <3> QED
      BY <3>2, <3>3 DEF AvatarRow
  <2>4. ASSUME NEW g, RemovesFile(r, g), a \notin attachments' PROVE Good
    <3>1. g = f
      BY <2>1, <2>4 DEF RemovesFile, DeleteMediaFile
    <3>2. CASE req[r].pc = "unstore2"
      BY <2>4, <3>1, <3>2 DEF RemovesFile
    <3>3. CASE req[r].pc = "unrow2" /\ req[r].old.file = f
      <4>1. objects' = objects \/ f \in broken'
        BY <3>3, DetachMoves DEF Detaching
      <4> QED
        BY <2>4, <3>1, <3>3, <4>1, NothingLeft DEF RemovesFile
    <3> QED
      BY <2>4, <3>1, <3>2, <3>3 DEF RemovesFile
  <2>5. ASSUME Unlinks(r), a \notin attachments' PROVE Good
    BY <2>1, <2>5 DEF Unlinks, DeleteMessageAttachment
  <2>6. CASE attachments \subseteq attachments'
    BY <2>1, <2>6
  <2> QED
    BY <2>2, <2>3, <2>4, <2>5, <2>6, RowMoves DEF Adds, Links, CreateMessageAttachment
<1>4. CASE /\ Held(m, f, objects, media) /\ f \in Requests
           /\ req[f].pc \in {"store2", "link", "unstore2", "undo2"}
  <2>1. CASE f # r
    BY <1>4, <2>1, PhaseMoves
  <2>2. CASE f = r /\ req[r].pc = "undo2"
    <3>1. r \in orphans' \/ /\ Clears(r, <<"attachments", req[r].message, r>>)
                            /\ media' = media
      BY <2>2, AttachMoves DEF Attaching
    <3>2. CASE /\ Clears(r, <<"attachments", req[r].message, r>>) /\ media' = media
               /\ r \notin orphans'
      <4>1. \A x \in media : x.file # r
        BY <2>2, <3>2, HistoryGrows DEF Cleaned
      <4>2. \A x \in media : x.key # key
        BY <2>2, <4>1, RowOfKey DEF Struct
      <4>3. objects'[key] # NoFile
        BY <3>2, <4>2 DEF Held
      <4>4. req[r].message \in Messages
        BY <2>2, Fields DEF Attaching
      <4>5. Trace(req[r].message, r, objects, media, req)
        BY <2>2 DEF Trace, Attaching
      <4>6. objects[key] # NoFile
        BY <1>0, <3>2, <4>3 DEF Clears
      <4>7. m = req[r].message
        BY <2>2, <4>4, <4>5, <4>6 DEF OneHome, Trace
      <4> QED
        BY <1>0, <2>2, <3>2, <4>3, <4>7 DEF Clears
    <3> QED
      BY <2>2, <3>1, <3>2
  <2>3. CASE f = r /\ req[r].pc # "undo2"
    <3>1. req[r].pc \in Attaching /\ req[r].pc # "put2"
      BY <1>4, <2>3 DEF Attaching
    <3>2. \/ req'[r].pc \in {"link", "unstore2", "undo2"}
          \/ Links(r)
      BY <2>3, <3>1, AttachMoves DEF Adds
    <3>3. Links(r) => [file |-> r, message |-> req[r].message] \in attachments'
      BY DEF Links, CreateMessageAttachment
    <3> QED
      BY <2>3, <3>2, <3>3
  <2> QED
    BY <2>1, <2>2, <2>3
<1>5. CASE /\ Held(m, f, objects, media)
           /\ \E s \in Requests : req[s].pc = "unrow2" /\ req[s].old.file = f
  <2>1. PICK s \in Requests : req[s].pc = "unrow2" /\ req[s].old.file = f
    BY <1>5
  <2>2. CASE s # r
    BY <2>1, <2>2, PhaseMoves
  <2>3. CASE s = r
    <3>1. f \in broken' \/ (objects' = objects /\ DeleteMediaFile(f))
      BY <2>1, <2>3, DetachMoves DEF Detaching
    <3> QED
      BY <2>1, <2>3, <3>1, NothingLeft
  <2> QED
    BY <2>2, <2>3
<1> QED
  BY <1>1, <1>2, <1>3, <1>4, <1>5 DEF NoOrphans, Held
--------------------------------------------------------------------------------
(***************************************************************************)
(* Avatars.  A step is about one user's avatar, or about none: it leaves   *)
(* all others as they are.                                                 *)
(***************************************************************************)

LEMMA AvatarPhases ==
    ASSUME TypeOK, NEW r \in Requests, AvatarStep(r) \/ AttachmentStep(r)
    PROVE  /\ req[r].pc \in AvatarWork /\ req'[r].pc \in AvatarWork =>
                req'[r].owner = req[r].owner
           /\ req[r].pc \notin AvatarWork /\ req'[r].pc \in AvatarWork =>
                /\ req[r].pc = "idle"
                /\ \E v \in Users : req'[r].owner = v /\ Begin(v)
           /\ req[r].pc \in AvatarWork \/ req'[r].pc \in AvatarWork => AvatarStep(r)
<1> DEFINE Same == /\ req[r].pc \in AvatarWork
                   /\ req'[r].pc \in AvatarWork => req'[r].owner = req[r].owner
           New == /\ req[r].pc = "idle"
                  /\ \E v \in Users : req'[r].owner = v /\ Begin(v)
           Off == req[r].pc \notin AvatarWork /\ req'[r].pc \notin AvatarWork
<1> USE DEF At
<1>0. req \in [Requests -> Request]
  BY DEF TypeOK
<1>1. ASSUME NEW p, Goto(r, p), req[r].pc \in AvatarWork PROVE Same
  BY <1>0, <1>1 DEF Goto
<1>2. ASSUME End(r), req[r].pc \in AvatarWork PROVE Same
  BY <1>0, <1>2 DEF End, Done, AvatarWork
<1>3. ASSUME UploadAvatar(r) PROVE New
  <2>1. PICK u \in Users, e \in Extensions : BeginUpload(r, u, e)
    BY <1>3 DEF UploadAvatar
  <2>2. req[r].pc = "idle" /\ req'[r].owner = u /\ Begin(u)
    BY <1>0, <1>3, <2>1 DEF UploadAvatar, BeginUpload, Start
  <2> QED
    BY <2>2
<1>4. ASSUME DeleteAvatar(r) \/ DeleteCurrentUser(r) PROVE New
  <2>1. PICK u \in Users, c \in BOOLEAN : BeginDeletion(r, u, c)
    BY <1>4 DEF DeleteAvatar, DeleteCurrentUser
  <2>2. req[r].pc = "idle" /\ req'[r].owner = u /\ Begin(u)
    BY <1>0, <1>4, <2>1 DEF DeleteAvatar, DeleteCurrentUser, BeginDeletion, Start
  <2> QED
    BY <2>2
<1>5. ASSUME NothingOld(r) PROVE Same
  <2>1. req[r].pc \in AvatarWork /\ req'[r].owner = req[r].owner
    BY <1>0, <1>5 DEF NothingOld, Start, AvatarWork
  <2> QED
    BY <2>1
<1>6. ASSUME DeleteOldRow(r) PROVE Same
  <2>1. req[r].pc \in AvatarWork /\ req'[r].owner = req[r].owner
    BY <1>0, <1>6 DEF DeleteOldRow, AvatarWork
  <2> QED
    BY <2>1
<1>7. ASSUME \/ DeleteOldObject(r) \/ PutAvatar(r) \/ StoreAvatar(r) \/ UndoAvatar(r)
             \/ StoreAvatarUrl(r)
      PROVE  Same
  <2>1. req[r].pc \in AvatarWork
    BY <1>7 DEF DeleteOldObject, PutAvatar, StoreAvatar, UndoAvatar, StoreAvatarUrl, AvatarWork
  <2>2. End(r) \/ \E p : Goto(r, p)
    BY <1>7 DEF DeleteOldObject, PutAvatar, StoreAvatar, UndoAvatar, StoreAvatarUrl
  <2> QED
    BY <1>1, <1>2, <2>1, <2>2
<1>8. ASSUME DropAvatar(r) \/ DropAvatarUrl(r) \/ SoftDeleteUser(r) PROVE Same
  <2>1. req[r].pc \in AvatarWork
    BY <1>8 DEF DropAvatar, DropAvatarUrl, SoftDeleteUser, AvatarWork
  <2>2. End(r) \/ \E p : Goto(r, p)
    BY <1>8 DEF DropAvatar, DropObject, DropRow, GiveUp, DropAvatarUrl, SoftDeleteUser
  <2> QED
    BY <1>1, <1>2, <2>1, <2>2
<1>9. ASSUME AttachmentStep(r) PROVE Off
  <2>1. req[r].pc \notin AvatarWork
    BY <1>9 DEF AttachmentStep, UploadAttachment, PutAttachment, StoreAttachmentFile,
         LinkAttachment, UnstoreFile, UndoAttachment, DeleteAttachment, DropAttachmentObject,
         UnlinkAttachment, DropAttachmentFile, AvatarWork
  <2>2. ASSUME NEW p, Goto(r, p), p \notin AvatarWork PROVE req'[r].pc \notin AvatarWork
    BY <1>0, <2>2 DEF Goto
  <2>3. ASSUME End(r) PROVE req'[r].pc \notin AvatarWork
    BY <1>0, <2>3 DEF End, Done, AvatarWork
  <2>4. ASSUME NEW q, Start(r, q), q.pc \notin AvatarWork PROVE req'[r].pc \notin AvatarWork
    BY <1>0, <2>4 DEF Start
  <2>5. req'[r].pc \notin AvatarWork
    BY <1>9, <2>2, <2>3, <2>4 DEF AttachmentStep, UploadAttachment, BeginAttaching, PutAttachment,
         StoreAttachmentFile, LinkAttachment, UnstoreFile, UndoAttachment, DeleteAttachment,
         BeginDetaching, DropAttachmentObject, UnlinkAttachment, DropAttachmentFile, AvatarWork
  <2> QED
    BY <2>1, <2>5
<1>10. Same \/ New \/ Off
  <2> HIDE DEF Same, New, Off
  <2> QED
    BY <1>3, <1>4, <1>5, <1>6, <1>7, <1>8, <1>9 DEF AvatarStep
<1>11. "idle" \notin AvatarWork
  BY DEF AvatarWork
<1> HIDE DEF New
<1>12. /\ req[r].pc \in AvatarWork => Same
       /\ req[r].pc \in AvatarWork \/ req'[r].pc \in AvatarWork => AvatarStep(r)
  BY <1>9, <1>10, <1>11 DEF New
<1>13. req[r].pc \notin AvatarWork /\ req'[r].pc \in AvatarWork => New
  BY <1>10
<1> QED
  BY <1>12, <1>13 DEF New

\* What is on record of a user stays, and the URL and the account are changed by the
\* user's requests.
LEMMA UserMoves ==
    ASSUME TypeOK, NEW r \in Requests, AvatarStep(r) \/ AttachmentStep(r), NEW u \in Users
    PROVE  /\ shared \subseteq shared' /\ failed \subseteq failed'
           /\ kept \subseteq kept' /\ late \subseteq late'
           /\ (kept \subseteq failed => kept' \subseteq failed')
           /\ r \notin Busy(u) => /\ u \in avatarUrl' <=> u \in avatarUrl
                                  /\ u \in closed' <=> u \in closed
<1> USE DEF At
<1>1. CASE UploadAvatar(r)
  BY <1>1 DEF UploadAvatar, BeginUpload, Begin, Fault
<1>2. CASE DeleteAvatar(r) \/ DeleteCurrentUser(r)
  BY <1>2 DEF DeleteAvatar, DeleteCurrentUser, BeginDeletion, Begin
<1>3. CASE DeleteOldRow(r) \/ NothingOld(r) \/ UndoAvatar(r)
  BY <1>3 DEF DeleteOldRow, NothingOld, UndoAvatar, Fault, avatarVars
<1>4. CASE DeleteOldObject(r) \/ PutAvatar(r) \/ StoreAvatar(r)
  BY <1>4 DEF DeleteOldObject, PutAvatar, StoreAvatar, Fault
<1>5. CASE DropAvatar(r)
  BY <1>5 DEF DropAvatar, DropObject, DropRow, Fault
<1>6. CASE StoreAvatarUrl(r) \/ DropAvatarUrl(r) \/ SoftDeleteUser(r)
  <2>1. req[r].pc \in AvatarWork
    BY <1>6 DEF StoreAvatarUrl, DropAvatarUrl, SoftDeleteUser, AvatarWork
  <2>2. r \notin Busy(u) => u # req[r].owner
    BY <2>1 DEF Busy
  <2> QED
    BY <1>6, <2>2 DEF StoreAvatarUrl, DropAvatarUrl, SoftDeleteUser, Fault, UpdateUserAvatar,
                      RemoveUserAvatar
<1>7. CASE AttachmentStep(r)
  BY <1>7 DEF AttachmentStep, UploadAttachment, BeginAttaching, PutAttachment, StoreAttachmentFile,
       LinkAttachment, UnstoreFile, UndoAttachment, DeleteAttachment, BeginDetaching,
       DropAttachmentObject, UnlinkAttachment, DropAttachmentFile, avatarVars
<1> QED
  BY <1>1, <1>2, <1>3, <1>4, <1>5, <1>6, <1>7 DEF AvatarStep

LEMMA BusyMoves ==
    ASSUME TypeOK, NEW r \in Requests, AvatarStep(r) \/ AttachmentStep(r), NEW u \in Users
    PROVE  /\ Busy(u)' \ {r} = Busy(u) \ {r}
           /\ r \in Busy(u)' /\ r \notin Busy(u) =>
                req[r].pc = "idle" /\ req'[r].owner = u /\ Begin(u)
<1>1. Busy(u)' \ {r} = Busy(u) \ {r}
  BY PhaseMoves DEF Busy
<1> QED
  BY <1>1, AvatarPhases DEF Busy

LEMMA AvatarFrame ==
    ASSUME TypeOK, Struct, NEW r \in Requests, AvatarStep(r) \/ AttachmentStep(r),
           NEW u \in Users, r \notin Busy(u), r \notin Busy(u)'
    PROVE  /\ AvatarsByOwner(u)' = AvatarsByOwner(u)
           /\ Busy(u)' = Busy(u)
           /\ \A e \in Extensions : objects'[<<"avatars", u, e>>] = objects[<<"avatars", u, e>>]
<1>0. req[r].pc \in AvatarWork => req[r].owner # u
  BY DEF Busy
<1>1. Busy(u)' = Busy(u)
  BY BusyMoves
<1>2. ASSUME NEW e \in Extensions
      PROVE  objects'[<<"avatars", u, e>>] = objects[<<"avatars", u, e>>]
  <2>1. SUFFICES ASSUME NEW k \in Keys, Puts(r, k) \/ Clears(r, k), k = <<"avatars", u, e>>
                 PROVE  FALSE
    BY MakeAvatarKey, ObjectMoves DEF Puts, Clears, TypeOK
  <2>2. CASE req[r].pc \in {"put2", "undo2", "drop2"}
    BY <2>1, <2>2, ClearedAttachment DEF AttachmentRow
  <2>3. CASE req[r].pc \notin {"put2", "undo2", "drop2"}
    <3>1. \E d \in Extensions : k = <<"avatars", req[r].owner, d>>
      BY <2>1, <2>3, ClearedAvatar
    <3>2. req[r].pc \in AvatarWork
      BY <2>1, <2>3 DEF Puts, Clears, AvatarWork
    <3> QED
      BY <1>0, <2>1, <3>1, <3>2
  <2> QED
    BY <2>2, <2>3
<1>3. \A x \in media : AttachmentRow(x) => x \notin AvatarsByOwner(u)
  BY MakeAttachmentKey DEF AttachmentRow, AvatarsByOwner, TypeOK, Media
<1>4. ASSUME NEW f, RemovesAvatar(r, f) PROVE AvatarsByOwner(u)' = AvatarsByOwner(u)
  <2>1. \A y \in media : y.file = f => y.owner # u
    BY <1>0, <1>4 DEF RemovesAvatar, AvatarRow, AvatarWork
  <2> QED
    BY <1>4, <2>1 DEF RemovesAvatar, DeleteMediaFile, AvatarsByOwner
<1>5. ASSUME NEW f, RemovesFile(r, f) PROVE AvatarsByOwner(u)' = AvatarsByOwner(u)
  BY <1>3, <1>5 DEF RemovesFile, DeleteMediaFile, AvatarsByOwner
<1>6. ASSUME NEW x, Adds(r, x) PROVE AvatarsByOwner(u)' = AvatarsByOwner(u)
  <2>1. CASE req[r].pc = "store"
    BY <1>0, <1>6, <2>1 DEF Adds, AvatarsByOwner, AvatarWork
  <2>2. CASE req[r].pc = "store2"
    <3>1. x.key \notin AvatarKeys
      BY <1>6, <2>2, Fields, MakeAttachmentKey DEF Adds, Attaching, Files
    <3> QED
      BY <1>6, <3>1 DEF Adds, AvatarsByOwner
  <2> QED
    BY <1>6, <2>1, <2>2 DEF Adds
<1>7. media' = media => AvatarsByOwner(u)' = AvatarsByOwner(u)
  BY DEF AvatarsByOwner
<1>8. AvatarsByOwner(u)' = AvatarsByOwner(u)
  BY <1>4, <1>5, <1>6, <1>7, RowMoves DEF Links, Unlinks
<1> QED
  BY <1>1, <1>2, <1>8

(***************************************************************************)
(* A user whose requests do not overlap has one of them at a time.         *)
(***************************************************************************)
OneBusy == \A u \in Users \ shared : \A r, s \in Busy(u) : r = s

LEMMA OnlyOne ==
    ASSUME TypeOK, OneBusy, NEW r \in Requests, AvatarStep(r) \/ AttachmentStep(r),
           NEW u \in Users, u \notin shared', r \in Busy(u) \/ r \in Busy(u)'
    PROVE  /\ \A s \in Busy(u)' : s = r
           /\ r \in Busy(u) => Busy(u) = {r}
           /\ r \notin Busy(u) => Busy(u) = {}
<1>1. u \notin shared
  BY UserMoves
<1>2. CASE r \in Busy(u)
  BY <1>1, <1>2, BusyMoves DEF OneBusy
<1>3. CASE r \notin Busy(u)
  <2>1. Begin(u)
    BY <1>3, BusyMoves
  <2>2. Busy(u) = {}
    BY <2>1 DEF Begin
  <2> QED
    BY <1>3, <2>2, BusyMoves
<1> QED
  BY <1>2, <1>3

LEMMA OneBusyStep ==
    ASSUME TypeOK, OneBusy, NEW r \in Requests, AvatarStep(r) \/ AttachmentStep(r)
    PROVE  OneBusy'
<1> SUFFICES ASSUME NEW u \in Users, u \notin shared',
                    NEW s \in Busy(u)', NEW t \in Busy(u)'
             PROVE  s = t
  BY DEF OneBusy
<1>1. CASE r \in Busy(u) \/ r \in Busy(u)'
  BY <1>1, OnlyOne
<1>2. CASE r \notin Busy(u) /\ r \notin Busy(u)'
  BY <1>2, BusyMoves, UserMoves DEF OneBusy
<1> QED
  BY <1>1, <1>2

(***************************************************************************)
(* The avatar decrypts.  The old rows go before the object is overwritten, *)
(* so that a row meets its own object or none.                             *)
(***************************************************************************)
DecryptsInv ==
    \A u \in Users \ (shared \cup kept) :
        /\ \A x, y \in AvatarsByOwner(u) : x = y
        /\ \A x \in AvatarsByOwner(u) : objects[x.key] \in {x.file, NoFile}
        /\ \A s \in Busy(u) :
            /\ req[s].pc \in {"object", "row"} => AvatarsByOwner(u) \subseteq req[s].todo
            /\ req[s].pc \in {"put", "store", "undo"} => AvatarsByOwner(u) = {}
            /\ req[s].pc = "store" => objects[req[s].key] = s

LEMMA AvatarKeyOfRow ==
    ASSUME TypeOK, RowsOK, NEW u, NEW x \in AvatarsByOwner(u)
    PROVE  \E e \in Extensions : x.key = <<"avatars", u, e>>
  BY OwnAvatars DEF AvatarRow

LEMMA DecryptsOthers ==
    ASSUME TypeOK, Struct, DecryptsInv, NEW r \in Requests, AvatarStep(r) \/ AttachmentStep(r),
           NEW u \in Users, u \notin shared' \cup kept', r \notin Busy(u), r \notin Busy(u)'
    PROVE  /\ \A x, y \in AvatarsByOwner(u)' : x = y
           /\ \A x \in AvatarsByOwner(u)' : objects'[x.key] \in {x.file, NoFile}
           /\ \A s \in Busy(u)' :
               /\ req'[s].pc \in {"object", "row"} => AvatarsByOwner(u)' \subseteq req'[s].todo
               /\ req'[s].pc \in {"put", "store", "undo"} => AvatarsByOwner(u)' = {}
               /\ req'[s].pc = "store" => objects'[req'[s].key] = s
<1>1. u \notin shared \cup kept
  BY UserMoves
<1>2. /\ AvatarsByOwner(u)' = AvatarsByOwner(u) /\ Busy(u)' = Busy(u)
      /\ \A e \in Extensions : objects'[<<"avatars", u, e>>] = objects[<<"avatars", u, e>>]
  BY AvatarFrame
<1>3. \A x \in AvatarsByOwner(u) : objects'[x.key] = objects[x.key]
  BY <1>2, AvatarKeyOfRow DEF Struct
<1>4. \A s \in Busy(u) : s \in Requests /\ req'[s] = req[s]
  BY PhaseMoves DEF Busy
<1>5. ASSUME NEW s \in Busy(u), req[s].pc = "store" PROVE objects'[req[s].key] = objects[req[s].key]
  <2>1. HasRead(s, media, req) /\ req[s].owner = u
    BY <1>4 DEF Struct, Busy
  <2> QED
    BY <1>2, <1>5, <2>1 DEF HasRead, Upload1
<1> QED
  BY <1>1, <1>2, <1>3, <1>4, <1>5 DEF DecryptsInv

LEMMA DecryptsOwn ==
    ASSUME TypeOK, Struct, OneBusy, DecryptsInv, NEW r \in Requests, AvatarStep(r),
           NEW u \in Users, u \notin shared' \cup kept', r \in Busy(u) \/ r \in Busy(u)'
    PROVE  /\ \A x, y \in AvatarsByOwner(u)' : x = y
           /\ \A x \in AvatarsByOwner(u)' : objects'[x.key] \in {x.file, NoFile}
           /\ r \in Busy(u)' =>
               /\ req'[r].pc \in {"object", "row"} => AvatarsByOwner(u)' \subseteq req'[r].todo
               /\ req'[r].pc \in {"put", "store", "undo"} => AvatarsByOwner(u)' = {}
               /\ req'[r].pc = "store" => objects'[req'[r].key] = r
<1> USE DEF At
<1> DEFINE Fits == /\ \A x, y \in AvatarsByOwner(u)' : x = y
                   /\ \A x \in AvatarsByOwner(u)' : objects'[x.key] \in {x.file, NoFile}
           Fields1 == /\ req'[r].pc \in {"object", "row"} => AvatarsByOwner(u)' \subseteq req'[r].todo
                      /\ req'[r].pc \in {"put", "store", "undo"} => AvatarsByOwner(u)' = {}
                      /\ req'[r].pc = "store" => objects'[req'[r].key] = r
           Rows == AvatarsByOwner(u)
<1>0. /\ req \in [Requests -> Request] /\ objects \in [Keys -> Files \cup {NoFile}]
      /\ u \notin shared /\ u \notin kept /\ AvatarKeys \subseteq Keys
      /\ \A x, y \in Rows : x = y
      /\ \A x \in Rows : objects[x.key] \in {x.file, NoFile} /\ x.key \in Keys
      /\ \A x \in Media : x.key \in Keys
  BY UserMoves DEF TypeOK, DecryptsInv, Keys, AvatarsByOwner, Media
<1>1. req[r].pc \in AvatarWork => req[r].owner = u /\ r \in Busy(u)
  BY BusyMoves DEF Busy, AvatarWork
<1>2. r \in Busy(u) =>
        /\ req[r].pc \in {"object", "row"} => Rows \subseteq req[r].todo
        /\ req[r].pc \in {"put", "store", "undo"} => Rows = {}
        /\ req[r].pc = "store" => objects[req[r].key] = r
  BY <1>0 DEF DecryptsInv
<1>3. media' = media => AvatarsByOwner(u)' = Rows
  BY DEF AvatarsByOwner
<1>4. ASSUME NEW k \in Keys, objects' = [objects EXCEPT ![k] = NoFile] \/ objects' = objects,
             AvatarsByOwner(u)' \subseteq Rows
      PROVE  Fits
  BY <1>0, <1>4
<1>5. End(r) => Fields1
  BY <1>0 DEF End, Done
<1>6. ASSUME NEW f, DeleteMediaFile(f)
      PROVE  AvatarsByOwner(u)' = {x \in Rows : x.file # f}
  BY <1>6 DEF DeleteMediaFile, AvatarsByOwner
<1>7. CASE UploadAvatar(r)
  <2>1. PICK v \in Users, e \in Extensions : BeginUpload(r, v, e)
    BY <1>7 DEF UploadAvatar
  <2>2. /\ UNCHANGED <<media, objects>>
        /\ v \in kept' \/ req'[r].pc = "object"
        /\ req'[r].pc = "object" => req'[r].owner = v /\ req'[r].todo = AvatarsByOwner(v)
        /\ req'[r].owner = v
    BY <1>0, <2>1 DEF BeginUpload, Start, Fault
  <2>3. v = u
    BY <1>1, <1>7, <2>2 DEF UploadAvatar, Busy, AvatarWork
  <2> QED
    BY <1>0, <1>3, <2>2, <2>3
<1>8. CASE NothingOld(r)
  <2>1. /\ req'[r] = [pc |-> "put", owner |-> req[r].owner, key |-> req[r].key]
        /\ UNCHANGED <<media, objects>> /\ req[r].pc = "object" /\ req[r].todo = {}
    BY <1>0, <1>8 DEF NothingOld, Start
  <2>2. Rows = {}
    BY <1>1, <1>2, <2>1 DEF AvatarWork
  <2> QED
    BY <1>0, <1>3, <2>1, <2>2
<1>9. CASE DeleteOldObject(r)
  <2>1. /\ req'[r].pc = "row" /\ req'[r].todo = req[r].todo
        /\ media' = media /\ req[r].pc = "object"
    BY <1>0, <1>9 DEF DeleteOldObject, Goto
  <2>2. PICK x \in req[r].todo : Delete(x.key) \/ objects' = objects
    BY <1>9 DEF DeleteOldObject, Newest
  <2>3. x.key \in Keys
    BY <1>0, <2>1, <2>2, Fields
  <2>4. Fits
    BY <1>3, <1>4, <2>1, <2>2, <2>3 DEF Delete
  <2> QED
    BY <1>1, <1>2, <1>3, <2>1, <2>4 DEF AvatarWork
<1>10. CASE DeleteOldRow(r)
  <2>1. PICK x \in req[r].todo :
          /\ DeleteMediaFile(x.file) \/ kept' = kept \cup {req[r].owner}
          /\ req' = [req EXCEPT ![r].pc = "object", ![r].todo = @ \ {x}]
    BY <1>10 DEF DeleteOldRow, Newest
  <2>2. req[r].pc = "row" /\ req[r] \in Request /\ objects' = objects
    BY <1>0, <1>10 DEF DeleteOldRow
  <2>4. req'[r] = [req[r] EXCEPT !.pc = "object", !.todo = @ \ {x}]
    BY <1>0, <2>1
  <2>5. req'[r].pc = "object" /\ req'[r].todo = req[r].todo \ {x}
    BY <2>2, <2>4 DEF Request, Idle, Done
  <2>3. AvatarsByOwner(u)' = {y \in Rows : y.file # x.file}
    BY <1>1, <1>6, <2>1, <2>2 DEF AvatarWork
  <2> QED
    BY <1>0, <1>1, <1>2, <2>2, <2>3, <2>5 DEF AvatarWork
<1>11. CASE PutAvatar(r)
  <2>1. req[r].pc = "put" /\ media' = media /\ req[r].key \in Keys
    BY <1>0, <1>11, Fields DEF PutAvatar, Upload1
  <2>2. AvatarsByOwner(u)' = {}
    BY <1>1, <1>2, <1>3, <2>1 DEF AvatarWork
  <2>3. CASE Upload(req[r].key, r) /\ Goto(r, "store")
    <3>1. req'[r].pc = "store" /\ req'[r].key = req[r].key
      BY <1>0, <2>3 DEF Goto
    <3>2. objects'[req[r].key] = r
      BY <1>0, <2>1, <2>3 DEF Upload
    <3> QED
      BY <2>2, <3>1, <3>2
  <2> QED
    BY <1>5, <1>11, <2>2, <2>3 DEF PutAvatar
<1>12. CASE StoreAvatar(r)
  <2>1. req[r].pc = "store" /\ objects' = objects
    BY <1>12 DEF StoreAvatar
  <2>2. Rows = {} /\ req[r].owner = u /\ objects[req[r].key] = r
    BY <1>1, <1>2, <2>1 DEF AvatarWork
  <2>3. CASE CreateMediaFile(r, u, req[r].key) /\ Goto(r, "url")
    <3> DEFINE y == [file |-> r, owner |-> u, key |-> req[r].key, at |-> Now(u)]
    <3>1. AvatarsByOwner(u)' \subseteq {y}
      BY <2>2, <2>3 DEF CreateMediaFile, AvatarsByOwner
    <3>2. req'[r].pc = "url"
      BY <1>0, <2>3 DEF Goto
    <3> QED
      BY <2>1, <2>2, <3>1, <3>2
  <2>4. CASE Goto(r, "undo") /\ media' = media
    <3>1. req'[r].pc = "undo"
      BY <1>0, <2>4 DEF Goto
    <3> QED
      BY <1>3, <2>2, <2>4, <3>1
  <2> QED
    BY <1>12, <2>2, <2>3, <2>4 DEF StoreAvatar
<1>13. CASE UndoAvatar(r)
  <2>1. req[r].pc = "undo" /\ media' = media
    BY <1>13 DEF UndoAvatar
  <2>2. AvatarsByOwner(u)' = {}
    BY <1>1, <1>2, <1>3, <2>1 DEF AvatarWork
  <2> QED
    BY <1>5, <1>13, <2>2 DEF UndoAvatar
<1>14. CASE DeleteAvatar(r) \/ DeleteCurrentUser(r)
  <2>1. PICK v \in Users, c \in BOOLEAN : BeginDeletion(r, v, c)
    BY <1>14 DEF DeleteAvatar, DeleteCurrentUser
  <2>2. req'[r].pc \in {"soft", "drop"} /\ UNCHANGED <<media, objects>>
    BY <1>0, <2>1 DEF BeginDeletion, Start
  <2> QED
    BY <1>0, <1>3, <2>2
<1>15. ASSUME NEW p, Goto(r, p), p \in Deletion PROVE Fields1
  <2>1. req'[r].pc = p
    BY <1>0, <1>15 DEF Goto
  <2> QED
    BY <1>15, <2>1 DEF Deletion
<1>16. CASE At(r, "drop") /\ DropObject(r)
  <2>1. PICK x \in req[r].old : Delete(x.key) \/ objects' = objects
    BY <1>16 DEF DropObject
  <2>2. x.key \in Keys
    BY <1>0, <1>16, <2>1, Fields DEF Deletion
  <2>3. Fits
    BY <1>3, <1>4, <1>16, <2>1, <2>2 DEF Delete, DropObject
  <2>4. Fields1
    BY <1>5, <1>15, <1>16 DEF DropObject, GiveUp, Deletion
  <2> QED
    BY <2>3, <2>4
<1>17. CASE At(r, "unrow") /\ DropRow(r)
  <2>1. AvatarsByOwner(u)' \subseteq Rows /\ objects' = objects
    BY <1>3, <1>6, <1>17 DEF DropRow
  <2>2. Fields1
    BY <1>5, <1>15, <1>17 DEF DropRow, GiveUp, Deletion
  <2> QED
    BY <1>0, <2>1, <2>2
<1>18. CASE StoreAvatarUrl(r) \/ DropAvatarUrl(r) \/ SoftDeleteUser(r)
  BY <1>0, <1>3, <1>5, <1>18 DEF StoreAvatarUrl, DropAvatarUrl, SoftDeleteUser
<1> QED
  BY <1>7, <1>8, <1>9, <1>10, <1>11, <1>12, <1>13, <1>14, <1>16, <1>17, <1>18
     DEF AvatarStep, DropAvatar

LEMMA DecryptsStep ==
    ASSUME TypeOK, Struct, OneBusy, DecryptsInv,
           NEW r \in Requests, AvatarStep(r) \/ AttachmentStep(r)
    PROVE  DecryptsInv'
<1> SUFFICES ASSUME NEW u \in Users, u \notin shared' \cup kept'
             PROVE  /\ \A x, y \in AvatarsByOwner(u)' : x = y
                    /\ \A x \in AvatarsByOwner(u)' : objects'[x.key] \in {x.file, NoFile}
                    /\ \A s \in Busy(u)' :
                        /\ req'[s].pc \in {"object", "row"} =>
                             AvatarsByOwner(u)' \subseteq req'[s].todo
                        /\ req'[s].pc \in {"put", "store", "undo"} => AvatarsByOwner(u)' = {}
                        /\ req'[s].pc = "store" => objects'[req'[s].key] = s
  BY DEF DecryptsInv
<1>1. CASE r \notin Busy(u) /\ r \notin Busy(u)'
  BY <1>1, DecryptsOthers
<1>2. CASE r \in Busy(u) \/ r \in Busy(u)'
  <2>1. AvatarStep(r)
    BY <1>2, AvatarPhases DEF Busy
  <2>2. \A s \in Busy(u)' : s = r
    BY <1>2, OnlyOne
  <2> QED
    BY <1>2, <2>1, <2>2, DecryptsOwn
<1> QED
  BY <1>1, <1>2

\* A reader holds at most the newest row, and what it will download is what the row
\* encrypts unless a request has put something else there since.
ReadersInv ==
    \A g \in Readers \ overtaken : \A x \in reading[g] :
        x.owner \notin shared \cup kept => objects[x.key] \in {x.file, NoFile}

LEMMA ReadersBeside ==
    ASSUME TypeOK, ReadersOK, ReadersInv, BesideReaders,
           NEW r \in Requests, AvatarStep(r) \/ AttachmentStep(r)
    PROVE  ReadersInv' /\ ReadersOK'
<1>1. reading' = reading
  BY DEF BesideReaders
<1>2. ASSUME NEW g \in Readers, g \notin overtaken', NEW x \in reading[g],
             x.owner \notin shared' \cup kept'
      PROVE  objects'[x.key] \in {x.file, NoFile}
  <2>1. g \notin overtaken /\ objects'[x.key] \in {objects[x.key], NoFile}
    BY <1>2 DEF BesideReaders
  <2>2. x.owner \in Users
    BY DEF ReadersOK, Media
  <2>3. x.owner \notin shared \cup kept
    BY <1>2, <2>2, UserMoves
  <2> QED
    BY <2>1, <2>3 DEF ReadersInv
<1>3. overtaken' \subseteq Readers
  BY DEF BesideReaders, ReadersOK
<1> QED
  BY <1>1, <1>2, <1>3 DEF ReadersInv, ReadersOK

LEMMA ReaderStep ==
    ASSUME TypeOK, ReadersOK, DecryptsInv, ReadersInv,
           NEW g \in Readers, GetAvatar(g) \/ DownloadAvatar(g)
    PROVE  ReadersInv' /\ ReadersOK'
<1> USE DEF avatarVars
<1>1. CASE GetAvatar(g)
  <2>0. PICK u \in Users :
          \E x \in NewestOf(u) : reading' = [reading EXCEPT ![g] = {x}]
    BY <1>1 DEF GetAvatar
  <2>1. PICK x \in NewestOf(u) : reading' = [reading EXCEPT ![g] = {x}]
    BY <2>0
  <2>2. UNCHANGED <<objects, shared, kept, overtaken>>
    BY <1>1 DEF GetAvatar
  <2>3. x \in AvatarsByOwner(u) /\ x \in Media /\ x.owner = u
    BY DEF NewestOf, Newest, AvatarsByOwner, TypeOK
  <2>4. u \notin shared \cup kept => objects[x.key] \in {x.file, NoFile}
    BY <2>3 DEF DecryptsInv
  <2>5. ReadersOK'
    BY <2>1, <2>2, <2>3 DEF ReadersOK
  <2>6. ASSUME NEW h \in Readers \ overtaken, NEW y \in reading'[h], y.owner \notin shared \cup kept
        PROVE  objects[y.key] \in {y.file, NoFile}
    <3>1. CASE h = g
      <4>1. y = x
        BY <2>1, <3>1 DEF ReadersOK
      <4> QED
        BY <2>3, <2>4, <2>6, <4>1
    <3>2. CASE h # g
      <4>1. y \in reading[h]
        BY <2>1, <3>2 DEF ReadersOK
      <4> QED
        BY <2>6, <4>1 DEF ReadersInv
    <3> QED
      BY <3>1, <3>2
  <2> QED
    BY <2>2, <2>5, <2>6 DEF ReadersInv
<1>2. CASE DownloadAvatar(g)
  <2>1. /\ reading' = [reading EXCEPT ![g] = {}] /\ overtaken' = overtaken \ {g}
        /\ UNCHANGED <<objects, shared, kept>>
    BY <1>2 DEF DownloadAvatar
  <2>2. ReadersOK'
    BY <2>1 DEF ReadersOK
  <2>3. \A h \in Readers : h = g \/ (reading'[h] = reading[h] /\ (h \in overtaken' <=> h \in overtaken))
    BY <2>1 DEF ReadersOK
  <2>4. reading'[g] = {}
    BY <2>1 DEF ReadersOK
  <2> QED
    BY <2>1, <2>2, <2>3, <2>4 DEF ReadersInv
<1> QED
  BY <1>1, <1>2

LEMMA DecryptsImplies ==
    ASSUME ReadersInv
    PROVE  AvatarDecrypts
  BY DEF ReadersInv, AvatarDecrypts, Answer, Decrypt, Download
--------------------------------------------------------------------------------
(***************************************************************************)
(* Row, object and URL of an avatar belong together.  While no call fails, *)
(* the one request of a user finds what the one before it has left, and    *)
(* its phase says how far it has brought them.                             *)
(***************************************************************************)
InS3(u) == {k \in AvatarKeys : k[2] = u /\ objects[k] # NoFile}
NoAvatar(u) == AvatarsByOwner(u) = {} /\ InS3(u) = {}
Whole(u, x) == AvatarsByOwner(u) = {x} /\ InS3(u) = {x.key} /\ objects[x.key] = x.file
RowOnly(u, x) == AvatarsByOwner(u) = {x} /\ InS3(u) = {}
HasAvatar(u) == \E x \in media : Whole(u, x)

Rest(u) ==
    \/ NoAvatar(u) /\ (u \notin avatarUrl \/ u \in closed)
    \/ HasAvatar(u) /\ u \in avatarUrl /\ u \notin closed

Phase(u, s) ==
    /\ req[s].pc # "soft" => u \notin closed
    /\ req[s].pc = "object" =>
         req[s].todo = AvatarsByOwner(u) /\ (NoAvatar(u) \/ HasAvatar(u))
    /\ req[s].pc = "row" => \E x \in media : RowOnly(u, x) /\ req[s].todo = {x}
    /\ req[s].pc \in {"put", "unurl", "soft"} => NoAvatar(u)
    /\ req[s].pc = "store" =>
         AvatarsByOwner(u) = {} /\ InS3(u) = {req[s].key} /\ objects[req[s].key] = s
    /\ req[s].pc # "undo"
    /\ req[s].pc = "url" => HasAvatar(u)
    /\ req[s].pc = "drop" => \E x \in media : Whole(u, x) /\ req[s].old = {x}
    /\ req[s].pc = "unrow" => \E x \in media : RowOnly(u, x) /\ req[s].old = {x}

WholeInv ==
    /\ kept \subseteq failed
    /\ \A u \in Users \ (shared \cup failed \cup late) :
        /\ \A s \in Busy(u) : Phase(u, s)
        /\ Busy(u) = {} => Rest(u)

\* What a user has stays as it is when another's request goes on.
LEMMA StaysWhole ==
    ASSUME TypeOK, Struct, NEW r \in Requests, AvatarStep(r) \/ AttachmentStep(r),
           NEW u \in Users, r \notin Busy(u), r \notin Busy(u)'
    PROVE  /\ AvatarsByOwner(u)' = AvatarsByOwner(u) /\ InS3(u)' = InS3(u)
           /\ NoAvatar(u) => NoAvatar(u)'
           /\ \A x \in media : Whole(u, x) => x \in media' /\ Whole(u, x)'
           /\ \A x \in media : RowOnly(u, x) => x \in media' /\ RowOnly(u, x)'
<1>1. /\ AvatarsByOwner(u)' = AvatarsByOwner(u)
      /\ \A e \in Extensions : objects'[<<"avatars", u, e>>] = objects[<<"avatars", u, e>>]
  BY AvatarFrame
<1>2. \A k \in AvatarKeys : k[2] = u => objects'[k] = objects[k]
  BY <1>1, AvatarKey
<1>3. InS3(u)' = InS3(u)
  BY <1>2 DEF InS3
<1>4. ASSUME NEW x, AvatarsByOwner(u) = {x}
      PROVE  x \in media' /\ objects'[x.key] = objects[x.key]
  <2>1. x \in AvatarsByOwner(u) /\ x \in AvatarsByOwner(u)'
    BY <1>1, <1>4
  <2>2. PICK e \in Extensions : x.key = <<"avatars", u, e>>
    BY <2>1, AvatarKeyOfRow DEF Struct
  <2>3. x \in media'
    BY <2>1 DEF AvatarsByOwner
  <2> QED
    BY <1>1, <2>2, <2>3
<1> QED
  BY <1>1, <1>3, <1>4 DEF NoAvatar, Whole, RowOnly

LEMMA WholeOthers ==
    ASSUME TypeOK, Struct, WholeInv, NEW r \in Requests, AvatarStep(r) \/ AttachmentStep(r),
           NEW u \in Users, u \notin shared' \cup failed' \cup late',
           r \notin Busy(u), r \notin Busy(u)'
    PROVE  /\ \A s \in Busy(u)' : Phase(u, s)'
           /\ Busy(u)' = {} => Rest(u)'
<1>1. /\ u \notin shared \cup failed \cup late
      /\ u \in avatarUrl' <=> u \in avatarUrl
      /\ u \in closed' <=> u \in closed
  BY UserMoves
<1>2. Busy(u)' = Busy(u)
  BY AvatarFrame
<1>3. HasAvatar(u) => HasAvatar(u)'
  BY StaysWhole DEF HasAvatar
<1>4. Rest(u) => Rest(u)'
  BY <1>1, <1>3, StaysWhole DEF Rest
<1>5. ASSUME NEW s \in Busy(u), Phase(u, s) PROVE Phase(u, s)'
  <2>1. s \in Requests /\ req'[s] = req[s] /\ req[s].owner = u
    BY <1>5, PhaseMoves DEF Busy
  <2>2. req[s].pc = "store" => objects'[req[s].key] = objects[req[s].key]
    <3>1. HasRead(s, media, req)
      BY <2>1 DEF Struct
    <3>2. \A e \in Extensions : objects'[<<"avatars", u, e>>] = objects[<<"avatars", u, e>>]
      BY AvatarFrame
    <3> QED
      BY <2>1, <3>1, <3>2 DEF HasRead, Upload1
  <2> QED
    BY <1>1, <1>3, <1>5, <2>1, <2>2, StaysWhole DEF Phase
<1> QED
  BY <1>1, <1>2, <1>4, <1>5 DEF WholeInv

\* What a step makes of its own user's avatar.
LEMMA Untouched ==
    ASSUME NEW u, media' = media, objects' = objects
    PROVE  /\ AvatarsByOwner(u)' = AvatarsByOwner(u)
           /\ NoAvatar(u)' <=> NoAvatar(u)
           /\ HasAvatar(u)' <=> HasAvatar(u)
           /\ \A x \in media : Whole(u, x)' <=> Whole(u, x)
           /\ \A x \in media : RowOnly(u, x)' <=> RowOnly(u, x)
  BY DEF NoAvatar, HasAvatar, Whole, RowOnly, InS3, AvatarsByOwner

LEMMA ObjectGone ==
    ASSUME TypeOK, NEW u, NEW x \in media, Whole(u, x), Delete(x.key), media' = media
    PROVE  RowOnly(u, x)'
<1>1. x.key \in Keys /\ objects \in [Keys -> Files \cup {NoFile}] /\ AvatarKeys \subseteq Keys
  BY DEF TypeOK, Media, Keys
<1>2. \A k \in AvatarKeys : k[2] = u /\ objects[k] # NoFile => k = x.key
  BY DEF Whole, InS3
<1>3. \A k \in AvatarKeys : k[2] = u => objects'[k] = NoFile
  BY <1>1, <1>2 DEF Delete
<1>4. AvatarsByOwner(u)' = {x}
  BY DEF Whole, AvatarsByOwner
<1> QED
  BY <1>3, <1>4 DEF RowOnly, InS3

LEMMA RowGone ==
    ASSUME NEW u, NEW x, RowOnly(u, x), DeleteMediaFile(x.file), objects' = objects
    PROVE  NoAvatar(u)'
<1>1. \A y \in media : y.owner = u /\ y.key \in AvatarKeys => y = x
  BY DEF RowOnly, AvatarsByOwner
<1>2. AvatarsByOwner(u)' = {}
  BY <1>1 DEF AvatarsByOwner, DeleteMediaFile
<1>3. InS3(u)' = InS3(u)
  BY DEF InS3
<1> QED
  BY <1>2, <1>3 DEF NoAvatar, RowOnly

LEMMA ObjectCome ==
    ASSUME TypeOK, NEW r \in Requests, NEW k \in AvatarKeys, NoAvatar(k[2]),
           Upload(k, r), media' = media
    PROVE  /\ AvatarsByOwner(k[2])' = {} /\ InS3(k[2])' = {k} /\ objects'[k] = r
<1>1. objects \in [Keys -> Files \cup {NoFile}] /\ AvatarKeys \subseteq Keys
  BY DEF TypeOK, Keys
<1>2. r # NoFile
  BY StorageAssumption
<1>3. objects'[k] = r /\ \A j \in AvatarKeys \ {k} : objects'[j] = objects[j]
  BY <1>1 DEF Upload
<1>4. \A j \in AvatarKeys : j[2] = k[2] => objects[j] = NoFile
  BY DEF NoAvatar, InS3
<1>5. InS3(k[2])' = {k}
  BY <1>2, <1>3, <1>4 DEF InS3
<1> QED
  BY <1>3, <1>5 DEF NoAvatar, AvatarsByOwner

LEMMA RowCome ==
    ASSUME NEW r, NEW u, NEW k \in AvatarKeys, AvatarsByOwner(u) = {}, InS3(u) = {k},
           objects[k] = r, CreateMediaFile(r, u, k), objects' = objects
    PROVE  HasAvatar(u)'
<1> DEFINE y == [file |-> r, owner |-> u, key |-> k, at |-> Now(u)]
<1>1. media' = media \cup {y}
  BY DEF CreateMediaFile
<1> HIDE DEF y
<1>2. y.file = r /\ y.owner = u /\ y.key = k
  BY DEF y
<1>3. y \in media' /\ AvatarsByOwner(u)' = {y}
  BY <1>1, <1>2 DEF AvatarsByOwner
<1>4. InS3(u)' = {k}
  BY DEF InS3
<1>5. \E z \in media' : AvatarsByOwner(u)' = {z} /\ InS3(u)' = {z.key} /\ objects'[z.key] = z.file
  BY <1>2, <1>3, <1>4
<1> QED
  BY <1>5 DEF HasAvatar, Whole

LEMMA WholeOwn ==
    ASSUME TypeOK, Struct, OneBusy, WholeInv, NEW r \in Requests, AvatarStep(r),
           NEW u \in Users, u \notin shared' \cup failed' \cup late', r \in Busy(u) \/ r \in Busy(u)'
    PROVE  /\ r \in Busy(u)' => Phase(u, r)'
           /\ r \notin Busy(u)' => Rest(u)'
<1> USE DEF At
<1>0. /\ req \in [Requests -> Request] /\ req[r] \in Request
      /\ u \notin shared /\ u \notin failed /\ u \notin late
  BY UserMoves DEF TypeOK
<1>1. req[r].pc \in AvatarWork => req[r].owner = u /\ r \in Busy(u) /\ Phase(u, r)
  <2>1. req[r].pc \in AvatarWork => req[r].owner = u /\ r \in Busy(u)
    BY BusyMoves DEF Busy, AvatarWork
  <2> QED
    BY <1>0, <2>1 DEF WholeInv
<1>2. req[r].pc = "idle" => Rest(u)
  <2>1. req[r].pc = "idle" => r \notin Busy(u)
    BY DEF Busy, AvatarWork
  <2> QED
    BY <1>0, <2>1, OnlyOne DEF WholeInv
<1>3. ASSUME End(r) PROVE r \notin Busy(u)'
  BY <1>0, <1>3 DEF End, Done, Busy, AvatarWork
<1>4. ASSUME NEW p, Goto(r, p)
      PROVE  /\ req'[r].pc = p
             /\ req[r].pc \in {"object", "row"} => req'[r].todo = req[r].todo
             /\ req[r].pc \in Upload1 => req'[r].key = req[r].key
             /\ req[r].pc \in Deletion => req'[r].old = req[r].old
  BY <1>0, <1>4 DEF Goto, Request, Idle, Done, Upload1, Deletion
<1>5. ASSUME Fault(u) PROVE FALSE
  BY <1>5 DEF Fault
<1>6. CASE UploadAvatar(r)
  <2>1. PICK v \in Users, e \in Extensions : BeginUpload(r, v, e)
    BY <1>6 DEF UploadAvatar
  <2>2. /\ req[r].pc = "idle" /\ UNCHANGED <<media, objects, closed>>
        /\ v \in failed' \/ req'[r].pc = "object"
        /\ req'[r].pc = "object" => req'[r].todo = AvatarsByOwner(v)
        /\ req'[r].owner = v /\ (v \in closed => v \in late')
    BY <1>0, <1>6, <2>1 DEF UploadAvatar, BeginUpload, Start, Fault
  <2>3. v = u
    BY <2>2 DEF Busy, AvatarWork
  <2>4. req'[r].pc = "object" /\ req'[r].todo = AvatarsByOwner(u) /\ u \notin closed
    BY <2>2, <2>3
  <2>5. NoAvatar(u)' \/ HasAvatar(u)'
    BY <1>2, <2>2, Untouched DEF Rest
  <2>6. Phase(u, r)'
    BY <2>2, <2>4, <2>5, Untouched DEF Phase
  <2> QED
    BY <2>4, <2>6, <2>2, <2>3 DEF Busy, AvatarWork
<1>7. CASE NothingOld(r)
  <2>1. /\ req'[r] = [pc |-> "put", owner |-> req[r].owner, key |-> req[r].key]
        /\ UNCHANGED <<media, objects, closed>> /\ req[r].pc = "object" /\ req[r].todo = {}
    BY <1>0, <1>7 DEF NothingOld, Start, avatarVars
  <2>2. Phase(u, r) /\ req[r].owner = u
    BY <1>1, <2>1 DEF AvatarWork
  <2>3. NoAvatar(u) /\ u \notin closed
    BY <2>1, <2>2 DEF Phase, HasAvatar, Whole
  <2>4. Phase(u, r)'
    BY <2>1, <2>3, Untouched DEF Phase
  <2> QED
    BY <2>1, <2>2, <2>4 DEF Busy, AvatarWork
<1>8. CASE DeleteOldObject(r)
  <2>1. req[r].pc = "object" /\ media' = media /\ closed' = closed /\ Goto(r, "row")
    BY <1>8 DEF DeleteOldObject
  <2>2. req'[r].pc = "row" /\ req'[r].todo = req[r].todo
    BY <1>4, <2>1
  <2>3. Phase(u, r) /\ req[r].owner = u /\ r \in Busy(u)
    BY <1>1, <2>1 DEF AvatarWork
  <2>4. PICK x \in req[r].todo : Delete(x.key)
    BY <1>5, <1>8, <2>3 DEF DeleteOldObject, Newest
  <2>5. x \in media /\ Whole(u, x) /\ req[r].todo = {x}
    BY <2>1, <2>3, <2>4 DEF Phase, NoAvatar, HasAvatar, Whole
  <2>6. RowOnly(u, x)'
    BY <2>1, <2>4, <2>5, ObjectGone
  <2>7. Phase(u, r)'
    BY <2>1, <2>2, <2>3, <2>5, <2>6 DEF Phase
  <2>8. r \in Busy(u)'
    BY <2>1, <2>2, <2>3, AvatarPhases DEF Busy, AvatarWork
  <2> QED
    BY <2>7, <2>8
<1>9. CASE DeleteOldRow(r)
  <2>1. req[r].pc = "row" /\ objects' = objects /\ closed' = closed
    BY <1>9 DEF DeleteOldRow
  <2>2. Phase(u, r) /\ req[r].owner = u
    BY <1>1, <2>1 DEF AvatarWork
  <2>3. PICK x \in req[r].todo :
          /\ DeleteMediaFile(x.file)
          /\ req' = [req EXCEPT ![r].pc = "object", ![r].todo = @ \ {x}]
    BY <1>5, <1>9, <2>2 DEF DeleteOldRow, Newest
  <2>4. req'[r] = [req[r] EXCEPT !.pc = "object", !.todo = @ \ {x}]
    BY <1>0, <2>3
  <2>5. /\ req'[r].pc = "object" /\ req'[r].todo = req[r].todo \ {x}
        /\ req'[r].owner = req[r].owner
    BY <1>0, <2>1, <2>4 DEF Request, Idle, Done
  <2>6. RowOnly(u, x) /\ req[r].todo = {x} /\ u \notin closed
    BY <2>1, <2>2, <2>3 DEF Phase
  <2>7. NoAvatar(u)'
    BY <2>1, <2>3, <2>6, RowGone
  <2>8. req'[r].todo = {} /\ AvatarsByOwner(u)' = {}
    BY <2>5, <2>6, <2>7 DEF NoAvatar
  <2>9. Phase(u, r)'
    BY <2>1, <2>5, <2>6, <2>7, <2>8 DEF Phase
  <2> QED
    BY <2>2, <2>5, <2>9 DEF Busy, AvatarWork
<1>10. CASE PutAvatar(r)
  <2>1. req[r].pc = "put" /\ media' = media /\ closed' = closed
    BY <1>10 DEF PutAvatar
  <2>2. Phase(u, r) /\ req[r].owner = u
    BY <1>1, <2>1 DEF AvatarWork
  <2>3. Upload(req[r].key, r) /\ Goto(r, "store")
    BY <1>5, <1>10, <2>2 DEF PutAvatar
  <2>4. PICK k \in AvatarKeys : k = req[r].key /\ k[2] = u
    <3>1. HasRead(r, media, req)
      BY DEF Struct
    <3>2. PICK e \in Extensions : req[r].key = <<"avatars", u, e>>
      BY <2>1, <2>2, <3>1 DEF HasRead, Upload1
    <3> QED
      BY <3>2, MakeAvatarKey
  <2>5. AvatarsByOwner(u)' = {} /\ InS3(u)' = {k} /\ objects'[k] = r
    <3>1. NoAvatar(k[2]) /\ Upload(k, r)
      BY <2>1, <2>2, <2>3, <2>4 DEF Phase
    <3> QED
      BY <2>1, <2>4, <3>1, ObjectCome
  <2>6. req'[r].pc = "store" /\ req'[r].key = k
    BY <1>4, <2>1, <2>3, <2>4 DEF Upload1
  <2>7. u \notin closed'
    BY <2>1, <2>2 DEF Phase
  <2>8. Phase(u, r)'
    BY <2>5, <2>6, <2>7 DEF Phase
  <2>9. r \in Busy(u)'
    BY <2>1, <2>2, <2>6, AvatarPhases DEF Busy, AvatarWork
  <2> QED
    BY <2>8, <2>9
<1>11. CASE StoreAvatar(r)
  <2>1. req[r].pc = "store" /\ objects' = objects /\ closed' = closed
    BY <1>11 DEF StoreAvatar
  <2>2. Phase(u, r) /\ req[r].owner = u
    BY <1>1, <2>1 DEF AvatarWork
  <2>3. CreateMediaFile(r, u, req[r].key) /\ Goto(r, "url")
    BY <1>5, <1>11, <2>2 DEF StoreAvatar
  <2>4. /\ AvatarsByOwner(u) = {} /\ InS3(u) = {req[r].key} /\ objects[req[r].key] = r
        /\ u \notin closed
    BY <2>1, <2>2 DEF Phase
  <2>5. PICK k \in AvatarKeys : k = req[r].key
    BY <2>1, Fields DEF Upload1
  <2>6. HasAvatar(u)'
    BY <2>1, <2>3, <2>4, <2>5, RowCome
  <2>7. req'[r].pc = "url"
    BY <1>4, <2>3
  <2>8. Phase(u, r)'
    BY <2>1, <2>4, <2>6, <2>7 DEF Phase
  <2>9. r \in Busy(u)'
    BY <2>1, <2>2, <2>7, AvatarPhases DEF Busy, AvatarWork
  <2> QED
    BY <2>8, <2>9
<1>12. CASE UndoAvatar(r)
  BY <1>1, <1>12 DEF UndoAvatar, Phase, AvatarWork
<1>13. CASE StoreAvatarUrl(r)
  <2>1. req[r].pc = "url" /\ UNCHANGED <<media, objects, closed>> /\ End(r)
    BY <1>13 DEF StoreAvatarUrl
  <2>2. HasAvatar(u) /\ u \notin closed /\ req[r].owner = u
    BY <1>1, <2>1 DEF Phase, AvatarWork
  <2>3. u \in avatarUrl'
    BY <1>5, <1>13, <2>2 DEF StoreAvatarUrl, UpdateUserAvatar
  <2>4. Rest(u)'
    BY <2>1, <2>2, <2>3, Untouched DEF Rest
  <2> QED
    BY <1>3, <2>1, <2>4
<1>14. CASE DeleteAvatar(r) \/ DeleteCurrentUser(r)
  <2>1. PICK v \in Users, c \in BOOLEAN :
          BeginDeletion(r, v, c) /\ (c = FALSE => NewestOf(v) # {}) /\ req[r].pc = "idle"
    BY <1>14 DEF DeleteAvatar, DeleteCurrentUser
  <2>2. /\ UNCHANGED <<media, objects, closed>>
        /\ req'[r] = [pc |-> IF NewestOf(v) = {} THEN "soft" ELSE "drop", owner |-> v,
                      closing |-> c, old |-> NewestOf(v)]
    BY <1>0, <2>1 DEF BeginDeletion, Start
  <2>3. v = u
    BY <2>1, <2>2 DEF Busy, AvatarWork
  <2>4. CASE NoAvatar(u)
    <3>1. NewestOf(u) = {}
      BY <2>4 DEF NoAvatar, NewestOf, Newest
    <3>2. req'[r].pc = "soft"
      BY <2>2, <2>3, <3>1
    <3>3. Phase(u, r)'
      BY <2>2, <2>4, <3>2, Untouched DEF Phase
    <3> QED
      BY <2>2, <2>3, <3>2, <3>3 DEF Busy, AvatarWork
  <2>5. CASE HasAvatar(u) /\ u \notin closed
    <3>1. PICK x \in media : Whole(u, x)
      BY <2>5 DEF HasAvatar
    <3>2. x.at \in Nat
      BY DEF TypeOK, Media
    <3>3. NewestOf(u) = {x}
      BY <3>1, <3>2 DEF Whole, NewestOf, Newest
    <3>4. req'[r].pc = "drop" /\ req'[r].old = {x} /\ req'[r].owner = u
      BY <2>2, <2>3, <3>3
    <3>5. Phase(u, r)'
      BY <2>2, <2>5, <3>1, <3>4, Untouched DEF Phase
    <3> QED
      BY <3>4, <3>5 DEF Busy, AvatarWork
  <2> QED
    BY <1>2, <2>1, <2>4, <2>5 DEF Rest
<1>15. CASE At(r, "drop") /\ DropObject(r)
  <2>1. media' = media /\ closed' = closed /\ Phase(u, r) /\ req[r].owner = u
    BY <1>1, <1>15 DEF DropObject, AvatarWork
  <2>2. PICK x \in req[r].old : Delete(x.key) /\ Goto(r, "unrow")
    BY <1>5, <1>15, <2>1 DEF DropObject
  <2>3. x \in media /\ Whole(u, x) /\ req[r].old = {x} /\ u \notin closed
    BY <1>15, <2>1, <2>2 DEF Phase
  <2>4. req'[r].pc = "unrow" /\ req'[r].old = req[r].old
    BY <1>4, <1>15, <2>2 DEF Deletion
  <2>5. RowOnly(u, x)'
    BY <2>1, <2>2, <2>3, ObjectGone
  <2>6. Phase(u, r)'
    BY <2>1, <2>3, <2>4, <2>5 DEF Phase
  <2>7. r \in Busy(u)'
    BY <1>15, <2>1, <2>4, AvatarPhases DEF Busy, AvatarWork
  <2> QED
    BY <2>6, <2>7
<1>16. CASE At(r, "unrow") /\ DropRow(r)
  <2>1. objects' = objects /\ closed' = closed /\ Phase(u, r) /\ req[r].owner = u
    BY <1>1, <1>16 DEF DropRow, AvatarWork
  <2>2. PICK x \in req[r].old :
          DeleteMediaFile(x.file) /\ Goto(r, IF req[r].closing THEN "soft" ELSE "unurl")
    BY <1>5, <1>16, <2>1 DEF DropRow
  <2>3. RowOnly(u, x) /\ u \notin closed
    BY <1>16, <2>1, <2>2 DEF Phase
  <2>4. req'[r].pc \in {"soft", "unurl"}
    BY <1>4, <2>2
  <2>5. NoAvatar(u)'
    BY <2>1, <2>2, <2>3, RowGone
  <2>6. Phase(u, r)'
    BY <2>1, <2>3, <2>4, <2>5 DEF Phase
  <2>7. r \in Busy(u)'
    BY <1>16, <2>1, <2>4, AvatarPhases DEF Busy, AvatarWork
  <2> QED
    BY <2>6, <2>7
<1>17. CASE DropAvatarUrl(r)
  <2>1. req[r].pc = "unurl" /\ UNCHANGED <<media, objects, closed>> /\ End(r)
    BY <1>17 DEF DropAvatarUrl
  <2>2. NoAvatar(u) /\ u \notin closed /\ req[r].owner = u
    BY <1>1, <2>1 DEF Phase, AvatarWork
  <2>3. u \notin avatarUrl'
    BY <1>5, <1>17, <2>2 DEF DropAvatarUrl, RemoveUserAvatar
  <2>4. Rest(u)'
    BY <2>1, <2>2, <2>3, Untouched DEF Rest
  <2> QED
    BY <1>3, <2>1, <2>4
<1>18. CASE SoftDeleteUser(r)
  <2>1. req[r].pc = "soft" /\ UNCHANGED <<media, objects>> /\ End(r)
    BY <1>18 DEF SoftDeleteUser
  <2>2. NoAvatar(u) /\ req[r].owner = u
    BY <1>1, <2>1 DEF Phase, AvatarWork
  <2>3. u \in closed'
    BY <1>5, <1>18, <2>2 DEF SoftDeleteUser
  <2>4. Rest(u)'
    BY <2>1, <2>2, <2>3, Untouched DEF Rest
  <2> QED
    BY <1>3, <2>1, <2>4
<1> QED
  BY <1>6, <1>7, <1>8, <1>9, <1>10, <1>11, <1>12, <1>13, <1>14, <1>15, <1>16, <1>17, <1>18
     DEF AvatarStep, DropAvatar

LEMMA WholeStep ==
    ASSUME TypeOK, Struct, OneBusy, WholeInv,
           NEW r \in Requests, AvatarStep(r) \/ AttachmentStep(r)
    PROVE  WholeInv'
<1>1. ASSUME NEW u \in kept' PROVE u \in failed'
  <2>1. u \in Users
    BY AvatarTypes, AttachmentTypes DEF TypeOK
  <2> QED
    BY <2>1, <1>1, UserMoves DEF WholeInv
<1>2. ASSUME NEW u \in Users, u \notin shared' \cup failed' \cup late'
      PROVE  /\ \A s \in Busy(u)' : Phase(u, s)'
             /\ Busy(u)' = {} => Rest(u)'
  <2>1. CASE r \notin Busy(u) /\ r \notin Busy(u)'
    BY <1>2, <2>1, WholeOthers
  <2>2. CASE r \in Busy(u) \/ r \in Busy(u)'
    <3>1. AvatarStep(r)
      BY <2>2, AvatarPhases DEF Busy
    <3>2. \A s \in Busy(u)' : s = r
      BY <1>2, <2>2, OnlyOne
    <3>3. /\ r \in Busy(u)' => Phase(u, r)'
          /\ r \notin Busy(u)' => Rest(u)'
      BY <1>2, <2>2, <3>1, WholeOwn
    <3> QED
      BY <3>2, <3>3
  <2> QED
    BY <2>1, <2>2
<1> QED
  BY <1>1, <1>2 DEF WholeInv

LEMMA WholeImplies ==
    ASSUME WholeInv
    PROVE  AvatarWhole
<1> SUFFICES ASSUME NEW u \in Users, u \notin shared \cup failed \cup late, Busy(u) = {}
             PROVE  \/ /\ AvatarsByOwner(u) = {} /\ InS3(u) = {}
                       /\ u \notin avatarUrl \/ u \in closed
                    \/ \E x \in media :
                         /\ AvatarsByOwner(u) = {x} /\ InS3(u) = {x.key}
                         /\ objects[x.key] = x.file
                         /\ u \in avatarUrl /\ u \notin closed
  BY DEF AvatarWhole, InS3
<1> QED
  BY DEF WholeInv, Rest, NoAvatar, HasAvatar, Whole
--------------------------------------------------------------------------------
(* The first state. *)

LEMMA InitRows ==
    ASSUME Init
    PROVE  /\ \A x \in media :
                \/ x.file = OldAvatar /\ AvatarRow(x, x.owner) /\ objects[x.key] = OldAvatar
                \/ /\ x.file = OldAttachment /\ AttachmentRow(x)
                   /\ objects[x.key] = OldAttachment
                   /\ \E a \in attachments : x.key = <<"attachments", a.message, a.file>>
           /\ \A x, y \in media : x.file = y.file => x = y
           /\ \A k \in AvatarKeys : objects[k] # NoFile =>
                \E x \in media : x.key = k /\ x.owner = k[2] /\ x.file = OldAvatar
           /\ \A k \in AttachmentKeys : objects[k] # NoFile =>
                /\ k[3] = OldAttachment /\ objects[k] = OldAttachment
                /\ \E a \in attachments : a.message = k[2] /\ a.file = k[3]
           /\ \A a \in attachments : /\ a.file = OldAttachment
                                     /\ \E x \in media : /\ x.file = OldAttachment
                                                         /\ x.key = <<"attachments", a.message, a.file>>
           /\ \A a, b \in attachments : a = b
           /\ \A u \in Users : u \in avatarUrl <=> \E x \in media : x.file = OldAvatar /\ x.owner = u
<1>1. PICK avatar \in SUBSET (Users \X Extensions), attached \in SUBSET (Users \X Messages) :
        /\ \A p, q \in avatar : p = q
        /\ \A p, q \in attached : p = q
        /\ objects = [k \in Keys |->
             IF \E p \in avatar : k = <<"avatars", p[1], p[2]>> THEN OldAvatar
             ELSE IF \E p \in attached : k = <<"attachments", p[2], OldAttachment>>
             THEN OldAttachment ELSE NoFile]
        /\ media = {[file |-> OldAvatar, owner |-> p[1],
                     key |-> <<"avatars", p[1], p[2]>>, at |-> 1] : p \in avatar}
             \cup {[file |-> OldAttachment, owner |-> p[1],
                    key |-> <<"attachments", p[2], OldAttachment>>, at |-> 1] : p \in attached}
        /\ attachments = {[file |-> OldAttachment, message |-> p[2]] : p \in attached}
        /\ avatarUrl = {p[1] : p \in avatar}
  BY Beginning
<1> DEFINE row1(p) == [file |-> OldAvatar, owner |-> p[1],
                       key |-> <<"avatars", p[1], p[2]>>, at |-> 1]
           row2(p) == [file |-> OldAttachment, owner |-> p[1],
                       key |-> <<"attachments", p[2], OldAttachment>>, at |-> 1]
<1>2. \A x \in media : (\E p \in avatar : x = row1(p)) \/ (\E p \in attached : x = row2(p))
  BY <1>1
<1>3. /\ \A p \in avatar : row1(p) \in media
      /\ \A p \in attached : row2(p) \in media
  BY <1>1
<1> DEFINE link(p) == [file |-> OldAttachment, message |-> p[2]]
<1>12. \A p \in attached : link(p) \in attachments /\ p[2] \in Messages
  BY <1>1
<1>13. \A a \in attachments : \E p \in attached : a = link(p)
  BY <1>1
<1>4. OldAvatar # OldAttachment /\ OldAttachment \in Files /\ NoFile \notin {OldAvatar, OldAttachment}
  BY StorageAssumption DEF Files
<1>5. ASSUME NEW x \in media
      PROVE  \/ x.file = OldAvatar /\ AvatarRow(x, x.owner) /\ objects[x.key] = OldAvatar
             \/ /\ x.file = OldAttachment /\ AttachmentRow(x)
                /\ objects[x.key] = OldAttachment
                /\ \E a \in attachments : x.key = <<"attachments", a.message, a.file>>
  <2>1. CASE \E p \in avatar : x = row1(p)
    <3>1. PICK p \in avatar : x = row1(p)
      BY <2>1
    <3>2. x.key = <<"avatars", p[1], p[2]>> /\ p[1] \in Users /\ p[2] \in Extensions
      BY <3>1
    <3>3. objects[x.key] = OldAvatar
      BY <1>1, <3>2, MakeAvatarKey
    <3> QED
      BY <3>1, <3>2, <3>3 DEF AvatarRow
  <2>2. CASE \E p \in attached : x = row2(p)
    <3>1. PICK p \in attached : x = row2(p)
      BY <2>2
    <3>2. x.key = <<"attachments", p[2], OldAttachment>> /\ p[2] \in Messages
      BY <3>1
    <3>3. objects[x.key] = OldAttachment
      BY <1>1, <1>4, <3>2, MakeAttachmentKey
    <3>4. \E a \in attachments : a.message = p[2] /\ a.file = OldAttachment
      <4>1. link(p) \in attachments /\ link(p).message = p[2] /\ link(p).file = OldAttachment
        BY <1>12
      <4> QED
        BY <4>1
    <3> QED
      BY <3>1, <3>2, <3>3, <3>4 DEF AttachmentRow
  <2> QED
    BY <1>2, <2>1, <2>2
<1>6. \A x, y \in media : x.file = y.file => x = y
  BY <1>1, <1>2, <1>4
<1>7. ASSUME NEW k \in AvatarKeys, objects[k] # NoFile
      PROVE  \E x \in media : x.key = k /\ x.owner = k[2] /\ x.file = OldAvatar
  <2>1. PICK p \in avatar : k = <<"avatars", p[1], p[2]>>
    BY <1>1, <1>4, <1>7, AvatarKey, MakeAttachmentKey
  <2>2. row1(p) \in media /\ row1(p).key = k /\ row1(p).owner = k[2] /\ row1(p).file = OldAvatar
    BY <1>3, <2>1
  <2> QED
    BY <2>2
<1>8. ASSUME NEW k \in AttachmentKeys, objects[k] # NoFile
      PROVE  /\ k[3] = OldAttachment /\ objects[k] = OldAttachment
             /\ \E a \in attachments : a.message = k[2] /\ a.file = k[3]
  <2>1. k \in Keys /\ k \notin AvatarKeys
    BY DEF Keys, AvatarKeys, AttachmentKeys
  <2>2. ~\E p \in avatar : k = <<"avatars", p[1], p[2]>>
    BY <2>1, MakeAvatarKey
  <2>3. objects[k] = OldAttachment /\ \E p \in attached : k = <<"attachments", p[2], OldAttachment>>
    BY <1>1, <1>8, <2>1, <2>2
  <2>4. PICK p \in attached : k = <<"attachments", p[2], OldAttachment>>
    BY <2>3
  <2>5. link(p) \in attachments /\ link(p).message = k[2] /\ link(p).file = k[3]
    BY <1>12, <2>4
  <2> QED
    BY <2>3, <2>4, <2>5
<1>9. ASSUME NEW a \in attachments
      PROVE  /\ a.file = OldAttachment
             /\ \E x \in media : /\ x.file = OldAttachment
                                 /\ x.key = <<"attachments", a.message, a.file>>
  <2>1. PICK p \in attached : a = link(p)
    BY <1>13
  <2>2. row2(p) \in media /\ row2(p).file = OldAttachment
        /\ row2(p).key = <<"attachments", a.message, a.file>>
    BY <1>3, <2>1
  <2> QED
    BY <2>1, <2>2
<1>10. \A a, b \in attachments : a = b
  BY <1>1
<1>11. \A u \in Users : u \in avatarUrl <=> \E x \in media : x.file = OldAvatar /\ x.owner = u
  <2>1. ASSUME NEW u \in Users, u \in avatarUrl
        PROVE  \E x \in media : x.file = OldAvatar /\ x.owner = u
    <3>1. PICK p \in avatar : u = p[1]
      BY <1>1, <2>1
    <3>2. row1(p) \in media /\ row1(p).file = OldAvatar /\ row1(p).owner = u
      BY <1>3, <3>1
    <3> QED
      BY <3>2
  <2>2. ASSUME NEW x \in media, x.file = OldAvatar PROVE x.owner \in avatarUrl
    <3>1. PICK p \in avatar : x = row1(p)
      BY <1>2, <1>4, <2>2
    <3> QED
      BY <1>1, <3>1
  <2> QED
    BY <2>1, <2>2
<1> QED
  BY <1>5, <1>6, <1>7, <1>8, <1>9, <1>10, <1>11

LEMMA InitIdle ==
    ASSUME Init
    PROVE  /\ \A s \in Requests : req[s].pc = "idle"
           /\ \A u \in Users : Busy(u) = {}
  BY DEF Init, Idle, Busy, AvatarWork

LEMMA InitFiles == Init => Struct /\ ReadableInv /\ OneHome /\ Cleaned /\ NoOrphans
<1> SUFFICES ASSUME Init PROVE Struct /\ ReadableInv /\ OneHome /\ Cleaned /\ NoOrphans
  OBVIOUS
<1>0. OldAvatar \notin Requests /\ OldAttachment \notin Requests /\ OldAvatar # OldAttachment
  BY StorageAssumption
<1>1. \A s \in Requests : req[s].pc = "idle"
  BY InitIdle
<1>2. Struct
  <2>1. RowsOK
    BY <1>0, InitRows DEF RowsOK, Stored
  <2>2. AttachedOK
    BY <1>0, InitRows DEF AttachedOK, Linked
  <2>3. \A s \in Requests : HasRead(s, media, req)
    BY <1>1 DEF HasRead, Upload1, Deletion, Detaching
  <2> QED
    BY <2>1, <2>2, <2>3 DEF Struct
<1>3. ReadableInv
  <2>1. ASSUME NEW a \in attachments
        PROVE  objects[<<"attachments", a.message, a.file>>] = a.file
    <3>1. a.file = OldAttachment
      BY InitRows
    <3>2. PICK x \in media : x.file = OldAttachment /\ x.key = <<"attachments", a.message, a.file>>
      BY InitRows
    <3>3. objects[x.key] = OldAttachment
      BY <1>0, <3>2, InitRows
    <3> QED
      BY <3>1, <3>2, <3>3
  <2> QED
    BY <1>1, <2>1 DEF ReadableInv
<1>4. ASSUME NEW m \in Messages, NEW f \in Files, Trace(m, f, objects, media, req)
      PROVE  f = OldAttachment /\ \E a \in attachments : a.message = m /\ a.file = f
  <2> DEFINE k == <<"attachments", m, f>>
  <2>0. k \in AttachmentKeys /\ k \notin AvatarKeys
    BY MakeAttachmentKey
  <2>1. CASE objects[k] # NoFile
    <3>1. k[3] = OldAttachment /\ \E a \in attachments : a.message = k[2] /\ a.file = k[3]
      BY <2>0, <2>1, InitRows
    <3> QED
      BY <3>1
  <2>2. CASE \E x \in media : x.key = k
    <3>1. PICK x \in media : x.key = k
      BY <2>2
    <3>2. ~AvatarRow(x, x.owner)
      <4>1. x.owner \in Users
        BY InitTypes DEF TypeOK, Media
      <4> QED
        BY <2>0, <3>1, <4>1, MakeAvatarKey DEF AvatarRow
    <3>3. PICK a \in attachments : x.key = <<"attachments", a.message, a.file>>
      BY <3>2, InitRows
    <3>4. a.file = OldAttachment
      BY InitRows
    <3> QED
      BY <3>1, <3>3, <3>4
  <2> QED
    BY <1>1, <1>4, <2>1, <2>2 DEF Trace, Attaching, Detaching
<1>5. OneHome
  <2>1. ASSUME NEW m \in Messages, NEW n \in Messages, NEW f \in Files,
               Trace(m, f, objects, media, req), Trace(n, f, objects, media, req)
        PROVE  m = n
    <3>1. PICK a \in attachments : a.message = m
      BY <1>4, <2>1
    <3>2. PICK b \in attachments : b.message = n
      BY <1>4, <2>1
    <3>3. a = b
      BY InitRows
    <3> QED
      BY <3>1, <3>2, <3>3
  <2>2. \A s \in Requests, m \in Messages : ~Trace(m, s, objects, media, req)
    BY <1>0, <1>4 DEF Files
  <2> QED
    BY <2>1, <2>2 DEF OneHome
<1>6. Cleaned
  BY <1>1 DEF Cleaned
<1>7. NoOrphans
  <2>1. ASSUME NEW m \in Messages, NEW f \in Files,
               \/ objects[<<"attachments", m, f>>] # NoFile
               \/ \E x \in media : x.key = <<"attachments", m, f>>
        PROVE  \E a \in attachments : a.file = f
    BY <1>4, <2>1 DEF Trace
  <2> QED
    BY <2>1 DEF NoOrphans
<1> QED
  BY <1>2, <1>3, <1>5, <1>6, <1>7

LEMMA InitCount == Init => CountInv
<1> SUFFICES ASSUME Init PROVE CountInv
  OBVIOUS
<1>1. attachments = {} \/ \E a : attachments = {a}
  <2>1. \A a, b \in attachments : a = b
    BY InitRows
  <2> QED
    BY <2>1
<1>2. IsFiniteSet(attachments) /\ Cardinality(attachments) \in Nat /\ Cardinality(attachments) <= 1
  <2>1. CASE attachments = {}
    <3>1. Cardinality(attachments) = 0 /\ IsFiniteSet(attachments)
      BY <2>1, FS_EmptySet
    <3> QED
      BY <3>1
  <2>2. CASE \E a : attachments = {a}
    <3>1. Cardinality(attachments) = 1 /\ IsFiniteSet(attachments)
      BY <2>2, FS_Singleton
    <3> QED
      BY <3>1
  <2> QED
    BY <1>1, <2>1, <2>2
<1>3. Cardinality(Requests) \in Nat /\ Cardinality(Requests) # 0
  BY StorageAssumption, FS_EmptySet, FS_CardinalityType
<1>4. ASSUME NEW m \in Messages
      PROVE  Cardinality(In(m)) + Cardinality(Pending(m))
               <= MaxAttachmentsPerMessage + Cardinality(Requests) - 1
  <2>1. Pending(m) = {}
    BY InitIdle DEF Pending
  <2>2. Cardinality(Pending(m)) = 0
    BY <2>1, FS_EmptySet
  <2>3. Cardinality(In(m)) \in Nat /\ Cardinality(In(m)) <= Cardinality(attachments)
    BY <1>2, FS_Subset, FS_CardinalityType DEF In
  <2> QED
    BY <1>2, <1>3, <2>2, <2>3, StorageAssumption
<1> QED
  BY <1>2, <1>4 DEF CountInv

LEMMA InitAvatars == Init => OneBusy /\ DecryptsInv /\ WholeInv
<1> SUFFICES ASSUME Init PROVE OneBusy /\ DecryptsInv /\ WholeInv
  OBVIOUS
<1>0. \A u \in Users : Busy(u) = {}
  BY InitIdle
<1>1. ASSUME NEW u \in Users, NEW x \in AvatarsByOwner(u)
      PROVE  x \in media /\ x.owner = u /\ x.file = OldAvatar /\ objects[x.key] = OldAvatar
  <2>1. x \in media /\ x.owner = u /\ x.key \in AvatarKeys /\ x.file \in Files
    BY InitTypes DEF AvatarsByOwner, TypeOK, Media
  <2>2. ~AttachmentRow(x)
    BY <2>1, MakeAttachmentKey DEF AttachmentRow
  <2> QED
    BY <2>1, <2>2, InitRows
<1>2. \A x, y \in media : x.file = y.file => x = y
  BY InitRows
<1>3. ASSUME NEW u \in Users, NEW x \in media, x.file = OldAvatar, x.owner = u PROVE Whole(u, x)
  <2>1. AvatarRow(x, u) /\ objects[x.key] = OldAvatar
    BY <1>3, InitRows, StorageAssumption
  <2>2. x.key \in AvatarKeys /\ x.key[2] = u
    BY <2>1, MakeAvatarKey DEF AvatarRow
  <2>3. AvatarsByOwner(u) = {x}
    BY <1>1, <1>2, <1>3, <2>2 DEF AvatarsByOwner
  <2>4. \A k \in AvatarKeys : objects[k] # NoFile => k = x.key
    BY <1>2, <1>3, InitRows
  <2>5. InS3(u) = {x.key}
    BY <2>1, <2>2, <2>4, StorageAssumption DEF InS3
  <2> QED
    BY <1>3, <2>1, <2>3, <2>5 DEF Whole
<1>4. DecryptsInv
  BY <1>0, <1>1, <1>2 DEF DecryptsInv
<1>5. ASSUME NEW u \in Users PROVE Rest(u)
  <2>1. CASE \E x \in media : x.file = OldAvatar /\ x.owner = u
    <3>1. HasAvatar(u)
      BY <1>3, <2>1 DEF HasAvatar
    <3>2. u \in avatarUrl /\ u \notin closed
      BY <2>1, InitRows DEF Init
    <3> QED
      BY <3>1, <3>2 DEF Rest
  <2>2. CASE ~\E x \in media : x.file = OldAvatar /\ x.owner = u
    <3>1. AvatarsByOwner(u) = {}
      BY <1>1, <2>2
    <3>2. InS3(u) = {}
      BY <2>2, InitRows DEF InS3
    <3>3. u \notin avatarUrl
      BY <2>2, InitRows
    <3> QED
      BY <3>1, <3>2, <3>3 DEF Rest, NoAvatar
  <2> QED
    BY <2>1, <2>2
<1>6. WholeInv
  BY <1>0, <1>5 DEF WholeInv, Init
<1>7. OneBusy
  BY <1>0 DEF OneBusy
<1> QED
  BY <1>4, <1>6, <1>7
--------------------------------------------------------------------------------
(***************************************************************************)
(* The theorems.                                                           *)
(***************************************************************************)
FilesInv == Struct /\ ReadableInv /\ CountInv /\ OneHome /\ Cleaned /\ NoOrphans
AvatarsInv == OneBusy /\ DecryptsInv /\ WholeInv
ReadingInv == ReadersOK /\ ReadersInv
StorageInv == TypeOK /\ FilesInv /\ AvatarsInv /\ ReadingInv

\* All that requests write; readers leave it as it is.
written == <<objects, media, avatarVars, attachmentVars, req>>

LEMMA NextSteps ==
    ASSUME [Next]_svars
    PROVE  \/ \E r \in Requests : (AvatarStep(r) \/ AttachmentStep(r)) /\ BesideReaders
           \/ UNCHANGED written /\ \E g \in Readers : GetAvatar(g) \/ DownloadAvatar(g)
           \/ UNCHANGED written /\ UNCHANGED <<reading, overtaken>>
<1>1. \A g \in Readers : GetAvatar(g) \/ DownloadAvatar(g) => UNCHANGED written
  BY DEF GetAvatar, DownloadAvatar, written, avatarVars, attachmentVars
<1>2. UNCHANGED svars => UNCHANGED written /\ UNCHANGED <<reading, overtaken>>
  BY DEF svars, written
<1> QED
  BY <1>1, <1>2 DEF Next

LEMMA TypesStep == TypeOK /\ [Next]_svars => TypeOK'
<1> SUFFICES ASSUME TypeOK, [Next]_svars PROVE TypeOK'
  OBVIOUS
<1>1. ASSUME NEW r \in Requests, AvatarStep(r) \/ AttachmentStep(r) PROVE TypeOK'
  BY <1>1, AvatarTypes, AttachmentTypes
<1>2. CASE UNCHANGED written
  BY <1>2 DEF written, avatarVars, attachmentVars, TypeOK
<1> QED
  BY <1>1, <1>2, NextSteps

LEMMA InitInv == Init => StorageInv
<1>1. Init => ReadingInv
  BY DEF Init, ReadingInv, ReadersOK, ReadersInv
<1> QED
  BY <1>1, InitTypes, InitFiles, InitCount, InitAvatars DEF StorageInv, FilesInv, AvatarsInv

LEMMA StepInv == StorageInv /\ [Next]_svars => StorageInv'
<1> SUFFICES ASSUME StorageInv, [Next]_svars PROVE StorageInv'
  OBVIOUS
<1> USE DEF StorageInv, FilesInv, AvatarsInv, ReadingInv
<1>0. TypeOK'
  BY TypesStep
<1>1. ASSUME NEW r \in Requests, AvatarStep(r) \/ AttachmentStep(r) PROVE FilesInv' /\ AvatarsInv'
  <2>1. Struct' /\ ReadableInv' /\ CountInv'
    BY <1>1, StructStep, ReadableStep, CountStep
  <2>2. OneHome' /\ Cleaned' /\ NoOrphans'
    BY <1>1, HomeStep, CleanedStep, OrphansStep
  <2>3. OneBusy' /\ DecryptsInv' /\ WholeInv'
    BY <1>1, OneBusyStep, DecryptsStep, WholeStep
  <2> QED
    BY <2>1, <2>2, <2>3
<1>2. ASSUME UNCHANGED written PROVE FilesInv' /\ AvatarsInv'
  <2> USE <1>2 DEF written, avatarVars, attachmentVars
  <2>1. Struct' /\ ReadableInv' /\ CountInv'
    BY DEF Struct, RowsOK, AttachedOK, ReadableInv, CountInv, In, Pending
  <2>2. OneHome' /\ Cleaned' /\ NoOrphans'
    BY DEF OneHome, Cleaned, NoOrphans
  <2>3. \A u \in Users : Busy(u)' = Busy(u) /\ AvatarsByOwner(u)' = AvatarsByOwner(u)
    BY DEF Busy, AvatarsByOwner
  <2>4. OneBusy' /\ DecryptsInv'
    BY <2>3 DEF OneBusy, DecryptsInv
  <2>5. \A u \in Users : Rest(u)' <=> Rest(u)
    BY Untouched DEF Rest
  <2>6. \A u \in Users, s \in Requests : Phase(u, s)' <=> Phase(u, s)
    BY Untouched DEF Phase, NoAvatar, HasAvatar, Whole, RowOnly, InS3, AvatarsByOwner
  <2>7. WholeInv'
    <3>1. UNCHANGED <<shared, failed, late, kept>>
      OBVIOUS
    <3>2. \A u \in Users : Busy(u) \subseteq Requests
      BY DEF Busy
    <3> QED
      BY <2>3, <2>5, <2>6, <3>1, <3>2 DEF WholeInv
  <2> HIDE DEF written, avatarVars, attachmentVars
  <2> QED
    BY <2>1, <2>2, <2>4, <2>7
<1>3. UNCHANGED <<reading, overtaken>> /\ UNCHANGED written => ReadingInv'
  BY DEF written, avatarVars, ReadersOK, ReadersInv
<1> QED
  BY <1>0, <1>1, <1>2, <1>3, NextSteps, ReadersBeside, ReaderStep

LEMMA Invariant == Spec => []StorageInv
  BY InitInv, StepInv, PTL DEF Spec

\* Every row has values of its columns' types, and every request what its steps need.
THEOREM TypeCorrect == Spec => []TypeOK
  BY InitTypes, TypesStep, PTL DEF Spec

\* Whatever requests run beside each other and whichever calls fail: a message has at most
\* the allowed number of attachments and one less than there are requests besides, and an
\* attachment listed can be downloaded unless it is being deleted or a deletion stopped
\* half-way (storage/attachments.go).
THEOREM InvHolds == Spec => []Inv
<1>1. StorageInv => Inv
  BY CountImplies, ReadableImplies DEF StorageInv, FilesInv, ReadingInv, Inv
<1> QED
  BY <1>1, Invariant, PTL

\* An upload or deletion of an attachment leaves neither object nor row behind, unless its
\* clean-up fails, too (storage/attachments.go:189).
THEOREM NoOrphansHolds == Spec => []NoOrphans
<1>1. StorageInv => NoOrphans
  BY DEF StorageInv, FilesInv
<1> QED
  BY <1>1, Invariant, PTL

\* An avatar read in two halves, its row and then its object, decrypts or is not found, unless
\* two requests that write it ran at once, an old row could not be deleted, or an upload put
\* its object between the two halves (storage/service.go:144, 162, 187).
THEOREM AvatarDecryptsHolds == Spec => []AvatarDecrypts
<1>1. StorageInv => AvatarDecrypts
  BY DecryptsImplies DEF StorageInv, ReadingInv
<1> QED
  BY <1>1, Invariant, PTL

\* A user whose requests followed each other without a failure has an avatar's row, object
\* and URL, or none of them (storage/service.go, api/handlers/users.go:113).
THEOREM AvatarWholeHolds == Spec => []AvatarWhole
<1>1. StorageInv => AvatarWhole
  BY WholeImplies DEF StorageInv, AvatarsInv
<1> QED
  BY <1>1, Invariant, PTL
================================================================================
