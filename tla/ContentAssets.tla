---------------------------- MODULE ContentAssets ----------------------------
(***************************************************************************)
(* One asset of content-service: its row, the object in the store that is  *)
(* its file, its versions, and the links that let a profile download it.   *)
(*                                                                         *)
(* The database and the object store share no transaction.  An object gets *)
(* into the store in three ways: the client puts it there with a presigned *)
(* URL and then completes the upload, the service puts it there for the    *)
(* client, or the client registers one that is there already.  A request   *)
(* is a sequence of steps between which others run; it keeps the copy of   *)
(* the row that its view loaded, and may be cut short after every step.    *)
(*                                                                         *)
(* The metadata is free for clients to write: the upload status is a       *)
(* member of it, which a client may set like any other.                    *)
(***************************************************************************)
EXTENDS Naturals, Sequences

CONSTANTS
    Profile,       \* profiles that ask for links
    Owner,         \* the owner of the asset
    Link,          \* links for its download
    Client,        \* requests to content-service in progress
    None,
    ScanEnabled,   \* CONTENT_MALWARE_SCAN_ENABLED
    MaxStarted     \* bound on the requests begun

ASSUME ContentAssumption ==
    /\ Owner \in Profile /\ None \notin Link
    /\ None \notin {"pending", "complete", "valid", "expired", "declared", "refused", "other"}
    /\ ScanEnabled \in BOOLEAN /\ MaxStarted \in Nat

VARIABLES
    asset,         \* the row of the asset, None before it is created
    hasFile,       \* is there a FileMetadata row
    stored,        \* the object under the key of the file
    urlOpen,       \* is there a presigned URL to put it
    versions,      \* numbers of the ContentVersion rows, in the order of their creation
    grants,        \* the ContentPermission rows of each profile
    links,         \* the SignedAccessRecord rows
    client,        \* what each request is doing
    authorized,    \* what the authorization service answers to the operator now
    started,
    seeded,        \* is the asset one of the seed data
    verified,      \* history: the object of this asset was once measured and then scanned
    declared,      \* history: a client once stored the upload status "complete" itself
    putLate,       \* history: the URL was used after the object had been measured
    cut            \* history: a request was cut short

rows == <<asset, hasFile, versions, grants, links>>
world == <<stored, urlOpen, authorized>>
assetHistory == <<seeded, verified, declared, putLate, cut>>
assetVars == <<rows, world, assetHistory, client, started>>

ContentAssetType == {"link", "uploaded"}

\* quarantined is never written.
ContentAssetStatus == {"draft", "published", "deleted"}

\* None is any other value of the member, or none.
UploadStatus == {None, "pending", "complete"}

\* The metadata is the upload status in it.
ContentAsset == [type : ContentAssetType, status : ContentAssetStatus, deleted : BOOLEAN,
                 upload : UploadStatus]

NewAsset(type, upload) ==
    [type |-> type, status |-> "draft", deleted |-> FALSE, upload |-> upload]

\* What is stored: nothing, what the row declares, such an object that the scanner refuses,
\* or one whose size or type is not what the row declares.
StoredObject == {None, "declared", "refused", "other"}

\* Its size and type are those declared.
Matches(object) == object \in {"declared", "refused"}

\* run_malware_scan: a scanner that cannot run or takes too long refuses as well.
PassesScan(object) == object # "refused"

\* What the service is sent is scanned before it stores it, if scanning is enabled.
AcceptedUpload == {object \in {"declared", "refused"} : ScanEnabled => PassesScan(object)}

ContentPermissionValue == {"view", "download", "manage"}

\* The rows of a profile.  An expired one is still there.
ContentPermission == [ContentPermissionValue -> {None, "valid", "expired"}]

\* uses and overlapped are history: how often the link was resolved, and whether two
\* requests resolved it at the same time.
SignedAccessRecord == [by : Profile, expired : BOOLEAN, used : BOOLEAN,
                       uses : Nat, overlapped : BOOLEAN]

\* No row is not a row.
ASSUME NoneIsNoRow == None \notin ContentAsset \cup SignedAccessRecord

\* A row of content_versions is its number; the file is that of the asset.
ContentVersion == Nat \ {0}

Resting == [op |-> "resting"]

ClientState ==
    {Resting}
    \cup [op : {"register"}, step : {"scan", "create"}]
    \cup [op : {"proxy"}, object : AcceptedUpload]
    \cup [op : {"complete"}, step : {"verify", "scan", "mark", "exists", "max"}]
    \cup [op : {"version"}, step : {"max"}]
    \cup [op : {"complete", "version"}, step : {"insert"}, number : ContentVersion]
    \cup [op : {"update", "publish", "delete", "sign"}, copy : ContentAsset]
    \cup [op : {"resolve"}, link : Link]

AssetsTypeOK ==
    /\ asset \in ContentAsset \cup {None}
    /\ hasFile \in BOOLEAN /\ (hasFile => asset # None)
    /\ stored \in StoredObject /\ urlOpen \in BOOLEAN
    /\ versions \in Seq(ContentVersion)
    /\ grants \in [Profile -> ContentPermission]
    /\ links \in [Link -> SignedAccessRecord \cup {None}]
    /\ client \in [Client -> ClientState]
    /\ asset = None =>
          /\ \A l \in Link : links[l] = None
          /\ \A w \in Client : client[w].op \in {"resting", "register", "proxy"}
    /\ authorized \in BOOLEAN /\ started \in 0 .. MaxStarted
    /\ seeded \in BOOLEAN /\ verified \in BOOLEAN /\ declared \in BOOLEAN
    /\ putLate \in BOOLEAN /\ cut \in BOOLEAN

\* The asset of the seed data, published with its first version.  Seeding stores no object.
SeedAsset == /\ asset = [NewAsset("uploaded", "complete") EXCEPT !.status = "published"]
             /\ hasFile = TRUE /\ versions = <<1>> /\ stored = None /\ urlOpen = FALSE

\* What may be registered came with the upload of another asset, whose URL may be open.
NoAsset == /\ asset = None /\ hasFile = FALSE /\ versions = <<>>
           /\ stored \in StoredObject /\ urlOpen \in BOOLEAN

AssetsInit ==
    /\ \/ SeedAsset /\ seeded = TRUE
       \/ NoAsset /\ seeded = FALSE
    /\ verified = FALSE /\ declared = FALSE /\ putLate = FALSE
    /\ grants = [p \in Profile |-> [v \in ContentPermissionValue |-> None]]
    /\ links = [l \in Link |-> None]
    /\ client = [w \in Client |-> Resting]
    /\ authorized = TRUE
    /\ started = 0
    /\ cut = FALSE

-----------------------------------------------------------------------------
(* Requests *)

\* has_content_permission: the operator's token is asked about in the institution's scope.
Permitted == authorized

\* asset_queryset, in which the views look the asset up.
Live == asset # None /\ asset.status # "deleted" /\ ~asset.deleted

Request ==
    /\ Permitted
    /\ started < MaxStarted /\ started' = started + 1

Begins(w, state) ==
    /\ client[w] = Resting /\ Request
    /\ client' = [client EXCEPT ![w] = state]

Loads(w, op) == Live /\ Begins(w, [op |-> op, copy |-> asset])

Continues(w, state) == client' = [client EXCEPT ![w] = state]
Ends(w) == Continues(w, Resting)

Doing(w, op, step) == client[w].op = op /\ client[w].step = step

\* An error, a client that gives up, or a crash: nothing of the step at hand is done.
Stop(w) ==
    /\ client[w] # Resting /\ Ends(w)
    /\ cut' = TRUE
    /\ UNCHANGED <<rows, world, seeded, verified, declared, putLate, started>>

Reauthorize ==
    /\ authorized' = ~authorized
    /\ UNCHANGED <<rows, stored, urlOpen, assetHistory, client, started>>

-----------------------------------------------------------------------------
(* The object store *)

\* stat_storage_object: there is an object under the key, and the store answers.
Found == stored # None

\* verify_storage_object_matches, and scan_stored_object after it: each looks at the object
\* that is stored by then, and any error ends the request.
MatchesStored == Found /\ Matches(stored)
ScanStored == ScanEnabled => PassesScan(stored)

\* The object was measured, by a request that is still in progress or by one that scanned it.
ObjectMeasured ==
    \/ verified
    \/ \E w \in Client : client[w].op = "complete" /\ client[w].step # "verify"
    \/ asset = None /\ \E w \in Client : client[w].op = "register"

\* upload_storage_object puts an object under a key that no other object and no URL has.
StoreObject(object) == stored' = object /\ urlOpen' = FALSE /\ putLate' = FALSE

\* The client uses the presigned URL; what it puts replaces what was there.
Put(object) ==
    /\ urlOpen
    /\ stored' = object
    /\ putLate' = (putLate \/ ObjectMeasured)
    /\ UNCHANGED <<rows, urlOpen, authorized, seeded, verified, declared, cut, client, started>>

ExpireUrl ==
    /\ urlOpen /\ urlOpen' = FALSE
    /\ UNCHANGED <<rows, stored, authorized, assetHistory, client, started>>

-----------------------------------------------------------------------------
(* Creating the asset *)

\* What the serializers accept: an upload of an asset that is not a link.
UploadRequest == {"uploaded"}

\* create_asset of a link without a file keeps the metadata as it was sent.
CreateLinkAsset ==
    /\ asset = None /\ Request
    /\ \E upload \in UploadStatus :
          /\ asset' = NewAsset("link", upload)
          /\ declared' = (declared \/ upload = "complete")
    /\ UNCHANGED <<hasFile, versions, grants, links, world, seeded, verified, putLate, cut, client>>

\* create_asset of an object that is in the store already measures it, ...
VerifyRegistered(w) ==
    /\ asset = None /\ MatchesStored
    /\ Begins(w, [op |-> "register", step |-> "scan"])
    /\ UNCHANGED <<rows, world, assetHistory>>

\* ... scans it, ...
ScanRegistered(w) ==
    /\ Doing(w, "register", "scan") /\ asset = None /\ ScanStored
    /\ Continues(w, [op |-> "register", step |-> "create"])
    /\ UNCHANGED <<rows, world, assetHistory, started>>

\* One transaction creates the asset, its file and its first version.
CreateRows(type) ==
    /\ asset = None
    /\ asset' = NewAsset(type, "complete") /\ hasFile' = TRUE
    /\ versions' = <<1>>
    /\ UNCHANGED <<grants, links, authorized, seeded, declared, cut, started>>

\* ... and records it.
CreateRegistered(w) ==
    /\ Doing(w, "register", "create")
    /\ \E type \in ContentAssetType : CreateRows(type)
    /\ verified' = TRUE
    /\ Ends(w)
    /\ UNCHANGED <<stored, urlOpen, putLate>>

\* The key is new: nothing is stored under it, and the URL is for it.
CreatePresignedUpload ==
    /\ asset = None /\ Request
    /\ \E type \in UploadRequest : asset' = NewAsset(type, "pending")
    /\ hasFile' = TRUE /\ urlOpen' = TRUE /\ stored' = None /\ putLate' = FALSE
    /\ UNCHANGED <<versions, grants, links, authorized, seeded, verified, declared, cut, client>>

\* proxy_upload_asset: what is scanned is stored under a key of its own, ...
UploadObject(w) ==
    /\ asset = None
    /\ \E object \in AcceptedUpload : Begins(w, [op |-> "proxy", object |-> object])
    /\ UNCHANGED <<rows, world, assetHistory>>

\* ... which is that of the asset once it is recorded.
RecordUpload(w) ==
    /\ client[w].op = "proxy"
    /\ \E type \in UploadRequest : CreateRows(type)
    /\ StoreObject(client[w].object)
    /\ verified' = TRUE
    /\ Ends(w)

-----------------------------------------------------------------------------
(* complete_presigned_upload, create_content_version *)

\* require_file_metadata: a link has no file to complete.
BeginComplete(w) ==
    /\ Live /\ hasFile
    /\ Begins(w, [op |-> "complete", step |-> "verify"])
    /\ UNCHANGED <<rows, world, assetHistory>>

VerifyComplete(w) ==
    /\ Doing(w, "complete", "verify") /\ MatchesStored
    /\ Continues(w, [op |-> "complete", step |-> "scan"])
    /\ UNCHANGED <<rows, world, assetHistory, started>>

ScanComplete(w) ==
    /\ Doing(w, "complete", "scan") /\ ScanStored
    /\ Continues(w, [op |-> "complete", step |-> "mark"])
    /\ verified' = TRUE
    /\ UNCHANGED <<rows, world, seeded, declared, putLate, cut, started>>

MarkComplete(w) ==
    /\ Doing(w, "complete", "mark")
    /\ asset' = [asset EXCEPT !.upload = "complete"]
    /\ Continues(w, [op |-> "complete", step |-> "exists"])
    /\ UNCHANGED <<hasFile, versions, grants, links, world, assetHistory, started>>

\* The asset may have versions already, of an earlier completion or by a request.
FirstVersion(w) ==
    /\ Doing(w, "complete", "exists")
    /\ IF versions = <<>> THEN Continues(w, [op |-> "complete", step |-> "max"]) ELSE Ends(w)
    /\ UNCHANGED <<rows, world, assetHistory, started>>

BeginVersion(w) ==
    /\ Live
    /\ Begins(w, [op |-> "version", step |-> "max"])
    /\ UNCHANGED <<rows, world, assetHistory>>

\* The highest number is read, ...
NextNumber(w) ==
    /\ client[w].op \in {"complete", "version"} /\ client[w].step = "max"
    /\ Continues(w, [op |-> client[w].op, step |-> "insert", number |-> Len(versions) + 1])
    /\ UNCHANGED <<rows, world, assetHistory, started>>

\* The numbers of an asset are unique.
UniqueNumber(n) == \A i \in DOMAIN versions : versions[i] # n

\* Mutation of InsertVersion: nothing keeps two requests from the same number.
InsertAnyway(w) ==
    /\ client[w].op \in {"complete", "version"} /\ client[w].step = "insert"
    /\ versions' = Append(versions, client[w].number)
    /\ Ends(w)
    /\ UNCHANGED <<asset, hasFile, grants, links, world, assetHistory, started>>

\* ... and a row with the next is inserted; if it exists by now the request fails.
InsertVersion(w) ==
    /\ client[w].op \in {"complete", "version"} /\ client[w].step = "insert"
    /\ versions' = IF UniqueNumber(client[w].number)
                   THEN Append(versions, client[w].number) ELSE versions
    /\ Ends(w)
    /\ UNCHANGED <<asset, hasFile, grants, links, world, assetHistory, started>>

-----------------------------------------------------------------------------
(* update_asset, publish_asset, delete_asset *)

KeepsRest(w) == Ends(w) /\ UNCHANGED <<hasFile, versions, grants, links, world, started>>

Keeps(w) == KeepsRest(w) /\ UNCHANGED assetHistory

LoadAsset(w, op) ==
    /\ Loads(w, op)
    /\ UNCHANGED <<rows, world, assetHistory>>

\* SignedAccessCreateView loads the asset; the request names the profile the link is
\* for.
LoadForLink(w) ==
    /\ Loads(w, "sign")
    /\ UNCHANGED <<rows, world, assetHistory>>

WithMembers(copy, type, upload) == [copy EXCEPT !.type = type, !.upload = upload]

\* The members sent are written into the copy; metadata replaces all of it, the upload
\* status included.
Updated(copy, sent) ==
    {WithMembers(copy, type, upload) : type \in ContentAssetType, upload \in sent}

\* save() writes every column, from the copy.  A request without metadata keeps those of the
\* copy.
SaveUpdate(w) ==
    LET copy == client[w].copy IN
    /\ client[w].op = "update"
    /\ \/ asset' \in Updated(copy, {copy.upload}) /\ UNCHANGED declared
       \/ /\ asset' \in Updated(copy, UploadStatus)
          /\ declared' = (declared \/ asset'.upload = "complete")
    /\ KeepsRest(w)
    /\ UNCHANGED <<seeded, verified, putLate, cut>>

SavePublished(w) ==
    /\ client[w].op = "publish"
    /\ asset' = [asset EXCEPT !.status = "published", !.deleted = FALSE]
    /\ Keeps(w)

SaveDeleted(w) ==
    /\ client[w].op = "delete"
    /\ asset' = [asset EXCEPT !.status = "deleted", !.deleted = TRUE]
    /\ Keeps(w)

-----------------------------------------------------------------------------
(* Links *)

\* create_permission: a row for a profile, which may have expired when it is made; a
\* second one for the same permission is refused by the database.
CreatePermission(p, v, validity) ==
    /\ Live /\ Request
    /\ grants[p][v] = None
    /\ grants' = [grants EXCEPT ![p][v] = validity]
    /\ UNCHANGED <<asset, hasFile, versions, links, world, assetHistory, client>>

ExpireGrant(p, v) ==
    /\ grants[p][v] = "valid"
    /\ grants' = [grants EXCEPT ![p][v] = "expired"]
    /\ UNCHANGED <<asset, hasFile, versions, links, world, assetHistory, client, started>>

\* has_asset_grant for download.
HasAssetGrant(p) == \E v \in {"download", "manage"} : grants[p][v] = "valid"

MayDownload(copy, p) ==
    /\ copy.status # "deleted" /\ copy.upload = "complete"
    /\ HasAssetGrant(p) \/ p = Owner

\* grant_signed_access, for the copy that the view loaded.
GrantSignedAccess(w, l, p) ==
    /\ client[w].op = "sign" /\ links[l] = None
    /\ MayDownload(client[w].copy, p)
    /\ links' = [links EXCEPT ![l] = [by |-> p, expired |-> FALSE, used |-> FALSE,
                                      uses |-> 0, overlapped |-> FALSE]]
    /\ Ends(w)
    /\ UNCHANGED <<asset, hasFile, versions, grants, world, assetHistory, started>>

ExpireLink(l) ==
    /\ links[l] # None /\ ~links[l].expired
    /\ links' = [links EXCEPT ![l].expired = TRUE]
    /\ UNCHANGED <<asset, hasFile, versions, grants, world, assetHistory, client, started>>

\* resolve_signed_access reads the record, ...
ReadLink(w, l) ==
    /\ client[w] = Resting
    /\ started < MaxStarted /\ started' = started + 1
    /\ links[l] # None /\ ~links[l].expired /\ ~links[l].used
    /\ Continues(w, [op |-> "resolve", link |-> l])
    /\ links' = IF \E other \in Client : client[other] = [op |-> "resolve", link |-> l]
                THEN [links EXCEPT ![l].overlapped = TRUE] ELSE links
    /\ UNCHANGED <<asset, hasFile, versions, grants, world, assetHistory>>

UsedOnceMore(record) == [record EXCEPT !.used = TRUE, !.uses = @ + 1]

\* ... and then saves that it is used, before it answers with the URL of the object.
UseLink(w) ==
    LET l == client[w].link IN
    /\ client[w].op = "resolve"
    /\ links' = [links EXCEPT ![l] = UsedOnceMore(links[l])]
    /\ Ends(w)
    /\ UNCHANGED <<asset, hasFile, versions, grants, world, assetHistory, started>>

-----------------------------------------------------------------------------
Creation(w) == \/ VerifyRegistered(w) \/ ScanRegistered(w) \/ CreateRegistered(w)
               \/ UploadObject(w) \/ RecordUpload(w)

Completion(w) == \/ BeginComplete(w) \/ VerifyComplete(w) \/ ScanComplete(w) \/ MarkComplete(w)
                 \/ FirstVersion(w) \/ NextNumber(w) \/ InsertVersion(w)

Lifecycle(w) == \/ \E op \in {"update", "publish", "delete"} : LoadAsset(w, op)
                \/ SaveUpdate(w) \/ SavePublished(w) \/ SaveDeleted(w)

Access(w) == \/ LoadForLink(w)
             \/ \E l \in Link, p \in Profile : GrantSignedAccess(w, l, p)
             \/ \E l \in Link : ReadLink(w, l)
             \/ UseLink(w)

Environment ==
    \/ Reauthorize \/ ExpireUrl
    \/ \E object \in StoredObject \ {None} : Put(object)
    \/ \E l \in Link : ExpireLink(l)
    \/ \E p \in Profile, v \in ContentPermissionValue : ExpireGrant(p, v)

AssetsNext ==
    \/ CreateLinkAsset \/ CreatePresignedUpload
    \/ \E p \in Profile, v \in ContentPermissionValue, validity \in {"valid", "expired"} :
          CreatePermission(p, v, validity)
    \/ \E w \in Client :
          Creation(w) \/ Completion(w) \/ BeginVersion(w) \/ Lifecycle(w) \/ Access(w) \/ Stop(w)
    \/ Environment

-----------------------------------------------------------------------------
(* Properties *)

\* What verification and scanning accept.
Acceptable(object) == Matches(object) /\ (ScanEnabled => PassesScan(object))

\* An upload that counts as complete, unless a client declared it so in the metadata it
\* sent, was measured and scanned, and the object that is stored is still one that passes
\* both, unless its URL was used once more after it was measured:
\* complete_presigned_upload, proxy_upload_asset and create_asset, with steps of other
\* requests and uploads between theirs.  (The seed data have no object.)
CompleteVerified ==
    asset # None /\ asset.upload = "complete" /\ ~seeded /\ ~declared =>
        verified /\ stored # None /\ (Acceptable(stored) \/ putLate)

\* The versions of an asset are numbered 1, 2, 3, ... without gap or repetition, however
\* many requests read the highest number at the same time: create_content_version.
VersionsInOrder == \A i \in DOMAIN versions : versions[i] = i

\* A complete upload has a version, unless a request is about to create it, some request
\* was cut short, or a client declared it complete: complete_presigned_upload against
\* create_content_version.
CompleteHasVersion ==
    asset # None /\ asset.upload = "complete" /\ versions = <<>> =>
        cut \/ declared \/ \E w \in Client : client[w].op = "complete"

\* The status and the time of deletion tell the same, in whatever order requests that
\* update, publish and delete write their copies.
DeletionAgrees == asset # None => (asset.status = "deleted" <=> asset.deleted)

\* A deleted asset is brought back only by a request that loaded it before it was
\* deleted: asset_queryset hides it from all later ones.
DeletedStays ==
    [][asset # None /\ asset.deleted /\ ~asset'.deleted =>
          \E w \in Client : /\ client[w].op \in {"update", "publish"}
                            /\ ~client[w].copy.deleted]_assetVars

\* Every link is for an upload that was verified, seeded or declared complete by a client,
\* and was asked for by its owner or by a profile that had been permitted to download it:
\* grant_signed_access, for a copy of the asset.
LinkJustified ==
    \A l \in Link : links[l] # None =>
        /\ verified \/ seeded \/ declared
        /\ \/ links[l].by = Owner
           \/ \E v \in {"download", "manage"} : grants[links[l].by][v] # None

\* A link is resolved once, unless two requests read its record at the same time:
\* resolve_signed_access.
LinkUsedOnce ==
    \A l \in Link : links[l] # None /\ links[l].uses > 1 => links[l].overlapped

\* An asset, its object, its versions and its links tell the same, in whatever order
\* uploads, publications, deletions, versions and downloads read and write them.
AssetsAgree ==
    /\ [](/\ AssetsTypeOK
          /\ CompleteVerified /\ VersionsInOrder /\ CompleteHasVersion /\ DeletionAgrees
          /\ LinkJustified /\ LinkUsedOnce)
    /\ DeletedStays

=============================================================================
