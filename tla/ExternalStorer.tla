--------------------------- MODULE ExternalStorer ---------------------------
(***************************************************************************)
(* ExternalStorerFileInterface, ExternalStorerFileWriter                   *)
(* (external_storer_file.cpp) and CperFileNotifierHandler: how decoded     *)
(* logs become index.json files below the root folder, and which of them   *)
(* are kept.  One action is one operation on the file system or on D-Bus   *)
(* with the computation up to the next, so the daemon can die between any  *)
(* two: the files stay, the queues and logServiceId do not.                *)
(*                                                                         *)
(* A document is a JSON text.  Of its content the model keeps whether it   *)
(* parses, what its @odata.type contains, and the fields @odata.id and Id, *)
(* each a string, something else, or missing.                              *)
(***************************************************************************)
EXTENDS FileWriter

CONSTANTS
  maxNumSavedLogEntries,   \* first entries that are kept for good
  maxNumLogEntries,        \* latest entries that are kept besides
  Documents,               \* inputs of publishJson
  Uuids,                   \* what randomGen returns, by number of the call
  MaxDocuments,            \* bound: calls of publishJson
  FaultKinds,              \* "remove", "create", "write", "throw", "dbus",
                           \*   "crash"
  MaxFaults                \* bound: faults in one behaviour

Types == {"LogEntry", "LogService"}

ASSUME StorerAssumption ==
  /\ maxNumSavedLogEntries \in Nat /\ maxNumLogEntries \in Nat \ {0}
  /\ \A d \in Documents :
       /\ d.json \in {"unparsable", "untyped", "oddType", "typed"}
       /\ d.type \subseteq Types
       /\ d.odataId.kind \in {"missing", "other", "string"}
       /\ IsPath(d.odataId.value)
       /\ d.id.kind \in {"missing", "other", "string"}
       /\ d.id.value \in STRING   \* one part of a path
  /\ Uuids \in Seq(STRING) /\ Len(Uuids) >= MaxDocuments
  /\ \A i, j \in DOMAIN Uuids : Uuids[i] = Uuids[j] => i = j
  /\ FaultKinds \subseteq {"remove", "create", "write", "throw", "dbus", "crash"}
  /\ MaxDocuments \in Nat /\ MaxFaults \in Nat

(* The names that occur in paths without being a UUID.                     *)
OtherNames ==
  ToSet(baseDir) \cup {"LogServices", "Entries", "", ".", ".."}
    \cup {d.id.value : d \in Documents}
    \cup UNION {ToSet(d.odataId.value.parts) : d \in Documents}

ASSUME UuidAssumption ==
  /\ OtherNames \subseteq STRING
  /\ \A i \in DOMAIN Uuids : Uuids[i] \notin OtherNames

VARIABLES
  logServiceId, logEntrySavedQueue, logEntryQueue,
  nextEntry,    \* CperFileNotifierHandler: index of the next D-Bus object
  call,         \* the publishJson in progress: step, path of the next file
                \*   operation, what the file is for
  result,       \* what the last publishJson returned, or that it threw
  folders,      \* the root folder and those below, with absolute paths
  files,        \* those of them with a complete index.json
  lost,         \* history: those of them whose index.json the stream failed
                \*   to write, which createFile did not notice
  stored,       \* history: entries this process published, oldest first
  everSaved,    \* history: every path that was in logEntrySavedQueue
  announced,    \* history: files announced on D-Bus, oldest first
  documents,    \* number of publishJson calls so far
  restarts, faults

storerVars == <<logServiceId, logEntrySavedQueue, logEntryQueue, nextEntry>>
disk == <<folders, files, lost>>
history == <<stored, everSaved, announced>>
bounds == <<documents, restarts, faults>>
vars == <<storerVars, call, result, disk, history, bounds>>

-----------------------------------------------------------------------------
(* Paths, with the leading folders left out.                               *)

ServicePath(s) == Absolute(<<"LogServices", s>>)
EntryPath(s, id) == Absolute(<<"LogServices", s, "Entries", id>>)

(* path + "/Entries": a trailing slash does not become a part.             *)
WithoutSlash(parts) ==
  IF parts # <<>> /\ Last(parts) = "" THEN Front(parts) ELSE parts
EntriesPath(path) ==
  [path EXCEPT !.parts = Append(WithoutSlash(@), "Entries")]

IdleCall == [step |-> "idle", path |-> Absolute(<<>>), purpose |-> "none"]

CallFor(step, purpose, path) ==
  [step |-> step, path |-> path, purpose |-> purpose]

(* The n-th call draws the n-th UUID for the folder of a new entry.        *)
NewEntry(n) == CallFor("folder", "entry", EntryPath(logServiceId, Uuids[n]))

Return(value) ==
  /\ call' = IdleCall
  /\ result' = value

Throw == Return("throws")

Fault(kind) ==
  /\ kind \in FaultKinds
  /\ faults < MaxFaults
  /\ faults' = faults + 1
  /\ UNCHANGED <<documents, restarts>>

-----------------------------------------------------------------------------
(* publishJson up to the first operation on the file system.               *)

(* LogEntry is looked for first.                                           *)
GetSchemaType(doc) ==
  IF "LogEntry" \in doc.type THEN "logEntry"
  ELSE IF "LogService" \in doc.type THEN "logService" ELSE "other"

IsA(doc, type) == doc.json = "typed" /\ GetSchemaType(doc) = type

(* What publishJson and the functions for each type refuse: a text that    *)
(* does not parse or has no type, a LogEntry before any LogService, and a  *)
(* missing field.                                                          *)
Untyped(doc) == doc.json \in {"unparsable", "untyped"}

LacksService(doc) == IsA(doc, "logEntry") /\ logServiceId = ""

LacksServiceField(doc) ==
  /\ IsA(doc, "logService")
  /\ doc.odataId.kind = "missing" \/ doc.id.kind = "missing"

LacksPath(doc) == IsA(doc, "other") /\ doc.odataId.kind = "missing"

Refused(doc) ==
  Untyped(doc) \/ LacksService(doc) \/ LacksServiceField(doc) \/ LacksPath(doc)

(* A field that is no string makes nlohmann::json throw a type_error,      *)
(* which publishJson does not catch.                                       *)
Mistyped(doc) ==
  \/ doc.json = "oddType"
  \/ IsA(doc, "logService") /\ doc.id.kind = "other"
  \/ IsA(doc, "other") /\ doc.odataId.kind = "other"

RefuseDocument(doc) ==
  /\ Refused(doc)
  /\ Return("false")
  /\ UNCHANGED storerVars

ThrowOnDocument(doc) ==
  /\ ~Refused(doc) /\ Mistyped(doc)
  /\ Throw
  /\ UNCHANGED storerVars

(* Faulty variant: the oldest entry is removed but not popped.             *)
ProcessLogEntryNoPop(doc) ==
  /\ ~Refused(doc) /\ IsA(doc, "logEntry")
  /\ call' = IF Len(logEntryQueue) = maxNumLogEntries
             THEN CallFor("remove", "entry", Head(logEntryQueue))
             ELSE NewEntry(documents + 1)
  /\ UNCHANGED <<storerVars, result>>

(* Faulty variant: nothing is ever removed.                                *)
ProcessLogEntryKeepsAll(doc) ==
  /\ ~Refused(doc) /\ IsA(doc, "logEntry")
  /\ call' = NewEntry(documents + 1)
  /\ UNCHANGED <<storerVars, result>>

(* Faulty variant: the oldest of all entries makes room.                   *)
ProcessLogEntryDropsSaved(doc) ==
  /\ ~Refused(doc) /\ IsA(doc, "logEntry")
  /\ \/ /\ Len(logEntryQueue) = maxNumLogEntries
        /\ logEntrySavedQueue # <<>>
        /\ call' = CallFor("remove", "entry", Head(logEntrySavedQueue))
        /\ logEntrySavedQueue' = Tail(logEntrySavedQueue)
     \/ /\ Len(logEntryQueue) # maxNumLogEntries \/ logEntrySavedQueue = <<>>
        /\ call' = NewEntry(documents + 1)
        /\ UNCHANGED logEntrySavedQueue
  /\ UNCHANGED <<logServiceId, logEntryQueue, nextEntry, result>>

(* processLogEntry: the oldest entry leaves the queue before its file is   *)
(* removed.                                                                *)
ProcessLogEntry(doc) ==
  /\ ~Refused(doc) /\ IsA(doc, "logEntry")
  /\ \/ /\ Len(logEntryQueue) = maxNumLogEntries
        /\ call' = CallFor("remove", "entry", Head(logEntryQueue))
        /\ logEntryQueue' = Tail(logEntryQueue)
     \/ /\ Len(logEntryQueue) # maxNumLogEntries
        /\ call' = NewEntry(documents + 1)
        /\ UNCHANGED logEntryQueue
  /\ UNCHANGED <<logServiceId, logEntrySavedQueue, nextEntry, result>>

(* processLogService: logServiceId is set before the files are created,    *)
(* and before an @odata.id that is no string throws.                       *)
ProcessLogService(doc) ==
  /\ ~Refused(doc) /\ ~Mistyped(doc) /\ IsA(doc, "logService")
  /\ logServiceId' = doc.id.value
  /\ \/ /\ doc.odataId.kind = "string"
        /\ call' = CallFor("folder", "service", doc.odataId.value)
        /\ UNCHANGED result
     \/ /\ doc.odataId.kind = "other"
        /\ Throw
  /\ UNCHANGED <<logEntrySavedQueue, logEntryQueue, nextEntry>>

ProcessOtherTypes(doc) ==
  /\ ~Refused(doc) /\ ~Mistyped(doc) /\ IsA(doc, "other")
  /\ call' = CallFor("folder", "other", doc.odataId.value)
  /\ UNCHANGED <<storerVars, result>>

PublishJson ==
  /\ call.step = "idle"
  /\ documents < MaxDocuments
  /\ \E doc \in Documents :
       \/ RefuseDocument(doc) \/ ThrowOnDocument(doc)
       \/ ProcessLogEntry(doc) \/ ProcessLogService(doc) \/ ProcessOtherTypes(doc)
  /\ documents' = documents + 1
  /\ UNCHANGED <<disk, history, restarts, faults>>

-----------------------------------------------------------------------------
(* The operations of the file writer.                                      *)

Below(p) == {q \in folders : IsPrefix(p, q)}

(* Faulty variant: the file is removed, its folder stays.                  *)
RemoveOldestFileOnly ==
  /\ call.step = "remove"
  /\ files' = files \ {FolderAt(call.path)}
  /\ lost' = lost \ {FolderAt(call.path)}
  /\ call' = NewEntry(documents)
  /\ UNCHANGED <<storerVars, folders, result, history, bounds>>

(* removeAll of the oldest entry: whole, or failing with or without having *)
(* removed the index.json.                                                 *)
RemoveOldest ==
  LET p == FolderAt(call.path) IN
  /\ call.step = "remove"
  /\ \/ /\ folders' = folders \ Below(p)
        /\ files' = files \ Below(p)
        /\ lost' = lost \ Below(p)
        /\ call' = NewEntry(documents)
        /\ UNCHANGED <<result, bounds>>
     \/ /\ Fault("remove")
        /\ \E gone \in {{}, {p}} : files' = files \ gone
        /\ Return("false")
        /\ UNCHANGED <<folders, lost>>
  /\ UNCHANGED <<storerVars, history>>

(* Faulty variant: D-Bus clients hear of the path before the file exists.  *)
CreateFolderAnnounces ==
  LET p == FolderAt(call.path) IN
  /\ call.step = "folder"
  /\ IsValidPath(call.path)
  /\ folders' = folders \cup FoldersOn(call.path)
  /\ call' = [call EXCEPT !.step = "write"]
  /\ announced' = IF call.purpose = "entry" THEN Append(announced, p) ELSE announced
  /\ UNCHANGED <<storerVars, files, lost, stored, everSaved, result, bounds>>

(* createFolder refuses an invalid path; create_directories makes the      *)
(* missing parents as well, reports failure, or throws.                    *)
CreateFolder ==
  LET p == FolderAt(call.path) IN
  /\ call.step = "folder"
  /\ \/ /\ IsValidPath(call.path)
        /\ folders' = folders \cup FoldersOn(call.path)
        /\ call' = [call EXCEPT !.step = "write"]
        /\ UNCHANGED <<result, bounds>>
     \/ /\ ~IsValidPath(call.path)
        /\ Return("false")
        /\ UNCHANGED <<folders, bounds>>
     \/ /\ IsValidPath(call.path)
        /\ p \notin folders
        /\ \/ Fault("create") /\ Return("false")
           \/ Fault("throw") /\ Throw
        /\ UNCHANGED folders
  /\ UNCHANGED <<storerVars, files, lost, history>>

(* Faulty variant: the Entries folder is left to the first entry.          *)
FileCreatedSkipsEntries ==
  \/ /\ call.purpose = "entry"
     /\ call' = [call EXCEPT !.step = "notify"]
     /\ UNCHANGED result
  \/ /\ call.purpose # "entry"
     /\ Return("true")

(* What follows a createFile that returned true.                           *)
FileCreated ==
  \/ /\ call.purpose = "entry"
     /\ call' = [call EXCEPT !.step = "notify"]
     /\ UNCHANGED result
  \/ /\ call.purpose = "service"
     /\ call' = CallFor("folder", "entries", EntriesPath(call.path))
     /\ UNCHANGED result
  \/ /\ call.purpose \in {"entries", "other"}
     /\ Return("true")

(* createFile opens the file, which empties an existing one, writes and    *)
(* closes it; no result of the stream is looked at.                        *)
WriteFile ==
  LET p == FolderAt(call.path) IN
  /\ call.step = "write"
  /\ \/ files' = files \cup {p} /\ lost' = lost \ {p} /\ UNCHANGED bounds
     \/ Fault("write") /\ files' = files \ {p} /\ lost' = lost \cup {p}
  /\ FileCreated
  /\ UNCHANGED <<storerVars, folders, history>>

(* A D-Bus object with the path of the file appears and disappears again.  *)
Announce ==
  /\ announced' = Append(announced, FolderAt(call.path))
  /\ nextEntry' = nextEntry + 1

(* The entry goes into the first queue with room.                          *)
PushEntry(path) ==
  IF Len(logEntrySavedQueue) < maxNumSavedLogEntries
  THEN /\ logEntrySavedQueue' = Append(logEntrySavedQueue, path)
       /\ everSaved' = everSaved \cup {path}
       /\ UNCHANGED logEntryQueue
  ELSE /\ logEntryQueue' = Append(logEntryQueue, path)
       /\ UNCHANGED <<logEntrySavedQueue, everSaved>>

CreateEntry ==
  /\ call.step = "notify"
  /\ \/ /\ Announce
        /\ PushEntry(call.path)
        /\ stored' = Append(stored, call.path)
        /\ Return("true")
        /\ UNCHANGED bounds
     \/ /\ Fault("dbus")
        /\ Throw
        /\ UNCHANGED <<nextEntry, logEntrySavedQueue, logEntryQueue, history>>
  /\ UNCHANGED <<logServiceId, disk>>

-----------------------------------------------------------------------------
(* The daemon dies, possibly while a file is being written, and starts     *)
(* again with a new ExternalStorerFileInterface on the old files.          *)
Restart ==
  /\ "crash" \in FaultKinds /\ faults < MaxFaults
  /\ faults' = faults + 1 /\ restarts' = restarts + 1
  /\ logServiceId' = "" /\ logEntrySavedQueue' = <<>> /\ logEntryQueue' = <<>>
  /\ nextEntry' = 0
  /\ call' = IdleCall
  /\ result' = "none"
  /\ \/ files' = files
     \/ call.step = "write" /\ files' = files \ {FolderAt(call.path)}
  /\ stored' = <<>>
  /\ UNCHANGED <<folders, lost, everSaved, announced, documents>>

-----------------------------------------------------------------------------
Init ==
  /\ logServiceId = "" /\ logEntrySavedQueue = <<>> /\ logEntryQueue = <<>>
  /\ nextEntry = 0
  /\ call = IdleCall
  /\ result = "none"
  /\ folders = {} /\ files = {} /\ lost = {}
  /\ stored = <<>> /\ everSaved = {} /\ announced = <<>>
  /\ documents = 0 /\ restarts = 0 /\ faults = 0

Next ==
  \/ PublishJson \/ RemoveOldest
  \/ CreateFolder \/ WriteFile \/ CreateEntry
  \/ Restart

Spec == Init /\ [][Next]_vars

-----------------------------------------------------------------------------
(* Properties.                                                             *)

Tracked == ToSet(logEntrySavedQueue) \cup ToSet(logEntryQueue)
EntryFolders == {p \in folders : Len(p) = Len(baseDir) + 4 /\ p[Len(p) - 1] = "Entries"}

(* Every variable keeps its type, and the notifier counts what it          *)
(* announced since the daemon started.                                     *)
TypeOK ==
  /\ logServiceId \in STRING
  /\ Len(logEntrySavedQueue) <= maxNumSavedLogEntries
  /\ Len(logEntryQueue) <= maxNumLogEntries
  /\ call.step \in {"idle", "remove", "folder", "write", "notify"}
  /\ call.purpose \in {"none", "entry", "service", "entries", "other"}
  /\ result \in {"none", "true", "false", "throws"}
  /\ files \subseteq folders
  /\ nextEntry = Len(stored)
  /\ documents \in 0 .. MaxDocuments

(* Whatever fails and however often publishJson gives up half way, the     *)
(* first maxNumSavedLogEntries entries that were published and the latest  *)
(* maxNumLogEntries of the others are kept, but for one that has made room *)
(* for an entry that then was not stored; and all of them are on disk, but *)
(* for those whose write was lost without anyone noticing.                 *)
KeepsFirstAndLatest ==
  LET saved == Len(logEntrySavedQueue)
      latest == Len(logEntryQueue)
      others == Len(stored) - saved
  IN /\ logEntrySavedQueue = SubSeq(stored, 1, saved)
     /\ others > 0 => saved = maxNumSavedLogEntries
     /\ logEntryQueue = SubSeq(stored, Len(stored) - latest + 1, Len(stored))
     /\ latest = others \/ latest \in {maxNumLogEntries - 1, maxNumLogEntries}
     /\ \A p \in Tracked : FolderAt(p) \in files \cup lost

(* As long as nothing fails, the entries on disk are exactly those two     *)
(* groups: nothing is left behind and nothing is missing.                  *)
OnlyRetainedOnDisk ==
  faults = 0 /\ call.step = "idle" =>
    /\ EntryFolders = {FolderAt(p) : p \in Tracked}
    /\ Len(logEntryQueue) = IF Len(stored) <= maxNumSavedLogEntries + maxNumLogEntries
                            THEN Len(stored) - Len(logEntrySavedQueue)
                            ELSE maxNumLogEntries

(* An entry that was once among the saved ones is never removed, also not  *)
(* by a later daemon that has forgotten it.  It is missing only if its     *)
(* write was lost.                                                         *)
SavedForGood == \A p \in everSaved : FolderAt(p) \in files \cup lost

(* The folders of entries are bounded: each start of the daemon and each   *)
(* failed operation can leave some behind that nobody will remove.         *)
FoldersBounded ==
  Cardinality(EntryFolders) <=
    (maxNumSavedLogEntries + maxNumLogEntries) * (restarts + 1) + faults

(* "true if successful" (createFile, external_storer_file.hpp): when       *)
(* publishJson returns true, the files of the document are complete.       *)
ReportedIsStored ==
  [][call.step # "idle" /\ call'.step = "idle" /\ result' = "true" =>
       /\ FolderAt(call.path) \in files'
       /\ call.purpose = "entries" => Front(FolderAt(call.path)) \in files']_vars

(* D-Bus clients hear of an entry only once its file was written, which    *)
(* may have failed without anyone noticing.                                *)
AnnouncedIsStored ==
  [][announced' # announced => Last(announced') \in files \cup lost]_vars

(* The service folder of an entry with its index.json and                  *)
(* Entries/index.json.                                                     *)
HasService(p) == {SubSeq(p, 1, Len(p) - 2), Front(p)} \subseteq files

(* Every document for the service lies at the path of its Id, a plain name.*)
InPlace(s) ==
  \A d \in Documents :
    IsA(d, "logService") /\ ~LacksServiceField(d) /\ ~Mistyped(d) /\ d.id.value = s
      => /\ s \notin {"", ".", ".."} /\ d.odataId.kind = "string"
         /\ d.odataId.value = ServicePath(s)

(* As long as no file operation fails, an entry is added only to a service *)
(* whose two files are there, also when the daemon dies while it creates   *)
(* them, or is sent another service, or the same one again.  The service   *)
(* is one whose documents name the place where its entries go.             *)
ServicesSurviveRestarts ==
  [][faults' = restarts' =>
       \A p \in EntryFolders' \ EntryFolders :
         InPlace(p[Len(p) - 2]) => HasService(p)]_vars

(* "First need a LogService PDR": an entry is added only to a service that *)
(* was created, whatever failed before.                                    *)
EntriesHaveService ==
  [][\A p \in EntryFolders' \ EntryFolders : HasService(p)]_vars

(* Nothing is created outside the root folder, whatever @odata.id says.    *)
BelowRoot == \A p \in folders : IsPrefix(baseDir, p)

(* The check of paths is exact.  It is about paths, not states, and is     *)
(* evaluated in the initial one.                                           *)
ValidIffInside == Init => \A path \in Paths : AcceptedIffInside(path)

=============================================================================
