----------------------------- MODULE SnapshotStore -----------------------------
(***************************************************************************)
(* storage/json_store.py: JsonSnapshotStore.write and read, run by any     *)
(* number of processes on one path.  A write takes a temporary file in the *)
(* directory of the path, fills it through a buffer, closes it and renames *)
(* it over the path; it can fail at any of these, or its process be        *)
(* killed, and what it wrote of the temporary file stays.  A read tests    *)
(* that the path exists, opens it and reads it to its end.                 *)
(*                                                                         *)
(* The snapshot a write stores is numbered by the order in which the       *)
(* snapshots were taken, and its temporary file has the same number: a     *)
(* name NamedTemporaryFile picks is never one in use.  The content of a    *)
(* file is the number of pieces of the document it holds: the JSON text in *)
(* two, then the final newline.                                            *)
(*                                                                         *)
(* mayFollow is a history variable, which no guard reads.  It holds, for a *)
(* snapshot that was published, those whose writes were under way then and *)
(* have not ended since; for any other, all whose writes have not ended.   *)
(***************************************************************************)
EXTENDS Naturals

CONSTANTS Writers, Readers, MaxWrites

ASSUME MaxWritesAssumption == MaxWrites \in Nat

NoFile == 0
Versions == 1..MaxWrites
Body  == 2     \* pieces of the JSON text
Whole == 3     \* with the newline

VARIABLES
  taken,      \* snapshots taken so far
  path,       \* the file the path names: a version, or NoFile
  temporary,  \* the temporary files in the directory
  content,    \* pieces on disk, of each file
  writer,     \* where each writing process is
  version,    \* the snapshot it stores
  buffered,   \* pieces it has written to its handle
  reader,     \* where each reading process is
  opened,     \* the file it reads
  pieces,     \* the pieces it has read
  mayFollow   \* history: the snapshots that may yet come after each

writing == <<writer, version, buffered>>
reading == <<reader, opened, pieces>>
vars == <<taken, path, mayFollow, temporary, content, writing, reading>>

Init ==
  /\ taken = 0
  /\ path = NoFile
  /\ temporary = {}
  /\ content = [v \in Versions |-> 0]
  /\ writer = [w \in Writers |-> "idle"]
  /\ version = [w \in Writers |-> NoFile]
  /\ buffered = [w \in Writers |-> 0]
  /\ reader = [r \in Readers |-> "idle"]
  /\ opened = [r \in Readers |-> NoFile]
  /\ pieces = [r \in Readers |-> 0]
  /\ mayFollow = [v \in Versions |-> Versions]

(* The snapshots being written. *)
UnderWay == {version[w] : w \in {u \in Writers : writer[u] # "idle"}}

(* The history, when w has published its snapshot and its write is over. *)
FollowersOf(w) ==
  [v \in Versions |->
     (IF v = version[w] THEN UnderWay ELSE mayFollow[v]) \ {version[w]}]

-----------------------------------------------------------------------------
(* Writing *)

(* The process has its snapshot and calls write, which sees to the         *)
(* directory; the directory is never removed.                              *)
TakeSnapshot(w) ==
  /\ writer[w] = "idle"
  /\ taken < MaxWrites
  /\ taken' = taken + 1
  /\ writer' = [writer EXCEPT ![w] = "called"]
  /\ version' = [version EXCEPT ![w] = taken + 1]
  /\ buffered' = [buffered EXCEPT ![w] = 0]
  /\ UNCHANGED <<path, mayFollow, temporary, content, reading>>

CreateTemporary(w) ==
  /\ writer[w] = "called"
  /\ writer' = [writer EXCEPT ![w] = "open"]
  /\ temporary' = temporary \cup {version[w]}
  /\ UNCHANGED <<taken, path, mayFollow, content, version, buffered, reading>>

(* handle.write of the JSON text, then of the newline *)
WriteBody(w) ==
  /\ writer[w] = "open" /\ buffered[w] = 0
  /\ buffered' = [buffered EXCEPT ![w] = Body]
  /\ UNCHANGED <<taken, path, mayFollow, temporary, content, writer, version, reading>>

WriteNewline(w) ==
  /\ writer[w] = "open" /\ buffered[w] = Body
  /\ buffered' = [buffered EXCEPT ![w] = Whole]
  /\ UNCHANGED <<taken, path, mayFollow, temporary, content, writer, version, reading>>

(* The buffer runs full: a piece more of what was written reaches the file. *)
Flush(w) ==
  /\ writer[w] = "open" /\ content[version[w]] < buffered[w]
  /\ content' = [content EXCEPT ![version[w]] = @ + 1]
  /\ UNCHANGED <<taken, path, mayFollow, temporary, writing, reading>>

(* Mutants: the handle is left open, what is in the buffer stays there;    *)
(* the writer takes temporary files for locks and waits for them.          *)
Close_NoFlush(w) ==
  /\ writer[w] = "open" /\ buffered[w] = Whole
  /\ writer' = [writer EXCEPT ![w] = "closed"]
  /\ UNCHANGED <<taken, path, mayFollow, temporary, content, version, buffered, reading>>

Close_WaitsForOthers(w) ==
  /\ writer[w] = "open" /\ buffered[w] = Whole
  /\ temporary = {version[w]}
  /\ content' = [content EXCEPT ![version[w]] = Whole]
  /\ writer' = [writer EXCEPT ![w] = "closed"]
  /\ UNCHANGED <<taken, path, mayFollow, temporary, version, buffered, reading>>

(* Leaving the with statement closes the handle: the rest is written. *)
Close(w) ==
  /\ writer[w] = "open" /\ buffered[w] = Whole
  /\ content' = [content EXCEPT ![version[w]] = Whole]
  /\ writer' = [writer EXCEPT ![w] = "closed"]
  /\ UNCHANGED <<taken, path, mayFollow, temporary, version, buffered, reading>>

(* Mutants: the rename happens inside the with statement, before the       *)
(* handle is closed; the path is removed first when it exists; whichever   *)
(* temporary file is there is renamed.                                     *)
Replace_BeforeClose(w) ==
  /\ writer[w] = "open" /\ buffered[w] = Whole
  /\ path' = version[w]
  /\ mayFollow' = FollowersOf(w)
  /\ temporary' = temporary \ {version[w]}
  /\ writer' = [writer EXCEPT ![w] = "idle"]
  /\ UNCHANGED <<taken, content, version, buffered, reading>>
Replace_RemovesFirst(w) ==
  /\ writer[w] = "closed"
  /\ IF path # NoFile
     THEN /\ path' = NoFile
          /\ UNCHANGED <<mayFollow, temporary, writer>>
     ELSE /\ path' = version[w]
          /\ mayFollow' = FollowersOf(w)
          /\ temporary' = temporary \ {version[w]}
          /\ writer' = [writer EXCEPT ![w] = "idle"]
  /\ UNCHANGED <<taken, content, version, buffered, reading>>

Replace_SomeTemporary(w) ==
  /\ writer[w] = "closed"
  /\ path' \in temporary
  /\ mayFollow' = FollowersOf(w)
  /\ temporary' = temporary \ {path'}
  /\ writer' = [writer EXCEPT ![w] = "idle"]
  /\ UNCHANGED <<taken, content, version, buffered, reading>>

(* os.replace *)
Replace(w) ==
  /\ writer[w] = "closed"
  /\ path' = version[w]
  /\ mayFollow' = FollowersOf(w)
  /\ temporary' = temporary \ {version[w]}
  /\ writer' = [writer EXCEPT ![w] = "idle"]
  /\ UNCHANGED <<taken, content, version, buffered, reading>>

(* Creating, writing, closing or renaming raises, or the process is        *)
(* killed: the write is over, and nobody removes the temporary file.  The  *)
(* exception closes the handle, which may still flush; a kill does not.    *)
Fail(w) ==
  /\ writer[w] # "idle"
  /\ writer' = [writer EXCEPT ![w] = "idle"]
  /\ \E n \in content[version[w]]..buffered[w] :
        content' = [content EXCEPT ![version[w]] = n]
  /\ mayFollow' = [v \in Versions |-> mayFollow[v] \ {version[w]}]
  /\ UNCHANGED <<taken, path, temporary, version, buffered, reading>>

-----------------------------------------------------------------------------
(* Reading *)

(* self.path.exists() *)
TestExists(r) ==
  /\ reader[r] = "idle"
  /\ reader' = [reader EXCEPT ![r] = IF path = NoFile THEN "none" ELSE "exists"]
  /\ UNCHANGED <<taken, path, mayFollow, temporary, content, writing, opened, pieces>>

(* Mutant: the reader waits for the directory to be clear of temporary     *)
(* files.                                                                  *)
Open_WaitsForWriters(r) ==
  /\ reader[r] = "exists" /\ temporary = {}
  /\ reader' = [reader EXCEPT ![r] = "open"]
  /\ opened' = [opened EXCEPT ![r] = path]
  /\ UNCHANGED <<taken, path, mayFollow, temporary, content, writing, pieces>>

(* read_text opens the path, and raises if it is gone since the test.  The *)
(* open file stays the one opened when the path is renamed over.           *)
Open(r) ==
  /\ reader[r] = "exists"
  /\ reader' = [reader EXCEPT ![r] = IF path = NoFile THEN "raised" ELSE "open"]
  /\ opened' = [opened EXCEPT ![r] = path]
  /\ UNCHANGED <<taken, path, mayFollow, temporary, content, writing, pieces>>

ReadPiece(r) ==
  /\ reader[r] = "open" /\ pieces[r] < content[opened[r]]
  /\ pieces' = [pieces EXCEPT ![r] = @ + 1]
  /\ UNCHANGED <<taken, path, mayFollow, temporary, content, writing, reader, opened>>

(* The end of the file: the text is validated, and a document cut short    *)
(* is rejected; one without the newline is not.                            *)
Validate(r) ==
  /\ reader[r] = "open" /\ pieces[r] = content[opened[r]]
  /\ reader' = [reader EXCEPT ![r] = IF pieces[r] >= Body THEN "snapshot" ELSE "raised"]
  /\ UNCHANGED <<taken, path, mayFollow, temporary, content, writing, opened, pieces>>

(* Mutant: the read begins again if the file was replaced meanwhile. *)
Finish_ReadsAgain(r) ==
  /\ reader[r] \in {"none", "snapshot", "raised"}
  /\ reader' = [reader EXCEPT ![r] = IF opened[r] \in {NoFile, path} THEN "idle" ELSE "exists"]
  /\ opened' = [opened EXCEPT ![r] = NoFile]
  /\ pieces' = [pieces EXCEPT ![r] = 0]
  /\ UNCHANGED <<taken, path, mayFollow, temporary, content, writing>>

(* read returns, or its exception ends it. *)
Finish(r) ==
  /\ reader[r] \in {"none", "snapshot", "raised"}
  /\ reader' = [reader EXCEPT ![r] = "idle"]
  /\ opened' = [opened EXCEPT ![r] = NoFile]
  /\ pieces' = [pieces EXCEPT ![r] = 0]
  /\ UNCHANGED <<taken, path, mayFollow, temporary, content, writing>>

-----------------------------------------------------------------------------

WriterStep(w) ==
  \/ CreateTemporary(w) \/ WriteBody(w) \/ WriteNewline(w)
  \/ Flush(w) \/ Close(w) \/ Replace(w)

ReaderStep(r) ==
  \/ Open(r) \/ ReadPiece(r) \/ Validate(r) \/ Finish(r)

Next ==
  \/ \E w \in Writers : TakeSnapshot(w) \/ WriterStep(w) \/ Fail(w)
  \/ \E r \in Readers : TestExists(r) \/ ReaderStep(r)

Spec == Init /\ [][Next]_vars

(* A process that has begun a read or a write goes on with it; nothing     *)
(* obliges one to begin.                                                   *)
FairSpec ==
  /\ Spec
  /\ \A w \in Writers : WF_vars(WriterStep(w))
  /\ \A r \in Readers : WF_vars(ReaderStep(r))

-----------------------------------------------------------------------------
(* Properties *)

TypeOK ==
  /\ taken \in 0..MaxWrites
  /\ path \in Versions \cup {NoFile}
  /\ temporary \in SUBSET Versions
  /\ content \in [Versions -> 0..Whole]
  /\ writer \in [Writers -> {"idle", "called", "open", "closed"}]
  /\ version \in [Writers -> Versions \cup {NoFile}]
  /\ buffered \in [Writers -> {0, Body, Whole}]
  /\ reader \in [Readers -> {"idle", "none", "exists", "open", "snapshot", "raised"}]
  /\ opened \in [Readers -> Versions \cup {NoFile}]
  /\ pieces \in [Readers -> 0..Whole]
  /\ mayFollow \in [Versions -> SUBSET Versions]

(* No reader ever fails or gets a part of a snapshot, whatever the writers *)
(* do between its steps, at whatever point they fail or are killed.        *)
ReadersSeeWholeSnapshots ==
  \A r \in Readers :
     /\ reader[r] # "raised"
     /\ reader[r] = "snapshot" => pieces[r] = Whole

(* The file at the path and every file a reader has open are complete, no  *)
(* writer is at work on them and no temporary name for them is left: what  *)
(* lies about in the directory is from writes under way or failed.         *)
PublishedIsFinal ==
  \A v \in {path} \cup {opened[r] : r \in Readers} :
     v # NoFile =>
       /\ content[v] = Whole /\ v \notin temporary
       /\ \A w \in Writers : writer[w] # "idle" => version[w] # v

(* Once there is a snapshot there is always one. *)
NeverDisappears == [][path # NoFile => path' # NoFile]_path

(* With one writing process at a time the file only ever moves forward to  *)
(* a later snapshot, through any number of failures and restarts.          *)
MovesForward == [][path' > path]_path

(* With more than one the last rename wins, with an older snapshot         *)
(* perhaps.  But an older one comes after a published one, at once or any  *)
(* time later, only by a write that was under way when that was published  *)
(* and not interrupted since: what begins after a publication never brings *)
(* the file behind it, and neither what was replaced nor what an           *)
(* interrupted write left there ever comes back.                           *)
OnlyOverlapGoesBack ==
  [][\A v \in Versions : path' < v => path' \in mayFollow[v]]_path

(* The steps a read or a write has left, at most. *)
StepsToRead(r) ==
  CASE reader[r] = "idle"                           -> 0
    [] reader[r] \in {"none", "snapshot", "raised"} -> 1
    [] reader[r] = "open"                           -> 2 + Whole - pieces[r]
    [] reader[r] = "exists"                         -> 3 + Whole

StepsToWrite(w) ==
  CASE writer[w] = "idle"   -> 0
    [] writer[w] = "closed" -> 1
    [] writer[w] = "open"   -> 2 + (Whole - buffered[w]) + (Whole - content[version[w]])
    [] writer[w] = "called" -> 3 + 2 * Whole

(* Nobody makes anybody's way longer: a read or write under way ends after *)
(* a fixed number of its own steps, whatever the others do meanwhile and   *)
(* however often the file is replaced.                                     *)
StepsAreBounded ==
  [][/\ \A r \in Readers : reader[r] # "idle" =>
          /\ StepsToRead(r) \in Nat
          /\ \/ StepsToRead(r)' < StepsToRead(r)
             \/ UNCHANGED <<reader[r], opened[r], pieces[r]>>
     /\ \A w \in Writers : writer[w] # "idle" =>
          /\ StepsToWrite(w) \in Nat
          /\ \/ StepsToWrite(w)' < StepsToWrite(w)
             \/ UNCHANGED <<writer[w], version[w], buffered[w], content[version[w]]>>]_vars

(* A write that is not interrupted for good ends: published or failed. *)
EveryWriteEnds == \A w \in Writers : writer[w] # "idle" ~> writer[w] = "idle"

(* Every read ends, even while writers keep replacing the file. *)
EveryReadEnds == \A r \in Readers : reader[r] # "idle" ~> reader[r] = "idle"

(* The read sees one moment of the file: the test, when there is no file,  *)
(* and the opening otherwise.                                              *)
NoView == MaxWrites + 1
View ==
  [r \in Readers |->
     CASE reader[r] \in {"idle", "exists"}  -> NoView
       [] reader[r] \in {"none", "raised"}  -> NoFile
       [] OTHER                             -> IF content[opened[r]] = Whole
                                               THEN opened[r] ELSE NoFile]

File == INSTANCE SnapshotFile WITH current <- path, view <- View
FileSpec == File!Spec

=============================================================================
