-------------------------- MODULE SnapshotStoreProofs --------------------------
(***************************************************************************)
(* Theorems about SnapshotStore for any sets of writing and reading        *)
(* processes and any number of writes.                                     *)
(***************************************************************************)
EXTENDS SnapshotStore, TLAPS

Busy(w) == writer[w] # "idle"

(* Who works on which file.  Two writes never share a temporary file; the  *)
(* file of a write under way is neither published nor open for reading.    *)
WriterInv ==
  /\ \A w \in Writers : Busy(w) => version[w] \in 1..taken /\ version[w] # path
  /\ \A u, w \in Writers : Busy(u) /\ Busy(w) /\ version[u] = version[w] => u = w
  /\ \A w \in Writers, r \in Readers : Busy(w) => version[w] # opened[r]
  /\ \A w \in Writers : writer[w] = "closed" => content[version[w]] = Whole
  /\ \A w \in Writers : Busy(w) => content[version[w]] <= Whole

(* The published file and the open ones are whole, have been numbered and  *)
(* have no temporary name.                                                 *)
FileInv ==
  /\ path <= taken
  /\ path # NoFile => content[path] = Whole
  /\ temporary \subseteq 1..taken
  /\ path \notin temporary
  /\ \A r \in Readers : /\ opened[r] <= taken /\ opened[r] \notin temporary
                        /\ opened[r] # NoFile => content[opened[r]] = Whole

(* Where a read is: a file it was told of exists, the one it reads is open *)
(* and was read to the end when it is validated.                           *)
ReaderInv ==
  \A r \in Readers :
    /\ reader[r] # "raised"
    /\ reader[r] = "exists" => path # NoFile
    /\ reader[r] \in {"open", "snapshot"} => opened[r] # NoFile
    /\ reader[r] = "snapshot" => pieces[r] = Whole

Inv == TypeOK /\ WriterInv /\ FileInv /\ ReaderInv

LEMMA InvInit == Init => Inv
  BY MaxWritesAssumption
     DEF Init, Inv, TypeOK, WriterInv, FileInv, ReaderInv, Busy, Versions, NoFile, Whole, Body

(* A busy writer's version and an open file are files. *)
LEMMA FilesAreVersions ==
  ASSUME Inv
  PROVE  /\ \A w \in Writers : Busy(w) => version[w] \in Versions /\ content[version[w]] \in 0..Whole
         /\ path # NoFile => path \in Versions
         /\ \A r \in Readers : opened[r] # NoFile => opened[r] \in Versions
         /\ taken \in Nat /\ 1..taken \subseteq Versions
  BY MaxWritesAssumption DEF Inv, TypeOK, WriterInv, Versions, NoFile

LEMMA TakeSnapshotPreserves ==
  ASSUME Inv, NEW w \in Writers, TakeSnapshot(w)
  PROVE  Inv'
  <1> USE FilesAreVersions, MaxWritesAssumption DEF Inv, TakeSnapshot, writing, reading
  <1>1. TypeOK'
    BY DEF TypeOK, Versions, NoFile, Whole, Body, Busy
  <1>2. WriterInv'
    <2>1. taken' = taken + 1 /\ taken + 1 \in 1..taken' /\ 1..taken \subseteq 1..taken'
      OBVIOUS
    <2>2. \A u \in Writers : /\ Busy(u)' <=> u = w \/ Busy(u)
                             /\ version'[u] = IF u = w THEN taken + 1 ELSE version[u]
      BY DEF TypeOK, Busy
    <2>3. \A u \in Writers : Busy(u) => version[u] \in 1..taken /\ version[u] # taken + 1
      BY DEF WriterInv
    <2>4. path # taken + 1 /\ \A r \in Readers : opened[r] # taken + 1
      BY DEF FileInv, TypeOK, NoFile, Versions
    <2>5. \A u \in Writers : Busy(u)' => version'[u] \in 1..taken' /\ version'[u] # path'
      <3>1. UNCHANGED path
        OBVIOUS
      <3> QED BY <2>1, <2>2, <2>3, <2>4, <3>1 DEF WriterInv
    <2>6. \A u, v \in Writers : Busy(u)' /\ Busy(v)' /\ version'[u] = version'[v] => u = v
      BY <2>2, <2>3 DEF WriterInv
    <2>7. \A u \in Writers, r \in Readers : Busy(u)' => version'[u] # opened'[r]
      BY <2>2, <2>4 DEF WriterInv
    <2>8. \A u \in Writers : writer'[u] = "closed" => content'[version'[u]] = Whole
      <3> SUFFICES ASSUME NEW u \in Writers, writer'[u] = "closed"
                   PROVE  content[version'[u]] = Whole
        OBVIOUS
      <3>1. u # w /\ writer[u] = "closed"
        BY DEF TypeOK
      <3> QED BY <2>2, <3>1 DEF WriterInv
    <2>9. \A u \in Writers : Busy(u)' => content'[version'[u]] <= Whole
      <3>1. taken + 1 \in Versions /\ UNCHANGED content
        BY DEF TypeOK, Versions
      <3>2. \A v \in Versions : content[v] <= Whole
        BY DEF TypeOK, Whole
      <3> QED BY <2>2, <3>1, <3>2
    <2> QED BY <2>5, <2>6, <2>7, <2>8, <2>9 DEF WriterInv
  <1>3. FileInv'
    <2>1. taken' = taken + 1 /\ 1..taken \subseteq 1..taken'
      OBVIOUS
    <2>2. path \in Nat /\ \A r \in Readers : opened[r] \in Nat
      BY DEF TypeOK, Versions, NoFile
    <2>3. path <= taken' /\ \A r \in Readers : opened[r] <= taken'
      BY <2>1, <2>2 DEF FileInv
    <2>4. UNCHANGED <<path, temporary, content, opened>>
      OBVIOUS
    <2> QED BY <2>1, <2>3, <2>4 DEF FileInv
  <1>4. ReaderInv'
    BY DEF TypeOK, WriterInv, FileInv, ReaderInv, NoFile, Whole, Body, Busy
  <1> QED BY <1>1, <1>2, <1>3, <1>4

LEMMA CreateTemporaryPreserves ==
  ASSUME Inv, NEW w \in Writers, CreateTemporary(w)
  PROVE  Inv'
  <1> USE FilesAreVersions, MaxWritesAssumption DEF Inv, CreateTemporary, writing, reading
  <1>1. TypeOK'
    BY DEF TypeOK, Versions, NoFile, Whole, Body, Busy
  <1>2. WriterInv'
    BY DEF TypeOK, WriterInv, FileInv, NoFile, Whole, Body, Busy
  <1>3. FileInv'
    BY DEF TypeOK, WriterInv, FileInv, NoFile, Whole, Body, Busy
  <1>4. ReaderInv'
    BY DEF TypeOK, WriterInv, FileInv, ReaderInv, NoFile, Whole, Body, Busy
  <1> QED BY <1>1, <1>2, <1>3, <1>4

LEMMA WriteBodyPreserves ==
  ASSUME Inv, NEW w \in Writers, WriteBody(w)
  PROVE  Inv'
  <1> USE FilesAreVersions, MaxWritesAssumption DEF Inv, WriteBody, writing, reading
  <1>1. TypeOK'
    BY DEF TypeOK, Versions, NoFile, Whole, Body, Busy
  <1>2. WriterInv'
    BY DEF TypeOK, WriterInv, FileInv, NoFile, Whole, Body, Busy
  <1>3. FileInv'
    BY DEF TypeOK, WriterInv, FileInv, NoFile, Whole, Body, Busy
  <1>4. ReaderInv'
    BY DEF TypeOK, WriterInv, FileInv, ReaderInv, NoFile, Whole, Body, Busy
  <1> QED BY <1>1, <1>2, <1>3, <1>4

LEMMA WriteNewlinePreserves ==
  ASSUME Inv, NEW w \in Writers, WriteNewline(w)
  PROVE  Inv'
  <1> USE FilesAreVersions, MaxWritesAssumption DEF Inv, WriteNewline, writing, reading
  <1>1. TypeOK'
    BY DEF TypeOK, Versions, NoFile, Whole, Body, Busy
  <1>2. WriterInv'
    BY DEF TypeOK, WriterInv, FileInv, NoFile, Whole, Body, Busy
  <1>3. FileInv'
    BY DEF TypeOK, WriterInv, FileInv, NoFile, Whole, Body, Busy
  <1>4. ReaderInv'
    BY DEF TypeOK, WriterInv, FileInv, ReaderInv, NoFile, Whole, Body, Busy
  <1> QED BY <1>1, <1>2, <1>3, <1>4

LEMMA FlushPreserves ==
  ASSUME Inv, NEW w \in Writers, Flush(w)
  PROVE  Inv'
  <1> USE FilesAreVersions, MaxWritesAssumption DEF Inv, Flush, writing, reading
  <1>1. TypeOK'
    <2>1. version[w] \in Versions /\ content[version[w]] + 1 \in 0..Whole
      BY DEF TypeOK, Whole, Body, Busy
    <2>2. content' = [content EXCEPT ![version[w]] = content[version[w]] + 1]
      OBVIOUS
    <2> HIDE FilesAreVersions, MaxWritesAssumption
    <2> QED BY <2>1, <2>2 DEF TypeOK
  <1>2. WriterInv'
    BY DEF TypeOK, WriterInv, FileInv, NoFile, Whole, Body, Busy
  <1>3. FileInv'
    BY DEF TypeOK, WriterInv, FileInv, NoFile, Whole, Body, Busy
  <1>4. ReaderInv'
    BY DEF TypeOK, WriterInv, FileInv, ReaderInv, NoFile, Whole, Body, Busy
  <1> QED BY <1>1, <1>2, <1>3, <1>4

LEMMA ClosePreserves ==
  ASSUME Inv, NEW w \in Writers, Close(w)
  PROVE  Inv'
  <1> USE FilesAreVersions, MaxWritesAssumption DEF Inv, Close, writing, reading
  <1>1. TypeOK'
    BY DEF TypeOK, Versions, NoFile, Whole, Body, Busy
  <1>2. WriterInv'
    BY DEF TypeOK, WriterInv, FileInv, NoFile, Whole, Body, Busy
  <1>3. FileInv'
    BY DEF TypeOK, WriterInv, FileInv, NoFile, Whole, Body, Busy
  <1>4. ReaderInv'
    BY DEF TypeOK, WriterInv, FileInv, ReaderInv, NoFile, Whole, Body, Busy
  <1> QED BY <1>1, <1>2, <1>3, <1>4

LEMMA ReplacePreserves ==
  ASSUME Inv, NEW w \in Writers, Replace(w)
  PROVE  Inv'
  <1> USE FilesAreVersions, MaxWritesAssumption DEF Inv, Replace, writing, reading
  <1>1. TypeOK'
    <2>1. UnderWay \subseteq Versions
      BY DEF UnderWay, Busy
    <2>2. FollowersOf(w) \in [Versions -> SUBSET Versions]
      BY <2>1 DEF FollowersOf, TypeOK
    <2>3. version[w] \in Versions
      BY DEF Busy
    <2> HIDE FilesAreVersions, MaxWritesAssumption
    <2> QED BY <2>2, <2>3 DEF TypeOK
  <1>2. WriterInv'
    BY DEF TypeOK, WriterInv, FileInv, NoFile, Whole, Body, Busy
  <1>3. FileInv'
    <2>1. version[w] \in 1..taken /\ content[version[w]] = Whole
      BY DEF WriterInv, Busy
    <2>2. path' = version[w] /\ temporary' = temporary \ {version[w]}
          /\ UNCHANGED <<taken, content, opened>>
      OBVIOUS
    <2>3. path' <= taken' /\ content'[path'] = Whole
      BY <2>1, <2>2
    <2>4. temporary' \subseteq 1..taken' /\ path' \notin temporary'
      BY <2>1, <2>2 DEF FileInv
    <2> QED BY <2>2, <2>3, <2>4 DEF FileInv
  <1>4. ReaderInv'
    BY DEF TypeOK, WriterInv, FileInv, ReaderInv, NoFile, Whole, Body, Busy
  <1> QED BY <1>1, <1>2, <1>3, <1>4

LEMMA FailPreserves ==
  ASSUME Inv, NEW w \in Writers, Fail(w)
  PROVE  Inv'
  <1> USE FilesAreVersions, MaxWritesAssumption DEF Inv, Fail, writing, reading
  <1>1. TypeOK'
    <2>1. version[w] \in Versions
      BY DEF Busy
    <2>2. PICK n \in content[version[w]]..buffered[w] :
             content' = [content EXCEPT ![version[w]] = n]
      OBVIOUS
    <2>3. n \in 0..Whole
      BY <2>1 DEF TypeOK, Whole, Body
    <2> HIDE FilesAreVersions, MaxWritesAssumption
    <2> QED BY <2>1, <2>2, <2>3 DEF TypeOK
  <1>2. WriterInv'
    BY DEF TypeOK, WriterInv, FileInv, NoFile, Whole, Body, Busy
  <1>3. FileInv'
    BY DEF TypeOK, WriterInv, FileInv, NoFile, Whole, Body, Busy
  <1>4. ReaderInv'
    BY DEF TypeOK, WriterInv, FileInv, ReaderInv, NoFile, Whole, Body, Busy
  <1> QED BY <1>1, <1>2, <1>3, <1>4

LEMMA TestExistsPreserves ==
  ASSUME Inv, NEW r \in Readers, TestExists(r)
  PROVE  Inv'
  <1> USE FilesAreVersions, MaxWritesAssumption DEF Inv, TestExists, writing, reading
  <1>1. TypeOK'
    BY DEF TypeOK, Versions, NoFile, Whole, Body, Busy
  <1>2. WriterInv'
    BY DEF TypeOK, WriterInv, FileInv, NoFile, Whole, Body, Busy
  <1>3. FileInv'
    BY DEF TypeOK, WriterInv, FileInv, NoFile, Whole, Body, Busy
  <1>4. ReaderInv'
    BY DEF TypeOK, WriterInv, FileInv, ReaderInv, NoFile, Whole, Body, Busy
  <1> QED BY <1>1, <1>2, <1>3, <1>4

LEMMA OpenPreserves ==
  ASSUME Inv, NEW r \in Readers, Open(r)
  PROVE  Inv'
  <1> USE FilesAreVersions, MaxWritesAssumption DEF Inv, Open, writing, reading
  <1>1. TypeOK'
    BY DEF TypeOK, Versions, NoFile, Whole, Body, Busy
  <1>2. WriterInv'
    BY DEF TypeOK, WriterInv, FileInv, NoFile, Whole, Body, Busy
  <1>3. FileInv'
    BY DEF TypeOK, WriterInv, FileInv, NoFile, Whole, Body, Busy
  <1>4. ReaderInv'
    BY DEF TypeOK, WriterInv, FileInv, ReaderInv, NoFile, Whole, Body, Busy
  <1> QED BY <1>1, <1>2, <1>3, <1>4

LEMMA ReadPiecePreserves ==
  ASSUME Inv, NEW r \in Readers, ReadPiece(r)
  PROVE  Inv'
  <1> USE FilesAreVersions, MaxWritesAssumption DEF Inv, ReadPiece, writing, reading
  <1>1. TypeOK'
    <2>1. opened[r] \in Versions /\ content[opened[r]] \in 0..Whole
      BY DEF ReaderInv, TypeOK
    <2>2. pieces[r] + 1 \in 0..Whole
      BY <2>1 DEF TypeOK, Whole
    <2>3. pieces' \in [Readers -> 0..Whole]
      BY <2>2 DEF TypeOK
    <2> QED BY <2>3 DEF TypeOK
  <1>2. WriterInv'
    BY DEF TypeOK, WriterInv, FileInv, NoFile, Whole, Body, Busy
  <1>3. FileInv'
    BY DEF TypeOK, WriterInv, FileInv, NoFile, Whole, Body, Busy
  <1>4. ReaderInv'
    BY DEF TypeOK, WriterInv, FileInv, ReaderInv, NoFile, Whole, Body, Busy
  <1> QED BY <1>1, <1>2, <1>3, <1>4

LEMMA ValidatePreserves ==
  ASSUME Inv, NEW r \in Readers, Validate(r)
  PROVE  Inv'
  <1> USE FilesAreVersions, MaxWritesAssumption DEF Inv, Validate, writing, reading
  <1>1. TypeOK'
    BY DEF TypeOK, Versions, NoFile, Whole, Body, Busy
  <1>2. WriterInv'
    BY DEF TypeOK, WriterInv, FileInv, NoFile, Whole, Body, Busy
  <1>3. FileInv'
    BY DEF TypeOK, WriterInv, FileInv, NoFile, Whole, Body, Busy
  <1>4. ReaderInv'
    BY DEF TypeOK, WriterInv, FileInv, ReaderInv, NoFile, Whole, Body, Busy
  <1> QED BY <1>1, <1>2, <1>3, <1>4

LEMMA FinishPreserves ==
  ASSUME Inv, NEW r \in Readers, Finish(r)
  PROVE  Inv'
  <1> USE FilesAreVersions, MaxWritesAssumption DEF Inv, Finish, writing, reading
  <1>1. TypeOK'
    BY DEF TypeOK, Versions, NoFile, Whole, Body, Busy
  <1>2. WriterInv'
    BY DEF TypeOK, WriterInv, FileInv, NoFile, Whole, Body, Busy
  <1>3. FileInv'
    BY DEF TypeOK, WriterInv, FileInv, NoFile, Whole, Body, Busy
  <1>4. ReaderInv'
    BY DEF TypeOK, WriterInv, FileInv, ReaderInv, NoFile, Whole, Body, Busy
  <1> QED BY <1>1, <1>2, <1>3, <1>4

LEMMA InvNext == Inv /\ [Next]_vars => Inv'
  <1> SUFFICES ASSUME Inv, [Next]_vars PROVE Inv'
    OBVIOUS
  <1>1. CASE UNCHANGED vars
    BY <1>1 DEF vars, writing, reading, Inv, TypeOK, WriterInv, FileInv, ReaderInv, Busy
  <1>2. ASSUME NEW w \in Writers, TakeSnapshot(w) \/ WriterStep(w) \/ Fail(w)
        PROVE  Inv'
    BY <1>2, TakeSnapshotPreserves, CreateTemporaryPreserves, WriteBodyPreserves,
       WriteNewlinePreserves, FlushPreserves, ClosePreserves, ReplacePreserves,
       FailPreserves DEF WriterStep
  <1>3. ASSUME NEW r \in Readers, TestExists(r) \/ ReaderStep(r)
        PROVE  Inv'
    BY <1>3, TestExistsPreserves, OpenPreserves, ReadPiecePreserves, ValidatePreserves,
       FinishPreserves DEF ReaderStep
  <1> QED BY <1>1, <1>2, <1>3 DEF Next

LEMMA Invariant == Spec => []Inv
  BY InvInit, InvNext, PTL DEF Spec

THEOREM TypeCorrect == Spec => []TypeOK
  BY Invariant, PTL DEF Inv

(* Readers only ever get whole snapshots and never an error, whatever      *)
(* happens to the writers.                                                 *)
THEOREM ReadersSafe == Spec => []ReadersSeeWholeSnapshots
  <1>1. Inv => ReadersSeeWholeSnapshots
    BY DEF Inv, ReaderInv, ReadersSeeWholeSnapshots
  <1> QED BY <1>1, Invariant, PTL

(* What is published or open for reading is whole, and out of the hands of *)
(* every writer.                                                           *)
THEOREM PublishedFinal == Spec => []PublishedIsFinal
  <1>1. Inv => PublishedIsFinal
    BY DEF Inv, FileInv, WriterInv, Busy, PublishedIsFinal
  <1> QED BY <1>1, Invariant, PTL

(* Only a rename changes the path, to the version of a closed file. *)
LEMMA PathStep ==
  ASSUME Inv, [Next]_vars
  PROVE  path' = path \/ path' \in Versions
  <1>1. ASSUME NEW w \in Writers, Replace(w)
        PROVE  path' \in Versions
    BY <1>1, FilesAreVersions DEF Replace, Busy
  <1>2. ASSUME NEW w \in Writers, TakeSnapshot(w) \/ WriterStep(w) \/ Fail(w), ~Replace(w)
        PROVE  path' = path
    BY <1>2 DEF WriterStep, TakeSnapshot, CreateTemporary, WriteBody, WriteNewline, Flush,
                Close, Fail
  <1>3. ASSUME NEW r \in Readers, TestExists(r) \/ ReaderStep(r)
        PROVE  path' = path
    BY <1>3 DEF ReaderStep, TestExists, Open, ReadPiece, Validate, Finish
  <1> QED BY <1>1, <1>2, <1>3 DEF Next, vars

THEOREM AlwaysThere == Spec => NeverDisappears
  <1>1. Inv /\ [Next]_vars => [path # NoFile => path' # NoFile]_path
    BY PathStep DEF Versions, NoFile
  <1> QED BY <1>1, Invariant, PTL DEF Spec, NeverDisappears

(* The history allows every write under way to come after all later        *)
(* snapshots, and everything that is yet to be taken after one another.    *)
FollowInv ==
  /\ \A w \in Writers, v \in Versions :
        Busy(w) /\ version[w] < v => version[w] \in mayFollow[v]
  /\ \A u, v \in Versions : u > taken /\ v > taken => u \in mayFollow[v]

(* A write that ends takes nothing but its own snapshot from the others;   *)
(* and what it publishes may be followed by all that are still under way.  *)
LEMMA FollowInvNext ==
  ASSUME Inv, FollowInv, [Next]_vars
  PROVE  FollowInv'
  <1> USE FilesAreVersions DEF FollowInv, Busy
  <1>1. ASSUME NEW w \in Writers, TakeSnapshot(w)
        PROVE  FollowInv'
    <2>1. \A u \in Writers : u # w => writer'[u] = writer[u] /\ version'[u] = version[u]
      BY <1>1 DEF TakeSnapshot, Inv, TypeOK
    <2>2. version'[w] = taken + 1 /\ taken + 1 \in Versions
      BY <1>1, MaxWritesAssumption DEF TakeSnapshot, Inv, TypeOK, Versions
    <2>3. taken' = taken + 1 /\ mayFollow' = mayFollow /\ taken \in Nat
      BY <1>1 DEF TakeSnapshot
    <2>4. \A v \in Versions : v \in Nat
      BY DEF Versions
    <2> QED BY <2>1, <2>2, <2>3, <2>4
  <1>2. ASSUME NEW w \in Writers, Replace(w) \/ Fail(w)
        PROVE  FollowInv'
    <2>1. \A u \in Writers : Busy(u)' => Busy(u) /\ u # w /\ version[u] # version[w]
      BY <1>2 DEF Replace, Fail, Inv, TypeOK, WriterInv
    <2>2. version' = version /\ taken' = taken
      BY <1>2 DEF Replace, Fail
    <2>3. version[w] \in 1..taken /\ taken \in Nat
      BY <1>2 DEF Replace, Fail, Inv, WriterInv
    <2>4. ASSUME NEW v \in Versions, NEW u \in Writers, Busy(u)', version[u] < v
          PROVE  version[u] \in mayFollow'[v]
      <3>1. Busy(u) /\ version[u] # version[w] /\ version[u] \in mayFollow[v]
        BY <2>1, <2>4
      <3>2. version[u] \in UnderWay
        BY <3>1 DEF UnderWay
      <3> QED BY <1>2, <3>1, <3>2 DEF Replace, FollowersOf, Fail
    <2>5. ASSUME NEW u \in Versions, NEW v \in Versions, u > taken, v > taken
          PROVE  u \in mayFollow'[v]
      <3>1. u # version[w] /\ v # version[w] /\ u \in mayFollow[v]
        BY <2>3, <2>5
      <3> QED BY <1>2, <3>1 DEF Replace, FollowersOf, Fail
    <2> QED BY <2>1, <2>2, <2>4, <2>5
  <1>3. ASSUME NEW w \in Writers, WriterStep(w), ~Replace(w)
        PROVE  FollowInv'
    <2>1. UNCHANGED <<taken, version, mayFollow>> /\ \A u \in Writers : Busy(u)' => Busy(u)
      BY <1>3 DEF WriterStep, CreateTemporary, WriteBody, WriteNewline, Flush, Close,
                  writing, Inv, TypeOK
    <2> QED BY <2>1
  <1>4. CASE UNCHANGED <<taken, writer, version, mayFollow>>
    BY <1>4
  <1>5. ASSUME NEW r \in Readers, TestExists(r) \/ ReaderStep(r)
        PROVE  UNCHANGED <<taken, writer, version, mayFollow>>
    BY <1>5 DEF ReaderStep, TestExists, Open, ReadPiece, Validate, Finish, writing
  <1> QED BY <1>1, <1>2, <1>3, <1>4, <1>5 DEF Next, vars, writing

(* An older snapshot comes after a published one only by a write that was  *)
(* under way at its publication and still is.                              *)
THEOREM OverlapOnly == Spec => OnlyOverlapGoesBack
  <1>1. Init => FollowInv
    BY DEF Init, FollowInv, Busy
  <1>2. Inv /\ FollowInv /\ [Next]_vars => [\A v \in Versions : path' < v => path' \in mayFollow[v]]_path
    <2> SUFFICES ASSUME Inv, FollowInv, [Next]_vars, path' # path,
                        NEW v \in Versions, path' < v
                 PROVE  path' \in mayFollow[v]
      OBVIOUS
    <2>1. \E w \in Writers : Replace(w)
      <3>1. ASSUME NEW w \in Writers, TakeSnapshot(w) \/ WriterStep(w) \/ Fail(w)
            PROVE  Replace(w)
        BY <3>1 DEF WriterStep, TakeSnapshot, CreateTemporary, WriteBody, WriteNewline,
                    Flush, Close, Fail
      <3>2. ASSUME NEW r \in Readers, TestExists(r) \/ ReaderStep(r)
            PROVE  FALSE
        BY <3>2 DEF ReaderStep, TestExists, Open, ReadPiece, Validate, Finish
      <3> QED BY <3>1, <3>2 DEF Next, vars
    <2>2. PICK w \in Writers : Replace(w)
      BY <2>1
    <2>3. Busy(w) /\ version[w] = path'
      BY <2>2 DEF Replace, Busy
    <2> QED BY <2>3 DEF FollowInv
  <1>3. Inv /\ FollowInv /\ [Next]_vars => FollowInv'
    BY FollowInvNext
  <1> QED BY <1>1, <1>2, <1>3, Invariant, PTL DEF Spec, OnlyOverlapGoesBack

-----------------------------------------------------------------------------
(* Nobody waits for anybody: the measures of StepsAreBounded. *)

(* There is always a number of steps left: no read or write is behind its  *)
(* end.                                                                    *)
LEMMA StepsAreNaturals ==
  ASSUME Inv
  PROVE  /\ \A r \in Readers : StepsToRead(r) \in Nat
         /\ \A w \in Writers : Busy(w) => StepsToWrite(w) \in Nat
  <1> USE DEF Whole, Body
  <1>1. ASSUME NEW r \in Readers PROVE StepsToRead(r) \in Nat
    <2>1. reader[r] \in {"idle", "none", "exists", "open", "snapshot", "raised"}
          /\ pieces[r] \in 0..3
      BY DEF Inv, TypeOK
    <2> QED BY <2>1 DEF StepsToRead
  <1>2. ASSUME NEW w \in Writers, Busy(w) PROVE StepsToWrite(w) \in Nat
    <2>1. writer[w] \in {"idle", "called", "open", "closed"} /\ buffered[w] \in {0, 2, 3}
      BY DEF Inv, TypeOK
    <2>2. content[version[w]] \in 0..3
      BY <1>2, FilesAreVersions
    <2> QED BY <2>1, <2>2 DEF StepsToWrite
  <1> QED BY <1>1, <1>2

(* A step of a reader shortens its own read and touches nothing else.      *)
LEMMA ReaderShortens ==
  ASSUME Inv, NEW r \in Readers, ReaderStep(r)
  PROVE  StepsToRead(r)' < StepsToRead(r)
  <1> USE DEF StepsToRead, Whole, Body
  <1>1. reader \in [Readers -> {"idle", "none", "exists", "open", "snapshot", "raised"}]
        /\ pieces \in [Readers -> 0..3] /\ pieces[r] \in 0..3
    BY DEF Inv, TypeOK
  <1>2. CASE Open(r)
    BY <1>1, <1>2 DEF Open
  <1>3. CASE ReadPiece(r)
    <2>1. opened[r] \in Versions /\ content[opened[r]] \in 0..3
      BY <1>3, FilesAreVersions DEF ReadPiece, Inv, ReaderInv, TypeOK
    <2>2. reader'[r] = "open" /\ pieces'[r] = pieces[r] + 1
      BY <1>1, <1>3 DEF ReadPiece
    <2> QED BY <1>1, <1>3, <2>1, <2>2 DEF ReadPiece
  <1>4. CASE Validate(r)
    BY <1>1, <1>4 DEF Validate
  <1>5. CASE Finish(r)
    BY <1>1, <1>5 DEF Finish
  <1> QED BY <1>2, <1>3, <1>4, <1>5 DEF ReaderStep

(* A step of a writer, or its end, shortens its own write.                 *)
LEMMA WriterShortens ==
  ASSUME Inv, NEW w \in Writers, WriterStep(w) \/ Fail(w)
  PROVE  StepsToWrite(w)' < StepsToWrite(w)
  <1> USE DEF StepsToWrite, Whole, Body
  <1>1. /\ writer \in [Writers -> {"idle", "called", "open", "closed"}]
        /\ buffered \in [Writers -> {0, 2, 3}] /\ buffered[w] \in {0, 2, 3}
        /\ content \in [Versions -> 0..3]
    BY DEF Inv, TypeOK
  <1>2. Busy(w)
    BY DEF WriterStep, CreateTemporary, WriteBody, WriteNewline, Flush, Close, Replace, Fail, Busy
  <1>3. version[w] \in Versions /\ content[version[w]] \in 0..3
    BY <1>2, FilesAreVersions
  <1>4. UNCHANGED version
    BY DEF WriterStep, CreateTemporary, WriteBody, WriteNewline, Flush, Close, Replace, Fail,
           writing
  <1>5. CASE CreateTemporary(w)
    BY <1>1, <1>3, <1>4, <1>5 DEF CreateTemporary
  <1>6. CASE WriteBody(w) \/ WriteNewline(w)
    BY <1>1, <1>3, <1>4, <1>6 DEF WriteBody, WriteNewline
  <1>7. CASE Flush(w)
    <2>1. content'[version[w]] = content[version[w]] + 1 /\ content[version[w]] < 3
          /\ UNCHANGED <<writer, buffered>> /\ writer[w] = "open"
      BY <1>1, <1>3, <1>7 DEF Flush, writing
    <2> QED BY <1>1, <1>3, <1>4, <2>1
  <1>8. CASE Close(w) \/ Replace(w) \/ Fail(w)
    <2>1. \/ writer[w] = "open" /\ writer'[w] = "closed"
          \/ writer[w] # "idle" /\ writer'[w] = "idle"
      BY <1>1, <1>8 DEF Close, Replace, Fail
    <2> QED BY <1>1, <1>3, <2>1
  <1> QED BY <1>5, <1>6, <1>7, <1>8 DEF WriterStep

(* What a writer does leaves every read, and every other write, as it was. *)
LEMMA WriterDisturbsNobody ==
  ASSUME Inv, NEW w \in Writers, TakeSnapshot(w) \/ WriterStep(w) \/ Fail(w)
  PROVE  /\ UNCHANGED reading
         /\ \A u \in Writers \ {w} : Busy(u) =>
               UNCHANGED <<writer[u], version[u], buffered[u], content[version[u]]>>
  <1>1. UNCHANGED reading
    BY DEF TakeSnapshot, WriterStep, CreateTemporary, WriteBody, WriteNewline, Flush, Close,
           Replace, Fail
  <1>2. ASSUME NEW u \in Writers \ {w}, Busy(u)
        PROVE  UNCHANGED <<writer[u], version[u], buffered[u]>>
    BY DEF TakeSnapshot, WriterStep, CreateTemporary, WriteBody, WriteNewline, Flush, Close,
           Replace, Fail, writing, Inv, TypeOK
  <1>3. ASSUME NEW u \in Writers \ {w}, Busy(u)
        PROVE  content'[version[u]] = content[version[u]]
    <2>1. CASE UNCHANGED content
      BY <2>1
    <2>2. CASE \E n : content' = [content EXCEPT ![version[w]] = n]
      <3>1. CASE Busy(w)
        BY <1>3, <2>2, <3>1, FilesAreVersions DEF Inv, WriterInv, TypeOK
      <3>2. CASE ~Busy(w)
        BY <3>2 DEF TakeSnapshot, WriterStep, CreateTemporary, WriteBody, WriteNewline, Flush,
                    Close, Replace, Fail, Busy
      <3> QED BY <3>1, <3>2
    <2> QED BY <2>1, <2>2 DEF TakeSnapshot, WriterStep, CreateTemporary, WriteBody, WriteNewline,
                              Flush, Close, Replace, Fail
  <1> QED BY <1>1, <1>2, <1>3

(* Every read and every write is wait-free: each step taken for it brings  *)
(* its end nearer, and no step of another, however many there are and      *)
(* however often they publish, puts it off.                                *)
THEOREM WaitFree == Spec => StepsAreBounded
  <1> DEFINE Bounded ==
        /\ \A r \in Readers : reader[r] # "idle" =>
             /\ StepsToRead(r) \in Nat
             /\ \/ StepsToRead(r)' < StepsToRead(r)
                \/ UNCHANGED <<reader[r], opened[r], pieces[r]>>
        /\ \A w \in Writers : writer[w] # "idle" =>
             /\ StepsToWrite(w) \in Nat
             /\ \/ StepsToWrite(w)' < StepsToWrite(w)
                \/ UNCHANGED <<writer[w], version[w], buffered[w], content[version[w]]>>
  <1>1. ASSUME Inv, NEW w \in Writers, TakeSnapshot(w) \/ WriterStep(w) \/ Fail(w)
        PROVE  Bounded
    <2>1. Busy(w) => StepsToWrite(w)' < StepsToWrite(w)
      BY <1>1, WriterShortens DEF TakeSnapshot, Busy
    <2> HIDE DEF StepsToWrite, StepsToRead
    <2>2. UNCHANGED reading
      BY <1>1, WriterDisturbsNobody
    <2>3. ASSUME NEW u \in Writers, Busy(u), u # w
          PROVE  UNCHANGED <<writer[u], version[u], buffered[u], content[version[u]]>>
      BY <1>1, <2>3, WriterDisturbsNobody
    <2> QED BY <1>1, <2>1, <2>2, <2>3, StepsAreNaturals DEF reading, Busy
  <1>2. ASSUME Inv, NEW r \in Readers, TestExists(r) \/ ReaderStep(r)
        PROVE  Bounded
    <2>1. reader[r] # "idle" => StepsToRead(r)' < StepsToRead(r)
      BY <1>2, ReaderShortens DEF TestExists
    <2>2. UNCHANGED <<content, writing>>
      BY <1>2 DEF ReaderStep, TestExists, Open, ReadPiece, Validate, Finish
    <2>3. \A s \in Readers : s # r => UNCHANGED <<reader[s], opened[s], pieces[s]>>
      BY <1>2 DEF ReaderStep, TestExists, Open, ReadPiece, Validate, Finish, Inv, TypeOK
    <2> QED BY <1>2, <2>1, <2>2, <2>3, StepsAreNaturals DEF writing, Busy
  <1>3. Inv /\ [Next]_vars => [Bounded]_vars
    BY <1>1, <1>2 DEF Next
  <1> QED BY <1>3, Invariant, PTL DEF Spec, StepsAreBounded

-----------------------------------------------------------------------------
(* The store implements the atomic file: a rename publishes, the test that *)
(* finds no file and the opening are the moment a read sees.               *)
LEMMA FileStep ==
  ASSUME Inv, [Next]_vars
  PROVE  [File!Next]_File!vars
  <1> USE DEF File!Next, File!vars, File!Publish, File!Look, File!Return
  <1>1. CASE UNCHANGED vars
    BY <1>1 DEF vars, reading, View
  <1>2. ASSUME NEW r \in Readers, TestExists(r) \/ ReaderStep(r)
        PROVE  [File!Next]_File!vars
    <2>1. UNCHANGED <<path, content>>
      BY <1>2 DEF TestExists, ReaderStep, Open, ReadPiece, Validate, Finish
    <2>2. reader \in [Readers -> {"idle", "none", "exists", "open", "snapshot", "raised"}]
          /\ opened \in [Readers -> Versions \cup {NoFile}]
      BY DEF Inv, TypeOK
    <2>3. reader[r] # "raised"
          /\ (reader[r] = "exists" => path # NoFile /\ content[path] = Whole)
          /\ (reader[r] \in {"open", "snapshot"} => content[opened[r]] = Whole /\ opened[r] # NoFile)
          /\ (reader[r] = "snapshot" => pieces[r] = Whole)
          /\ path # NoView /\ opened[r] # NoView /\ NoFile # NoView
      BY MaxWritesAssumption
         DEF Inv, ReaderInv, FileInv, TypeOK, NoView, NoFile, Versions
    <2>4. CASE TestExists(r)
      <3>1. CASE path = NoFile
        <4>1. View[r] = NoView /\ View' = [View EXCEPT ![r] = path]
          BY <2>1, <2>2, <2>4, <3>1 DEF TestExists, View
        <4> QED BY <2>1, <4>1
      <3>2. CASE path # NoFile
        <4>1. View' = View
          BY <2>1, <2>2, <2>4, <3>2 DEF TestExists, View
        <4> QED BY <2>1, <4>1
      <3> QED BY <3>1, <3>2
    <2>5. CASE Open(r)
      <3>1. View[r] = NoView /\ View' = [View EXCEPT ![r] = path]
        BY <2>1, <2>2, <2>3, <2>5 DEF Open, View
      <3> QED BY <2>1, <3>1
    <2>6. CASE ReadPiece(r)
      <3>1. View' = View
        BY <2>1, <2>2, <2>6 DEF ReadPiece, View
      <3> QED BY <2>1, <3>1
    <2>7. CASE Validate(r)
      <3>1. pieces[r] = Whole /\ Whole >= Body
        BY <2>3, <2>7 DEF Validate, Whole, Body
      <3>2. reader' = [reader EXCEPT ![r] = "snapshot"] /\ UNCHANGED opened
        BY <2>7, <3>1 DEF Validate
      <3>3. View' = View
        BY <2>1, <2>2, <2>7, <3>2 DEF Validate, View
      <3> QED BY <2>1, <3>3
    <2>8. CASE Finish(r)
      <3>1. View[r] # NoView /\ View' = [View EXCEPT ![r] = NoView]
        BY <2>1, <2>2, <2>3, <2>8 DEF Finish, View
      <3> QED BY <2>1, <3>1
    <2> QED BY <1>2, <2>4, <2>5, <2>6, <2>7, <2>8 DEF ReaderStep
  <1>3. ASSUME NEW w \in Writers, TakeSnapshot(w) \/ WriterStep(w) \/ Fail(w)
        PROVE  [File!Next]_File!vars
    <2>1. UNCHANGED reading
      BY <1>3 DEF TakeSnapshot, WriterStep, CreateTemporary, WriteBody, WriteNewline, Flush,
                  Close, Replace, Fail
    <2>2. \A r \in Readers : opened[r] \in Versions => content'[opened[r]] = content[opened[r]]
      <3>1. \A r \in Readers : Busy(w) => version[w] # opened[r]
        BY DEF Inv, WriterInv
      <3>2. \/ UNCHANGED content
            \/ Busy(w) /\ \E n \in Nat : content' = [content EXCEPT ![version[w]] = n]
        BY <1>3
           DEF TakeSnapshot, WriterStep, CreateTemporary, WriteBody, WriteNewline, Flush,
               Close, Replace, Fail, Busy, Whole, Inv, TypeOK
      <3>3. content \in [Versions -> 0..Whole]
        BY DEF Inv, TypeOK
      <3> QED BY <3>1, <3>2, <3>3
    <2>3. \A r \in Readers : reader[r] \in {"open", "snapshot"} => opened[r] \in Versions
      BY DEF Inv, ReaderInv, TypeOK
    <2>4. reader \in [Readers -> {"idle", "none", "exists", "open", "snapshot", "raised"}]
      BY DEF Inv, TypeOK
    <2>5. View' = View
      BY <2>1, <2>2, <2>3, <2>4 DEF View, reading
    <2> QED BY <2>5, PathStep
  <1> QED BY <1>1, <1>2, <1>3 DEF Next

THEOREM ImplementsFile == Spec => FileSpec
  <1>1. Init => File!Init
    BY DEF Init, File!Init, View
  <1> QED BY <1>1, FileStep, Invariant, PTL DEF Spec, FileSpec, File!Spec

-----------------------------------------------------------------------------
(* With one writing process at a time the write under way is always of the *)
(* last snapshot taken.                                                    *)
NewestUnderWay == \A w \in Writers : Busy(w) => version[w] = taken

(* One writing process, restarted as often as one likes, never takes the   *)
(* file back to an earlier snapshot.                                       *)
THEOREM OneWriterMovesForward ==
  ASSUME \A u, w \in Writers : u = w
  PROVE  Spec => MovesForward
  <1>1. Init => NewestUnderWay
    BY DEF Init, NewestUnderWay, Busy
  <1>2. Inv /\ NewestUnderWay /\ [Next]_vars => NewestUnderWay'
    <2> SUFFICES ASSUME Inv, NewestUnderWay, [Next]_vars PROVE NewestUnderWay'
      OBVIOUS
    <2> USE DEF NewestUnderWay, Busy
    <2>1. ASSUME NEW w \in Writers, TakeSnapshot(w)
          PROVE  NewestUnderWay'
      BY <2>1 DEF TakeSnapshot, Inv, TypeOK
    <2>2. ASSUME NEW w \in Writers, WriterStep(w) \/ Fail(w)
          PROVE  NewestUnderWay'
      <3>1. taken' = taken /\ version' = version
        BY <2>2 DEF WriterStep, CreateTemporary, WriteBody, WriteNewline, Flush, Close, Replace,
                    Fail, writing
      <3>2. \A u \in Writers : Busy(u)' => Busy(u)
        BY <2>2 DEF WriterStep, CreateTemporary, WriteBody, WriteNewline, Flush, Close, Replace,
                    Fail, writing, Inv, TypeOK
      <3> QED BY <3>1, <3>2
    <2>3. ASSUME NEW r \in Readers, TestExists(r) \/ ReaderStep(r)
          PROVE  NewestUnderWay'
      BY <2>3 DEF ReaderStep, TestExists, Open, ReadPiece, Validate, Finish, writing
    <2>4. CASE UNCHANGED vars
      BY <2>4 DEF vars, writing
    <2> QED BY <2>1, <2>2, <2>3, <2>4 DEF Next
  <1>3. Inv /\ NewestUnderWay /\ [Next]_vars => [path' > path]_path
    <2> SUFFICES ASSUME Inv, NewestUnderWay, [Next]_vars, path' # path
                 PROVE  path' > path
      OBVIOUS
    <2>1. ASSUME NEW w \in Writers, Replace(w)
          PROVE  path' > path
      <3>1. path' = version[w] /\ version[w] = taken /\ version[w] # path
        BY <2>1 DEF Replace, NewestUnderWay, Busy, Inv, WriterInv
      <3>2. path \in Nat /\ taken \in Nat /\ path <= taken
        BY MaxWritesAssumption DEF Inv, FileInv, TypeOK, Versions, NoFile
      <3> QED BY <3>1, <3>2
    <2>2. ASSUME NEW w \in Writers, TakeSnapshot(w) \/ WriterStep(w) \/ Fail(w), ~Replace(w)
          PROVE  path' = path
      BY <2>2 DEF WriterStep, TakeSnapshot, CreateTemporary, WriteBody, WriteNewline, Flush,
                  Close, Fail
    <2>3. ASSUME NEW r \in Readers, TestExists(r) \/ ReaderStep(r)
          PROVE  path' = path
      BY <2>3 DEF ReaderStep, TestExists, Open, ReadPiece, Validate, Finish
    <2> QED BY <2>1, <2>2, <2>3 DEF Next, vars
  <1> QED BY <1>1, <1>2, <1>3, Invariant, PTL DEF Spec, MovesForward

=============================================================================
