------------------------- MODULE ComposeFile_proofs -------------------------
(* Proofs about ComposeFile, for every set of writers, readers and contents. *)
EXTENDS ComposeFile, TLAPS

(* What the writes of one request build up: the file it stages holds exactly
   the blocks it has written. *)
Prefix(c, n) == [i \in 1 .. n |-> c]

Staged(w) ==
    /\ arg[w] \in Yaml
    /\ pc[w] = "write" => /\ fd[w] \in Inodes
                          /\ tmpPath = fd[w]
                          /\ off[w] < Size[arg[w]]
                          /\ data[tmpPath] = Prefix(arg[w], off[w])
    /\ pc[w] = "rename" => /\ tmpPath \in Inodes
                           /\ data[tmpPath] = Image[arg[w]]

(* A writer has a file open exactly while it writes, and a content that was
   accepted from then on; no request has written a block before its open. *)
WriterOK ==
    \A w \in Writers :
        /\ pc[w] = "write" => fd[w] \in Inodes
        /\ Writing(w) => arg[w] \in Yaml
        /\ pc[w] # "write" => off[w] = 0

(***************************************************************************)
(* Appending the next block of a content to its first n blocks.            *)
(***************************************************************************)
LEMMA WriteAtPrefix ==
    ASSUME NEW c, NEW n \in Nat
    PROVE  WriteAt(Prefix(c, n), n + 1, c) = Prefix(c, n + 1)
<1>1. 1 .. n \union 1 .. n + 1 = 1 .. n + 1
  OBVIOUS
<1> QED BY <1>1 DEF WriteAt, Prefix

LEMMA EmptyPrefix == ASSUME NEW c PROVE Empty = Prefix(c, 0)
<1>1. 1 .. 0 = {}
  OBVIOUS
<1> QED BY <1>1 DEF Empty, Prefix

LEMMA ImagePrefix ==
    ASSUME NEW c \in Contents PROVE Image[c] = Prefix(c, Size[c])
BY DEF Image, Prefix

(***************************************************************************)
(* Every variable has its type, whatever is interleaved.                   *)
(***************************************************************************)
THEOREM TypeCorrect == Spec => []TypeOK
<1>1. Init => TypeOK
  BY ConstantsOK DEF Init, TypeOK
<1>2. TypeOK /\ [Next]_vars => TypeOK'
  <2> SUFFICES ASSUME TypeOK, [Next]_vars PROVE TypeOK'
    OBVIOUS
  <2> USE ConstantsOK DEF TypeOK, fileVars, reqVars, readVars, gitVars,
                          Goto, Return, Close, Writers
  <2>1. CASE UNCHANGED vars
    BY <2>1 DEF vars
  <2>2. ASSUME NEW w \in Writers, PutFile(w) PROVE TypeOK'
    <3>1. CASE Receive(w)
      BY <3>1 DEF Receive
    <3>2. CASE OpenTmp(w)
      BY <3>2 DEF OpenTmp, Free
    <3>3. CASE WriteTmp(w)
      BY <3>3 DEF WriteTmp
    <3>4. CASE WriteFails(w)
      BY <3>4 DEF WriteFails
    <3>5. CASE Rename(w)
      BY <3>5 DEF Rename
    <3>6. CASE RenameFails(w)
      BY <3>6 DEF RenameFails
    <3>7. CASE RemoveTmp(w)
      BY <3>7 DEF RemoveTmp
    <3>8. CASE Reply(w)
      BY <3>8 DEF Reply
    <3> QED BY <2>2, <3>1, <3>2, <3>3, <3>4, <3>5, <3>6, <3>7, <3>8 DEF PutFile
  <2>3. ASSUME NEW w \in Writers, GitAdd(w) \/ GitCommit(w) \/ Disconnect(w)
        PROVE  TypeOK'
    <3>1. CASE GitAdd(w)
      BY <3>1 DEF GitAdd
    <3>2. CASE GitCommit(w)
      BY <3>2 DEF GitCommit
    <3>3. CASE Disconnect(w)
      BY <3>3 DEF Disconnect
    <3> QED BY <2>3, <3>1, <3>2, <3>3
  <2>4. ASSUME NEW r \in Readers, GetFile(r) PROVE TypeOK'
    BY <2>4 DEF GetFile, FindFile, OpenFile, ReadFile
  <2>5. CASE Crash
    BY <2>5 DEF Crash
  <2> QED BY <2>1, <2>2, <2>3, <2>4, <2>5 DEF Next, PutComposeFile
<1> QED BY <1>1, <1>2, PTL DEF Spec

(***************************************************************************)
(* The bookkeeping of WriterOK, inductive relative to TypeOK.              *)
(***************************************************************************)
LEMMA WriterOKStep == TypeOK /\ WriterOK /\ [Next]_vars => WriterOK'
<1> SUFFICES ASSUME TypeOK, WriterOK, [Next]_vars PROVE WriterOK'
  OBVIOUS
<1> USE ConstantsOK DEF TypeOK, WriterOK, Writing, Staging, reqVars, Goto,
                        Return, Close, Writers
<1>1. CASE UNCHANGED vars
  BY <1>1 DEF vars
<1>2. ASSUME NEW w \in Writers, PutFile(w) PROVE WriterOK'
  <2>1. CASE Receive(w)
    BY <2>1 DEF Receive
  <2>2. CASE OpenTmp(w)
    BY <2>2 DEF OpenTmp, Free
  <2>3. CASE WriteTmp(w)
    BY <2>3 DEF WriteTmp
  <2>4. CASE WriteFails(w)
    BY <2>4 DEF WriteFails
  <2>5. CASE Rename(w) \/ RenameFails(w) \/ RemoveTmp(w) \/ Reply(w)
    BY <2>5 DEF Rename, RenameFails, RemoveTmp, Reply
  <2> QED BY <1>2, <2>1, <2>2, <2>3, <2>4, <2>5 DEF PutFile
<1>3. ASSUME NEW w \in Writers, GitAdd(w) \/ GitCommit(w) \/ Disconnect(w)
      PROVE  WriterOK'
  BY <1>3 DEF GitAdd, GitCommit, Disconnect
<1>4. ASSUME NEW r \in Readers, GetFile(r) PROVE WriterOK'
  BY <1>4 DEF GetFile, FindFile, OpenFile, ReadFile
<1>5. CASE Crash
  BY <1>5 DEF Crash
<1> QED BY <1>1, <1>2, <1>3, <1>4, <1>5 DEF Next, PutComposeFile

(* While one writer stages alone, what it has staged is its own content. *)
SoloInv ==
    \A w \in Writers : solo = w /\ Staging(w) =>
        /\ \A v \in Writers \ {w} : ~Staging(v)
        /\ Staged(w)

(***************************************************************************)
(* The step of the writer that stages: open gives it an empty file of its  *)
(* own, each write extends it by a block, and the last makes it the image. *)
(***************************************************************************)
LEMMA OpenStages ==
    ASSUME TypeOK, WriterOK, NEW w \in Writers, OpenTmp(w)
    PROVE  Staged(w)'
<1> USE ConstantsOK DEF TypeOK, OpenTmp
<1>1. PICK i \in Inodes : tmpPath' = i /\ fd' = [fd EXCEPT ![w] = i]
                          /\ data' = [data EXCEPT ![i] = Empty]
  BY DEF Free
<1>2. off[w] = 0 /\ arg[w] \in Yaml /\ Size[arg[w]] > 0
  BY DEF WriterOK, Writing
<1>3. data'[i] = Prefix(arg[w], 0)
  BY <1>1, EmptyPrefix
<1> QED BY <1>1, <1>2, <1>3 DEF Staged, Goto

LEMMA WriteStages ==
    ASSUME TypeOK, WriterOK, NEW w \in Writers, Staged(w), WriteTmp(w)
    PROVE  Staged(w)'
<1> USE ConstantsOK DEF TypeOK, WriteTmp, Goto, Close, reqVars
<1>1. /\ tmpPath = fd[w] /\ fd[w] \in Inodes
      /\ off[w] \in Nat /\ arg[w] \in Contents
      /\ data[tmpPath] = Prefix(arg[w], off[w])
      /\ arg[w] \in Yaml
  BY DEF Staged
<1>2. data'[tmpPath] = Prefix(arg[w], off[w] + 1)
  BY <1>1, WriteAtPrefix
<1>3. off[w] + 1 = Size[arg[w]] => data'[tmpPath] = Image[arg[w]]
  BY <1>1, <1>2, ImagePrefix
<1>4. CASE off[w] + 1 < Size[arg[w]]
  BY <1>1, <1>2, <1>4 DEF Staged
<1>5. CASE off[w] + 1 = Size[arg[w]]
  BY <1>1, <1>3, <1>5 DEF Staged
<1> QED BY <1>4, <1>5

LEMMA SoloStep ==
    TypeOK /\ WriterOK /\ SoloInv /\ [Next]_vars => SoloInv'
<1> SUFFICES ASSUME TypeOK, WriterOK, SoloInv, [Next]_vars,
                    NEW w \in Writers, solo' = w, Staging(w)'
             PROVE  /\ \A v \in Writers \ {w} : ~Staging(v)'
                    /\ Staged(w)'
  BY DEF SoloInv
<1> USE ConstantsOK DEF TypeOK, fileVars, reqVars, Writers
<1>1. CASE UNCHANGED vars
  BY <1>1 DEF vars, SoloInv, Staged, Staging
<1>2. ASSUME NEW v \in Writers, PutFile(v)
      PROVE  /\ \A u \in Writers \ {w} : ~Staging(u)'
             /\ Staged(w)'
  <2>1. CASE OpenTmp(v)
    <3>1. v = w /\ \A u \in Writers \ {w} : ~Staging(u)
      BY <2>1 DEF OpenTmp
    <3> QED BY <2>1, <3>1, OpenStages DEF OpenTmp, Staging, Goto
  <2>2. CASE WriteTmp(v)
    <3>1. v = w /\ solo = w /\ Staging(w) /\ Staged(w)
          /\ \A u \in Writers \ {w} : ~Staging(u)
      BY <2>2 DEF WriteTmp, SoloInv, Staging, Goto, Close
    <3> QED BY <2>2, <3>1, WriteStages DEF WriteTmp, Staging, Goto, Close
  <2>3. CASE Receive(v) \/ WriteFails(v) \/ Reply(v)
    BY <2>3 DEF SoloInv, Receive, WriteFails, Reply, Staging, Staged, Goto,
                Return, Close
  <2>4. CASE Rename(v) \/ RenameFails(v) \/ RemoveTmp(v)
    BY <2>4 DEF SoloInv, Rename, RenameFails, RemoveTmp, Staging, Staged,
                Goto, Return
  <2> QED BY <1>2, <2>1, <2>2, <2>3, <2>4 DEF PutFile
<1>3. ASSUME NEW v \in Writers, GitAdd(v) \/ GitCommit(v) \/ Disconnect(v)
      PROVE  /\ \A u \in Writers \ {w} : ~Staging(u)'
             /\ Staged(w)'
  BY <1>3 DEF SoloInv, GitAdd, GitCommit, Disconnect, Staging, Staged, Goto,
              Return
<1>4. ASSUME NEW r \in Readers, GetFile(r)
      PROVE  /\ \A u \in Writers \ {w} : ~Staging(u)'
             /\ Staged(w)'
  BY <1>4 DEF SoloInv, GetFile, FindFile, OpenFile, ReadFile, Staging, Staged
<1>5. ~Crash
  BY DEF Crash
<1> QED BY <1>1, <1>2, <1>3, <1>4, <1>5 DEF Next, PutComposeFile

(***************************************************************************)
(* A request that no other overlapped commits its own content: poller.rs   *)
(* and handlers/compose.rs write the same temporary file without a lock,   *)
(* and this is what the scheme guarantees all the same.                    *)
(***************************************************************************)
THEOREM SoloWrite == Spec => SoloWriteIsWhole
<1>1. Init => WriterOK /\ SoloInv
  BY ConstantsOK DEF Init, WriterOK, SoloInv, Writing, Staging
<1>2. TypeOK /\ SoloInv /\ [Next]_vars =>
        [\A w \in Writers : /\ solo = w
                            /\ pc[w] = "rename"
                            /\ pc'[w] \in {"reply", "git_add"}
                            => data'[composePath'] = Image[arg[w]]]_vars
  <2> SUFFICES ASSUME TypeOK, SoloInv, Next, NEW w \in Writers, solo = w,
                      pc[w] = "rename", pc'[w] \in {"reply", "git_add"}
               PROVE  data'[composePath'] = Image[arg[w]]
    OBVIOUS
  <2>1. Rename(w)
    <3> USE ConstantsOK DEF TypeOK, Goto, Return, Close, reqVars, Writers
    <3>1. ~\E r \in Readers : GetFile(r)
      BY DEF GetFile, FindFile, OpenFile, ReadFile
    <3>2. ~Crash
      BY DEF Crash
    <3>3. ASSUME NEW v \in Writers, PutFile(v) PROVE v = w /\ Rename(v)
      BY <3>3 DEF PutFile, Receive, OpenTmp, WriteTmp, WriteFails, Rename,
                  RenameFails, RemoveTmp, Reply
    <3>4. ASSUME NEW v \in Writers PROVE ~(GitAdd(v) \/ GitCommit(v) \/ Disconnect(v))
      BY DEF GitAdd, GitCommit, Disconnect
    <3> QED BY <3>1, <3>2, <3>3, <3>4 DEF Next, PutComposeFile
  <2> QED BY <2>1 DEF SoloInv, Staged, Staging, Rename
<1> QED BY <1>1, <1>2, TypeCorrect, WriterOKStep, SoloStep, PTL
        DEF Spec, SoloWriteIsWhole

-------------------------------------------------------------------------------
(* For OnlyAcceptedBlocks, what is staged in the repository counts as well, and
   it has to be known that git add finds a file. *)
BlocksInv ==
    /\ OnlyAcceptedBlocks
    /\ Accepted(index)
    /\ FoundStaysFound
    /\ \A w \in Writers : pc[w] = "git_add" => composePath # None

LEMMA WriteAccepted ==
    ASSUME NEW img, NEW k \in Nat, NEW c \in Yaml, Accepted(img)
    PROVE  Accepted(WriteAt(img, k, c))
BY DEF Accepted, WriteAt

LEMMA EmptyAccepted == Accepted(Empty)
BY DEF Accepted, Empty

LEMMA BlocksStep == TypeOK /\ WriterOK /\ BlocksInv /\ [Next]_vars => BlocksInv'
<1> SUFFICES ASSUME TypeOK, WriterOK, BlocksInv, [Next]_vars PROVE BlocksInv'
  OBVIOUS
<1> USE DEF fileVars, reqVars, readVars, gitVars
<1>a. /\ composePath \in Inodes \union {None} /\ tmpPath \in Inodes \union {None}
      /\ DOMAIN data = Inodes
  BY Zenon DEF TypeOK
<1>b. \A w \in Writers : Accepted(data[fd[w]]) \/ fd[w] \notin Inodes
  BY DEF BlocksInv, OnlyAcceptedBlocks
(* A step that changes neither a file nor the repository, and finds one. *)
<1>c. ASSUME UNCHANGED <<data, index, log, composePath>>,
             \A w \in Writers : pc'[w] = "git_add" => pc[w] = "git_add",
             \A r \in Readers : rpc'[r] # "idle" => composePath # None
      PROVE  BlocksInv'
  BY <1>c DEF BlocksInv, OnlyAcceptedBlocks, FoundStaysFound, Accepted
<1>1. CASE UNCHANGED vars
  BY <1>1, <1>c DEF vars, BlocksInv, FoundStaysFound
<1>2. ASSUME NEW w \in Writers, Receive(w) PROVE BlocksInv'
  <2>1. pc \in [Writers -> {"idle", "open", "write", "rename", "remove",
                           "reply", "git_add", "git_commit"}]
    BY DEF TypeOK
  <2> QED BY <1>2, <1>c, <2>1 DEF Receive, Goto, Return, BlocksInv, FoundStaysFound
<1>3. ASSUME NEW w \in Writers, OpenTmp(w) PROVE BlocksInv'
  <2>1. PICK i \in Inodes : data' = [data EXCEPT ![i] = Empty]
    BY <1>3, <1>a, Zenon DEF OpenTmp, Free
  <2>2. \A j \in Inodes : Accepted(data'[j])
    BY <1>a, <2>1, EmptyAccepted DEF BlocksInv, OnlyAcceptedBlocks
  <2>3. UNCHANGED <<index, log, composePath, rpc>>
    BY <1>3 DEF OpenTmp
  <2>4. \A v \in Writers : pc'[v] = "git_add" => pc[v] = "git_add"
    BY <1>3 DEF OpenTmp, Goto, TypeOK
  <2> QED BY <2>2, <2>3, <2>4 DEF BlocksInv, OnlyAcceptedBlocks, FoundStaysFound, Accepted
<1>4. ASSUME NEW w \in Writers, WriteTmp(w) PROVE BlocksInv'
  <2>1. /\ fd[w] \in Inodes /\ arg[w] \in Yaml /\ off[w] + 1 \in Nat
        /\ data' = [data EXCEPT ![fd[w]] = WriteAt(data[fd[w]], off[w] + 1, arg[w])]
    BY <1>4 DEF WriteTmp, WriterOK, TypeOK, Writing, Staging
  <2>2. Accepted(WriteAt(data[fd[w]], off[w] + 1, arg[w]))
    BY <2>1, <1>b, WriteAccepted
  <2>3. \A j \in Inodes : Accepted(data'[j])
    BY <1>a, <2>1, <2>2 DEF BlocksInv, OnlyAcceptedBlocks
  <2>4. UNCHANGED <<index, log, composePath, rpc>>
    BY <1>4 DEF WriteTmp
  <2>5. \A v \in Writers : pc'[v] = "git_add" => pc[v] = "git_add"
    BY <1>4 DEF WriteTmp, Goto, TypeOK
  <2> QED BY <2>3, <2>4, <2>5 DEF BlocksInv, OnlyAcceptedBlocks, FoundStaysFound, Accepted
<1>5. ASSUME NEW w \in Writers,
             WriteFails(w) \/ RenameFails(w) \/ RemoveTmp(w) \/ Reply(w)
      PROVE  BlocksInv'
  BY <1>5, <1>c DEF WriteFails, RenameFails, RemoveTmp, Reply, Goto, Return,
                    BlocksInv, FoundStaysFound, TypeOK
<1>6. ASSUME NEW w \in Writers, Rename(w) PROVE BlocksInv'
  <2>1. composePath' # None /\ UNCHANGED <<data, index, log, rpc>>
    BY <1>6 DEF Rename
  <2> QED BY <2>1 DEF BlocksInv, OnlyAcceptedBlocks, FoundStaysFound, Accepted
<1>7. ASSUME NEW w \in Writers, GitAdd(w) PROVE BlocksInv'
  <2>1. Accepted(data[composePath])
    BY <1>7, <1>a DEF GitAdd, BlocksInv, OnlyAcceptedBlocks
  <2>2. index' \in {index, data[composePath]} /\ UNCHANGED <<data, log, composePath, rpc>>
    BY <1>7 DEF GitAdd
  <2>3. \A v \in Writers : pc'[v] = "git_add" => pc[v] = "git_add"
    BY <1>7 DEF GitAdd, Goto, Return, TypeOK
  <2> QED BY <2>1, <2>2, <2>3 DEF BlocksInv, OnlyAcceptedBlocks, FoundStaysFound, Accepted
<1>8. ASSUME NEW w \in Writers, GitCommit(w) PROVE BlocksInv'
  <2>1. log' \in {log, log \union {index}} /\ UNCHANGED <<data, index, composePath, rpc>>
    BY <1>8 DEF GitCommit
  <2>2. \A v \in Writers : pc'[v] = "git_add" => pc[v] = "git_add"
    BY <1>8 DEF GitCommit, Return, TypeOK
  <2> QED BY <2>1, <2>2 DEF BlocksInv, OnlyAcceptedBlocks, FoundStaysFound, Accepted
<1>9. ASSUME NEW r \in Readers, GetFile(r) PROVE BlocksInv'
  BY <1>9, <1>c DEF GetFile, FindFile, OpenFile, ReadFile, BlocksInv, FoundStaysFound, TypeOK
<1>10. CASE Crash
  BY <1>10, <1>c DEF Crash
<1>11. ASSUME NEW w \in Writers, Disconnect(w) PROVE BlocksInv'
  <2>1. /\ pc[w] = "git_add" => index' \in {index, data[composePath]} /\ UNCHANGED log
        /\ pc[w] # "git_add" => log' \in {log, log \union {index}} /\ UNCHANGED index
        /\ UNCHANGED <<data, composePath, rpc>>
    BY <1>11 DEF Disconnect
  <2>2. pc[w] = "git_add" => Accepted(data[composePath])
    BY <1>a DEF BlocksInv, OnlyAcceptedBlocks
  <2>3. \A v \in Writers : pc'[v] = "git_add" => pc[v] = "git_add"
    BY <1>11 DEF Disconnect, Return, TypeOK
  <2>4. CASE pc[w] = "git_add"
    BY <2>1, <2>2, <2>3, <2>4
       DEF BlocksInv, OnlyAcceptedBlocks, FoundStaysFound, Accepted
  <2>5. CASE pc[w] # "git_add"
    BY <2>1, <2>3, <2>5
       DEF BlocksInv, OnlyAcceptedBlocks, FoundStaysFound, Accepted
  <2> QED BY <2>4, <2>5
<1> QED BY <1>1, <1>2, <1>3, <1>4, <1>5, <1>6, <1>7, <1>8, <1>9, <1>10, <1>11, Zenon
        DEF Next, PutComposeFile, PutFile, Writers

LEMMA BlocksCorrect == Spec => []BlocksInv
<1>1. Init => BlocksInv
  <2> SUFFICES ASSUME Init PROVE BlocksInv
    OBVIOUS
  <2>1. \A c \in Yaml : Accepted(Image[c])
    BY ConstantsOK DEF ConstantsOK, Accepted, Image
  <2>2. \A i \in Inodes : Accepted(data[i])
    BY <2>1, EmptyAccepted DEF Init
  <2> QED BY <2>2, EmptyAccepted DEF Init, BlocksInv, OnlyAcceptedBlocks, FoundStaysFound
<1>2. Init => WriterOK
  BY ConstantsOK DEF Init, WriterOK, Writing, Staging
<1> QED BY <1>1, <1>2, TypeCorrect, WriterOKStep, BlocksStep, PTL DEF Spec

(***************************************************************************)
(* Whatever overlaps, no block of a content that was not accepted reaches  *)
(* a file or the repository ...                                            *)
(***************************************************************************)
THEOREM AcceptedOnly == Spec => []OnlyAcceptedBlocks
BY BlocksCorrect, PTL DEF BlocksInv

(* ... and a compose file that a reader found is there when it opens it. *)
THEOREM FoundIsThere == Spec => []FoundStaysFound
BY BlocksCorrect, PTL DEF BlocksInv

-------------------------------------------------------------------------------
(* The inductive invariant of the serial behaviours.  It adds to the property
   that the file being staged is neither served nor being read, which is why
   writing it disturbs nobody. *)
SerialInv ==
    /\ Serial
    /\ \A w \in Writers : Staging(w) => Staged(w)
    /\ tmpPath # None => tmpPath # composePath
    /\ ServedIsWhole
    /\ FoundStaysFound
    /\ ReaderSeesWhole
    /\ \A r \in Readers : rpc[r] = "read" => rfd[r] \in Inodes \ {tmpPath}
    /\ \A w \in Writers : pc[w] = "git_add" => composePath # None
    /\ index = head \/ Whole(index)
    /\ HistoryIsWhole

LEMMA SerialInit == Init => SerialInv
<1> SUFFICES ASSUME Init PROVE SerialInv
  OBVIOUS
<1>1. ServedIsWhole
  BY ConstantsOK DEF Init, ServedIsWhole, Whole
<1> QED BY <1>1, ConstantsOK DEF Init, SerialInv, Serial, Writing, Staging,
           FoundStaysFound, ReaderSeesWhole, HistoryIsWhole

(***************************************************************************)
(* Only receiving a content makes one more writer: the other steps keep    *)
(* Serial, so a serial step is a step of Spec after which Serial holds.    *)
(***************************************************************************)
LEMMA SerialIsNext ==
    TypeOK /\ Serial /\ [SerialNext]_vars => [Next /\ Serial']_vars
<1> SUFFICES ASSUME TypeOK, Serial, SerialNext PROVE Next /\ Serial'
  OBVIOUS
<1>1. Next
  BY DEF SerialNext, Next, PutComposeFile, Writers
<1> USE DEF TypeOK, Serial, Writing, Staging, Goto, Return, Writers
<1>2. CASE \E w \in HttpPuts : GitAdd(w) \/ GitCommit(w) \/ Disconnect(w)
  BY <1>1, <1>2 DEF GitAdd, GitCommit, Disconnect
<1>3. CASE \E r \in Readers : GetFile(r)
  BY <1>1, <1>3 DEF GetFile, FindFile, OpenFile, ReadFile, reqVars
<1>4. CASE Crash
  BY <1>1, <1>4 DEF Crash
<1> QED BY <1>1, <1>2, <1>3, <1>4 DEF SerialNext

(***************************************************************************)
(* The staged file is not one that is served or read.                      *)
(***************************************************************************)
LEMMA StagingApart ==
    ASSUME TypeOK, WriterOK, SerialInv, NEW w \in Writers,
           OpenTmp(w) \/ WriteTmp(w)
    PROVE  \E i \in Inodes :
              /\ tmpPath' = i
              /\ i # composePath
              /\ \A r \in Readers : rpc[r] = "read" => rfd[r] # i
              /\ \A j \in Inodes \ {i} : data'[j] = data[j]
<1> USE ConstantsOK DEF TypeOK, SerialInv
<1>1. CASE OpenTmp(w)
  BY <1>1 DEF OpenTmp, Free
<1>2. CASE WriteTmp(w)
  BY <1>2 DEF WriteTmp, Staging, Staged
<1> QED BY <1>1, <1>2

LEMMA SerialStep ==
    TypeOK /\ WriterOK /\ SerialInv /\ [SerialNext]_vars => SerialInv'
<1> SUFFICES ASSUME TypeOK, WriterOK, SerialInv, [Next /\ Serial']_vars
             PROVE  SerialInv'
  BY SerialIsNext DEF SerialInv
<1> USE ConstantsOK DEF TypeOK, fileVars, reqVars, readVars, gitVars, Writers
<1>1. CASE UNCHANGED vars
  BY <1>1 DEF vars, SerialInv, Serial, Writing, Staging, Staged, ServedIsWhole,
              FoundStaysFound, ReaderSeesWhole, HistoryIsWhole, Whole
<1>2. ASSUME NEW w \in Writers, PutFile(w), Serial' PROVE SerialInv'
  <2>1. CASE OpenTmp(w) \/ WriteTmp(w)
    <3>1. PICK i \in Inodes :
              /\ tmpPath' = i
              /\ i # composePath
              /\ \A r \in Readers : rpc[r] = "read" => rfd[r] # i
              /\ \A j \in Inodes \ {i} : data'[j] = data[j]
      BY <2>1, StagingApart
    <3>2. /\ composePath' = composePath
          /\ UNCHANGED <<readVars, gitVars>>
          /\ \A v \in Writers \ {w} : pc'[v] = pc[v]
          /\ pc'[w] \in {"write", "rename"}
      BY <2>1 DEF OpenTmp, WriteTmp, Goto, Close
    <3>3. Staged(w)'
      BY <2>1, OpenStages, WriteStages DEF SerialInv, Staging, WriteTmp
    <3>4. \A v \in Writers : Staging(v)' => Staged(v)'
      BY <1>2, <3>2, <3>3 DEF Serial, Writing, Staging
    <3>5. ServedIsWhole' /\ ReaderSeesWhole' /\ FoundStaysFound'
      BY <3>1, <3>2 DEF SerialInv, ServedIsWhole, ReaderSeesWhole,
                        FoundStaysFound, Whole
    <3> QED BY <1>2, <3>1, <3>2, <3>4, <3>5
            DEF SerialInv, HistoryIsWhole, Whole
  <2>2. CASE Rename(w)
    <3>1. data[tmpPath] = Image[arg[w]] /\ arg[w] \in Yaml /\ tmpPath \in Inodes
      BY <2>2 DEF SerialInv, Staging, Staged, Rename
    <3>2. \A v \in Writers : ~Staging(v)'
      BY <2>2 DEF SerialInv, Serial, Writing, Staging, Rename, Goto
    <3> QED BY <1>2, <2>2, <3>1, <3>2
            DEF Rename, Goto, SerialInv, ServedIsWhole, FoundStaysFound,
                ReaderSeesWhole, HistoryIsWhole, Whole
  <2>3. CASE Receive(w) \/ WriteFails(w) \/ RenameFails(w) \/ RemoveTmp(w)
             \/ Reply(w)
    <3>1. \A v \in Writers : Staging(v)' => Staged(v)'
      <4>1. CASE RemoveTmp(w)
        BY <4>1 DEF RemoveTmp, Return, SerialInv, Serial, Writing, Staging
      <4>2. CASE Receive(w) \/ WriteFails(w) \/ RenameFails(w) \/ Reply(w)
        BY <4>2 DEF Receive, WriteFails, RenameFails, Reply, Return, Goto,
                    Close, SerialInv, Staging, Staged
      <4> QED BY <2>3, <4>1, <4>2
    <3> QED BY <1>2, <2>3, <3>1
            DEF Receive, WriteFails, RenameFails, RemoveTmp, Reply, Return,
                Goto, SerialInv, ServedIsWhole, FoundStaysFound,
                ReaderSeesWhole, HistoryIsWhole, Whole
  <2> QED BY <1>2, <2>1, <2>2, <2>3 DEF PutFile
<1>3. ASSUME NEW w \in Writers, GitAdd(w) \/ GitCommit(w) \/ Disconnect(w),
             Serial'
      PROVE  SerialInv'
  <2>1. \A v \in Writers : Staging(v)' => Staged(v)'
    BY <1>3 DEF GitAdd, GitCommit, Disconnect, Return, Goto, SerialInv,
                Staging, Staged
  <2>2. (index = head \/ Whole(index))' /\ HistoryIsWhole'
    BY <1>3 DEF GitAdd, GitCommit, Disconnect, SerialInv, ServedIsWhole,
                HistoryIsWhole, Whole
  <2> QED BY <1>3, <2>1, <2>2
          DEF GitAdd, GitCommit, Disconnect, Return, Goto, SerialInv,
              ServedIsWhole, FoundStaysFound, ReaderSeesWhole, Whole
<1>4. ASSUME NEW r \in Readers, GetFile(r), Serial' PROVE SerialInv'
  BY <1>4 DEF GetFile, FindFile, OpenFile, ReadFile, SerialInv, Staging,
              Staged, ServedIsWhole, FoundStaysFound, ReaderSeesWhole,
              HistoryIsWhole, Whole
<1>5. CASE Crash /\ Serial'
  BY <1>5 DEF Crash, SerialInv, Staging, Staged, ServedIsWhole,
              FoundStaysFound, ReaderSeesWhole, HistoryIsWhole, Whole
<1> QED BY <1>1, <1>2, <1>3, <1>4, <1>5 DEF Next, PutComposeFile

(* A serial behaviour is one of Spec, so what holds of every behaviour holds. *)
LEMMA SerialCorrect == SerialSpec => [](TypeOK /\ WriterOK /\ SerialInv)
<1>1. Init => WriterOK
  BY ConstantsOK DEF Init, WriterOK, Writing, Staging
<1>2. [SerialNext]_vars => [Next]_vars
  BY DEF SerialNext, Next, PutComposeFile, Writers
<1>3. SerialSpec => Spec
  BY <1>2, PTL DEF SerialSpec, Spec
<1> QED BY <1>1, <1>2, <1>3, TypeCorrect, WriterOKStep, SerialInit, SerialStep, PTL
        DEF SerialSpec

(***************************************************************************)
(* Without overlapping requests the node serves one whole accepted content *)
(* at every moment, across failures of every system call and crashes ...   *)
(***************************************************************************)
THEOREM SerialServedIsWhole == SerialSpec => []ServedIsWhole
<1>1. SerialInv => ServedIsWhole
  BY DEF SerialInv
<1> QED BY <1>1, SerialCorrect, PTL

(* ... every reader gets one, though the file is replaced while it reads ... *)
THEOREM SerialReaderSeesWhole == SerialSpec => []ReaderSeesWhole
<1>1. SerialInv => ReaderSeesWhole
  BY DEF SerialInv
<1> QED BY <1>1, SerialCorrect, PTL

(* ... and so does the repository. *)
THEOREM SerialHistoryIsWhole == SerialSpec => []HistoryIsWhole
<1>1. SerialInv => HistoryIsWhole
  BY DEF SerialInv
<1> QED BY <1>1, SerialCorrect, PTL

-------------------------------------------------------------------------------
(***************************************************************************)
(* The serial behaviours implement AtomicFile: the rename is the moment    *)
(* the file changes, opening the file is the moment it is read, and the    *)
(* other steps change nothing that can be seen.                            *)
(***************************************************************************)
LEMMA RefinesInit == Init => AF!Init
<1> SUFFICES ASSUME Init PROVE AF!Init
  OBVIOUS
<1>1. ServedFile \in AF!Images \union {None}
  BY ConstantsOK DEF Init, ServedFile, AF!Images
<1>2. arg \in [Writers -> Contents]
  BY ConstantsOK DEF Init
<1> QED BY <1>1, <1>2 DEF Init, AF!Init, Phase, View

LEMMA RefinesStep ==
    TypeOK /\ WriterOK /\ SerialInv /\ [SerialNext]_vars
        => [AF!Next]_AF!vars
<1> SUFFICES ASSUME TypeOK, WriterOK, SerialInv, [Next /\ Serial']_vars
             PROVE  AF!Next \/ UNCHANGED AF!vars
  BY SerialIsNext DEF SerialInv
<1> USE ConstantsOK DEF TypeOK, fileVars, reqVars, readVars, gitVars, Writers
<1>1. CASE UNCHANGED vars
  BY <1>1 DEF vars, AF!vars, ServedFile, Phase, View, Writing, Staging
<1>2. ASSUME NEW w \in Writers, PutFile(w)
      PROVE  AF!Next \/ UNCHANGED AF!vars
  <2> USE DEF Goto, Return, Close, Writing, Staging
  <2>1. CASE Receive(w)
    <3>1. UNCHANGED <<ServedFile, View>>
      BY <2>1 DEF Receive, ServedFile, View
    <3>2. CASE \E c \in Yaml : arg' = [arg EXCEPT ![w] = c] /\ Goto(w, "open")
      <4>1. PICK c \in Yaml : arg' = [arg EXCEPT ![w] = c] /\ Goto(w, "open")
        BY <3>2
      <4>2. Phase[w] = "idle" /\ Phase' = [Phase EXCEPT ![w] = "busy"]
        BY <2>1, <4>1 DEF Receive, Phase
      <4>3. AF!Begin(w, c)
        BY <3>1, <4>1, <4>2 DEF AF!Begin
      <4> QED BY <4>3 DEF AF!Next
    <3>3. CASE Return(w, "failed") /\ UNCHANGED arg
      BY <2>1, <3>1, <3>3 DEF Receive, AF!vars, Phase
    <3> QED BY <2>1, <3>2, <3>3 DEF Receive
  <2>2. CASE OpenTmp(w) \/ WriteTmp(w)
    <3>1. UNCHANGED <<ServedFile, View>>
      <4>1. PICK i \in Inodes :
                /\ i # composePath
                /\ \A r \in Readers : rpc[r] = "read" => rfd[r] # i
                /\ \A j \in Inodes \ {i} : data'[j] = data[j]
        BY <2>2, StagingApart
      <4>2. UNCHANGED <<composePath, rpc, rfd>>
        BY <2>2 DEF OpenTmp, WriteTmp
      <4>3. UNCHANGED ServedFile
        BY <4>1, <4>2 DEF ServedFile
      <4>4. \A r \in Readers : rpc[r] = "read" => data'[rfd[r]] = data[rfd[r]]
        BY <4>1 DEF SerialInv
      <4> QED BY <4>2, <4>3, <4>4 DEF View
    <3>2. UNCHANGED <<Phase, arg>>
      BY <2>2 DEF OpenTmp, WriteTmp, Phase
    <3> QED BY <3>1, <3>2 DEF AF!vars
  <2>3. CASE WriteFails(w) \/ RemoveTmp(w)
    <3>1. /\ pc[w] \in {"open", "write", "remove"}
          /\ pc' = [pc EXCEPT ![w] = "idle"]
      BY <2>3 DEF WriteFails, RemoveTmp
    <3>2. Phase[w] = "busy" /\ Phase' = [Phase EXCEPT ![w] = "idle"]
      BY <3>1 DEF Phase
    <3>3. UNCHANGED <<ServedFile, View, arg>>
      BY <2>3 DEF WriteFails, RemoveTmp, ServedFile, View
    <3> QED BY <3>2, <3>3 DEF AF!Fail, AF!Next
  <2>4. CASE Rename(w)
    <3>1. data[tmpPath] = Image[arg[w]] /\ tmpPath \in Inodes
      BY <2>4 DEF Rename, SerialInv, Staged
    <3>2. ServedFile' = Image[arg[w]]
      BY <2>4, <3>1 DEF Rename, ServedFile
    <3>3. Phase[w] = "busy" /\ Phase' = [Phase EXCEPT ![w] = "applied"]
      BY <2>4 DEF Rename, Phase
    <3>4. UNCHANGED <<View, arg>>
      BY <2>4 DEF Rename, View
    <3> QED BY <3>2, <3>3, <3>4 DEF AF!Apply, AF!Next
  <2>5. CASE RenameFails(w)
    BY <2>5 DEF RenameFails, AF!vars, ServedFile, Phase, View
  <2>6. CASE Reply(w)
    <3>1. Phase[w] = "applied" /\ Phase' = [Phase EXCEPT ![w] = "idle"]
      BY <2>6 DEF Reply, Phase
    <3>2. UNCHANGED <<ServedFile, View, arg>>
      BY <2>6 DEF Reply, ServedFile, View
    <3> QED BY <3>1, <3>2 DEF AF!Succeed, AF!Next
  <2> QED BY <1>2, <2>1, <2>2, <2>3, <2>4, <2>5, <2>6 DEF PutFile
<1>3. ASSUME NEW w \in Writers, GitAdd(w) \/ GitCommit(w) \/ Disconnect(w)
      PROVE  AF!Next \/ UNCHANGED AF!vars
  <2> USE DEF Goto, Return, Writing, Staging
  <2>1. UNCHANGED <<ServedFile, View, arg>>
    BY <1>3 DEF GitAdd, GitCommit, Disconnect, ServedFile, View
  <2>2. CASE pc' = [pc EXCEPT ![w] = "idle"]
    <3>1. Phase[w] = "applied" /\ Phase' = [Phase EXCEPT ![w] = "idle"]
      BY <1>3, <2>2 DEF GitAdd, GitCommit, Disconnect, Phase
    <3> QED BY <2>1, <3>1 DEF AF!Succeed, AF!Next
  <2>3. CASE pc' # [pc EXCEPT ![w] = "idle"]
    <3>1. UNCHANGED Phase
      BY <1>3, <2>3 DEF GitAdd, GitCommit, Disconnect, Phase
    <3> QED BY <2>1, <3>1 DEF AF!vars
  <2> QED BY <2>2, <2>3
<1>4. ASSUME NEW r \in Readers, GetFile(r)
      PROVE  AF!Next \/ UNCHANGED AF!vars
  <2>1. UNCHANGED <<ServedFile, Phase, arg>>
    BY <1>4 DEF GetFile, FindFile, OpenFile, ReadFile, ServedFile, Phase,
                Writing, Staging
  <2>2. CASE FindFile(r)
    BY <2>1, <2>2 DEF FindFile, AF!vars, View
  <2>3. CASE OpenFile(r)
    <3>1. View' = [View EXCEPT ![r] = ServedFile]
      BY <2>3 DEF OpenFile, View, ServedFile, SerialInv, FoundStaysFound
    <3> QED BY <2>1, <3>1 DEF AF!Read, AF!Next
  <2>4. CASE ReadFile(r)
    <3>1. View' = [View EXCEPT ![r] = None]
      BY <2>4 DEF ReadFile, View
    <3> QED BY <2>1, <3>1 DEF AF!Return, AF!Next
  <2> QED BY <1>4, <2>2, <2>3, <2>4 DEF GetFile
<1>5. CASE Crash
  <2>1. /\ UNCHANGED <<ServedFile, arg>>
        /\ Phase' = [w \in Writers |-> "idle"]
        /\ View' = [r \in Readers |-> None]
    BY <1>5 DEF Crash, ServedFile, Phase, View
  <2> QED BY <2>1 DEF AF!Crash, AF!Next
<1> QED BY <1>1, <1>2, <1>3, <1>4, <1>5 DEF Next, PutComposeFile

(* README.md:124, "atomic write": what the scheme implements when requests do
   not overlap. *)
THEOREM SerialIsAtomic == SerialSpec => Atomic
BY RefinesInit, RefinesStep, SerialCorrect, PTL
   DEF SerialSpec, Atomic, AF!Spec
===============================================================================
